---------------------- MODULE MessageLifecycleProofs ----------------------
(***************************************************************************)
(* Proofs that the properties of MessageLifecycle hold for any sets of     *)
(* messages and consumers and any values of the other constants.           *)
(***************************************************************************)
EXTENDS MessageLifecycle, TLAPS

USE ZenonT(30)

ListsType == [Keys -> [Messages -> Nat]]

(* What pushing an id does to the contents of every key. *)
LEMMA AddContents ==
    ASSUME NEW L \in ListsType, NEW k \in Keys, NEW m \in Messages
    PROVE  /\ Add(L, k, m) \in ListsType
           /\ \A j \in Keys, n \in Messages :
                 Add(L, k, m)[j][n] = IF j = k /\ n = m
                                      THEN IF k \in SortedSets THEN 1 ELSE L[k][m] + 1
                                      ELSE L[j][n]
BY SMTT(30) DEF ListsType, Add

(* What removing one occurrence of an id does to the contents of every key. *)
LEMMA RemContents ==
    ASSUME NEW L \in ListsType, NEW k \in Keys, NEW m \in Messages
    PROVE  /\ Rem(L, k, m) \in ListsType
           /\ \A j \in Keys, n \in Messages :
                 Rem(L, k, m)[j][n] = IF j = k /\ n = m
                                      THEN IF L[k][m] > 0 THEN L[k][m] - 1 ELSE 0
                                      ELSE L[j][n]
BY SMTT(30) DEF ListsType, Rem

(* A move takes the id from one key and adds it to another. *)
LEMMA MoveContents ==
    ASSUME NEW L \in ListsType, NEW k \in Keys, NEW l \in Keys, NEW m \in Messages, k # l
    PROVE  /\ Move(L, k, l, m) \in ListsType
           /\ \A j \in Keys, n \in Messages :
                 Move(L, k, l, m)[j][n] =
                     IF n = m /\ j = k THEN (IF L[k][m] > 0 THEN L[k][m] - 1 ELSE 0)
                     ELSE IF n = m /\ j = l THEN (IF l \in SortedSets THEN 1 ELSE L[l][m] + 1)
                     ELSE L[j][n]
<1>1. /\ Rem(L, k, m) \in ListsType
      /\ Add(Rem(L, k, m), l, m) \in ListsType
  BY RemContents, AddContents
<1>2. \A j \in Keys, n \in Messages :
         Add(Rem(L, k, m), l, m)[j][n] = IF j = l /\ n = m
                                         THEN IF l \in SortedSets THEN 1 ELSE Rem(L, k, m)[l][m] + 1
                                         ELSE Rem(L, k, m)[j][n]
  BY <1>1, AddContents, SMTT(30)
<1>3. \A j \in Keys, n \in Messages :
         Rem(L, k, m)[j][n] = IF j = k /\ n = m
                              THEN IF L[k][m] > 0 THEN L[k][m] - 1 ELSE 0
                              ELSE L[j][n]
  BY RemContents, SMTT(30)
<1>4. QED
  BY <1>1, <1>2, <1>3, SMTT(30) DEF Move
---------------------------------------------------------------------------
(* Type correctness. *)

StoreType ==
    /\ lists \in ListsType
    /\ status \in [Messages -> Statuses]
    /\ attempts \in [Messages -> Nat]
    /\ ghost \subseteq Messages
    /\ count \in [Counters -> Int]

LoopType ==
    /\ pc \in [Consumers -> {"off", "idle", "popped", "handling"}]
    /\ envelope \in [Consumers -> [msg : Messages \cup {NoMessage}, attempts : Nat]]
    /\ \A c \in Consumers : pc[c] \in {"popped", "handling"} => envelope[c].msg \in Messages

UnackCalls == [from : Consumers, owner : Consumers, msg : Messages,
               attempts : Nat, cause : Causes]

(* The keys of the queue are different keys, and none is a consumer. *)
LEMMA KeyFacts ==
    /\ {"pending", "requeued", "delayed", "scheduled", "acknowledged",
         "deadLettered", "published"} \subseteq Keys
    /\ Consumers \subseteq Keys
    /\ Consumers \cap {"pending", "requeued", "delayed", "scheduled",
                       "acknowledged", "deadLettered", "published"} = {}
    /\ SortedSets = {"delayed", "scheduled"}
    /\ Places \subseteq Keys
    /\ "published" \notin Places
BY ConstantsAssumption DEF Keys, Places, QueueLists, SortedSets

(* Counters stay integers. *)
LEMMA CounterType ==
    ASSUME NEW C \in [Counters -> Int], NEW k \in Counters
    PROVE  Incr(C, k) \in [Counters -> Int] /\ Decr(C, k) \in [Counters -> Int]
BY SMTT(30) DEF Incr, Decr

(* The script that publishes a message keeps the store well typed. *)
LEMMA PublishScriptType ==
    ASSUME StoreType, NEW m \in Messages, NEW st \in {"Pending", "Scheduled"},
           PublishScript(m, st)
    PROVE  /\ lists' \in ListsType
           /\ status' \in [Messages -> Statuses]
           /\ attempts' \in [Messages -> Nat]
           /\ count' \in [Counters -> Int]
<1> DEFINE key == IF st = "Pending" THEN "pending" ELSE "scheduled"
<1>1. key \in Keys /\ "published" \in Keys /\ key \in Counters /\ "messages" \in Counters
  BY KeyFacts DEF Counters
<1>2. Add(Add(lists, key, m), "published", m) \in ListsType
  BY <1>1, AddContents DEF StoreType
<1>3. Incr(Incr(count, key), "messages") \in [Counters -> Int]
  BY <1>1, CounterType DEF StoreType
<1>4. QED
  BY <1>2, <1>3 DEF PublishScript, StoreType, Statuses

(* So does the script that acknowledges one. *)
LEMMA AcknowledgeScriptType ==
    ASSUME StoreType, NEW c \in Consumers, NEW m \in Messages, AcknowledgeScript(c, m)
    PROVE  StoreType'
<1>1. c \in Keys /\ "acknowledged" \in Keys /\ c # "acknowledged"
  BY KeyFacts
<1>2. Move(lists, c, "acknowledged", m) \in ListsType /\ Rem(lists, c, m) \in ListsType
  BY <1>1, MoveContents, RemContents DEF StoreType
<1>3. Incr(Decr(count, "processing"), "acknowledged") \in [Counters -> Int]
  BY CounterType DEF StoreType, Counters
<1>4. CASE lists[c][m] > 0
  BY <1>2, <1>3, <1>4 DEF AcknowledgeScript, StoreType, Statuses, Touched
<1>5. CASE ~(lists[c][m] > 0)
  BY <1>5 DEF AcknowledgeScript, StoreType, store
<1>6. QED
  BY <1>4, <1>5

(* So does the script that unacknowledges one. *)
LEMMA UnacknowledgeScriptType ==
    ASSUME StoreType, NEW call \in UnackCalls, UnacknowledgeScript(call)
    PROVE  StoreType'
<1> DEFINE c == call.owner
           m == call.msg
<1>1. /\ c \in Consumers /\ m \in Messages
      /\ c \in Keys /\ c # "deadLettered" /\ c # "requeued"
      /\ "deadLettered" \in Keys /\ "requeued" \in Keys
  BY KeyFacts DEF UnackCalls
<1>2. /\ Move(lists, c, "deadLettered", m) \in ListsType
      /\ Move(lists, c, "requeued", m) \in ListsType
      /\ Rem(lists, c, m) \in ListsType
  BY <1>1, MoveContents, RemContents DEF StoreType
<1>3. /\ Incr(Decr(count, "processing"), "deadLettered") \in [Counters -> Int]
      /\ Incr(Decr(count, "processing"), "requeued") \in [Counters -> Int]
  BY CounterType DEF StoreType, Counters
<1>4. CASE lists[c][m] > 0
  BY <1>1, <1>2, <1>3, <1>4 DEF UnacknowledgeScript, StoreType, Statuses, Touched
<1>5. CASE ~(lists[c][m] > 0)
  BY <1>5 DEF UnacknowledgeScript, StoreType, store
<1>6. QED
  BY <1>4, <1>5

(* Every step keeps every variable in its type. *)
LEMMA TypeStep == TypeOK /\ [Next]_vars => TypeOK'
<1> SUFFICES ASSUME TypeOK, [Next]_vars PROVE TypeOK'
  OBVIOUS
<1> USE DEF queue, members, loop, calls, history
<1>s. StoreType
  BY DEF TypeOK, StoreType, ListsType
<1>l. LoopType
  BY DEF TypeOK, LoopType
<1>0. CASE UNCHANGED vars
  BY <1>0 DEF TypeOK, vars, store
<1>1. ASSUME NEW m \in Messages, Publish(m) PROVE TypeOK'
  <2>1. PublishScript(m, IF m \in Scheduled THEN "Scheduled" ELSE "Pending")
    BY <1>1 DEF Publish
  <2>2. /\ lists' \in ListsType /\ status' \in [Messages -> Statuses]
        /\ attempts' \in [Messages -> Nat] /\ count' \in [Counters -> Int]
    BY <2>1, <1>s, PublishScriptType
  <2>3. QED
    BY <1>1, <2>2 DEF TypeOK, Publish, ListsType
<1>2. ASSUME NEW o \in Messages, NEW m \in Messages, RequeueMessage(o, m) PROVE TypeOK'
  <2>1. PublishScript(m, "Pending")
    BY <1>2 DEF RequeueMessage, RequeueMessageScript
  <2>2. /\ lists' \in ListsType /\ status' \in [Messages -> Statuses]
        /\ attempts' \in [Messages -> Nat] /\ count' \in [Counters -> Int]
    BY <2>1, <1>s, PublishScriptType
  <2>3. QED
    BY <1>2, <2>2 DEF TypeOK, RequeueMessage, RequeueMessageScript, ListsType
<1>3. ASSUME NEW m \in Messages, DeleteMessage(m) PROVE TypeOK'
  <2>1. CASE status[m] = "UnackDelaying"
    BY <1>3, <2>1 DEF TypeOK, DeleteMessage, DeleteMessageScript, store
  <2>2. CASE status[m] # "UnackDelaying"
    <3> DEFINE home == HomeOf[status[m]]
    <3>1. home \in Keys /\ home \in Counters /\ "published" \in Keys /\ "messages" \in Counters
      BY <1>3, KeyFacts, SMTT(30) DEF DeleteMessage, DeleteMessageScript, HomeOf, Counters
    <3>2. Rem(Rem(lists, home, m), "published", m) \in ListsType
      BY <3>1, <1>s, RemContents DEF StoreType
    <3>3. Decr(Decr(count, home), "messages") \in [Counters -> Int]
      BY <3>1, <1>s, CounterType DEF StoreType
    <3>4. QED
      BY <1>3, <2>2, <3>2, <3>3 DEF TypeOK, DeleteMessage, DeleteMessageScript,
         Statuses, ListsType
  <2>3. QED
    BY <2>1, <2>2
<1>4. ASSUME NEW m \in Messages, ExpireTTL(m) PROVE TypeOK'
  BY <1>4 DEF TypeOK, ExpireTTL, store
<1>5. ASSUME NEW st \in OperationalStates, SetQueueState(st) PROVE TypeOK'
  BY <1>5, SMTT(30) DEF TypeOK, SetQueueState, SetQueueStateScript, store
<1>6. ASSUME NEW c \in Consumers, RunHandler(c),
             consumer' \in [Consumers -> {"new", "up", "down", "crashed"}] PROVE TypeOK'
  BY <1>6 DEF TypeOK, RunHandler, SubscribeScript, store
<1>7. ASSUME NEW c \in Consumers, ConsumerStep(c) PROVE TypeOK'
  <2>1. CASE StartConsumer(c)
    BY <1>6, <2>1 DEF StartConsumer, TypeOK
  <2>2. CASE RestartHandler(c)
    BY <1>6, <2>2 DEF RestartHandler, TypeOK
  <2>3. CASE Beat(c)
    BY <2>3 DEF TypeOK, Beat, store
  <2>4. CASE HeartbeatExpires(c)
    BY <2>4 DEF TypeOK, HeartbeatExpires, store
  <2>5. CASE StopHandler(c)
    BY <2>5 DEF TypeOK, StopHandler, store, NoTarget
  <2>6. CASE ShutdownConsumer(c)
    BY <2>6 DEF TypeOK, ShutdownConsumer, store, NoTarget
  <2>7. CASE CloseHandler(c)
    BY <2>7 DEF TypeOK, CloseHandler, UnsubscribeScript, store
  <2>8. CASE LoopExit(c)
    BY <2>8 DEF TypeOK, LoopExit, store, NoEnvelope
  <2>9. CASE Crash(c)
    BY <2>9 DEF TypeOK, Crash, store, NoEnvelope, NoTarget
  <2>10. QED
    BY <1>7, <2>1, <2>2, <2>3, <2>4, <2>5, <2>6, <2>7, <2>8, <2>9 DEF ConsumerStep
<1>8. ASSUME NEW c \in Consumers, LoopStep(c) PROVE TypeOK'
  <2>1. ASSUME NEW m \in Messages, Pop(c, m) PROVE TypeOK'
    <3>1. Move(lists, "pending", c, m) \in ListsType
      BY <1>s, KeyFacts, MoveContents DEF StoreType
    <3>2. LoopType'
      <4>1. CASE /\ pc' = [pc EXCEPT ![c] = "popped"]
                 /\ envelope' = [envelope EXCEPT ![c] = [msg |-> m, attempts |-> 0]]
        BY <4>1, <1>l DEF LoopType
      <4>2. CASE UNCHANGED <<pc, envelope>>
        BY <4>2, <1>l DEF LoopType
      <4>3. QED
        BY <2>1, <4>1, <4>2 DEF Pop
    <3>3. QED
      BY <2>1, <3>1, <3>2 DEF TypeOK, LoopType, Pop, ListsType
  <2>2. CASE CheckoutRejected(c)
    BY <2>2, SMTT(30) DEF TypeOK, CheckoutRejected, store, NoEnvelope, NoTarget, UnackCall, Causes
  <2>3. CASE CheckoutMissed(c)
    BY <2>3 DEF TypeOK, CheckoutMissed, store, NoEnvelope
  <2>4. CASE Checkout(c)
    <3>1. envelope[c].msg \in Messages
      BY <2>4 DEF TypeOK, Checkout
    <3>2. Incr(Decr(count, "pending"), "processing") \in [Counters -> Int]
      BY <1>s, CounterType DEF StoreType, Counters
    <3>3. /\ status' \in [Messages -> Statuses]
          /\ attempts' \in [Messages -> Nat]
          /\ attempts'[envelope[c].msg] \in Nat
          /\ count' \in [Counters -> Int]
      BY <2>4, <3>1, <3>2, SMTT(30) DEF TypeOK, Checkout, CheckoutScript, Statuses
    <3>4. /\ LoopType'
          /\ unackCalls' \subseteq UnackCalls
          /\ timedOut' \in [Consumers -> BOOLEAN]
      <4> DEFINE m == envelope[c].msg
      <4>1. CASE /\ pc' = [pc EXCEPT ![c] = "handling"]
                 /\ envelope' = [envelope EXCEPT ![c] = [msg |-> m, attempts |-> attempts'[m]]]
                 /\ timedOut' = [timedOut EXCEPT ![c] = FALSE]
                 /\ UNCHANGED unackCalls
        BY <4>1, <3>1, <3>3, <1>l DEF LoopType, TypeOK, UnackCalls
      <4>2. CASE /\ pc' = [pc EXCEPT ![c] = "idle"]
                 /\ envelope' = [envelope EXCEPT ![c] = NoEnvelope]
                 /\ UNCHANGED timedOut
                 /\ unackCalls' \subseteq unackCalls \cup
                       {UnackCall(c, c, m, attempts'[m], "TTL_EXPIRED")}
        <5>1. LoopType'
          BY <4>2, <1>l DEF LoopType, NoEnvelope
        <5>2. UnackCall(c, c, m, attempts'[m], "TTL_EXPIRED") \in UnackCalls
          BY <3>1, <3>3 DEF UnackCall, UnackCalls, Causes
        <5>3. QED
          BY <4>2, <5>1, <5>2 DEF TypeOK, UnackCalls
      <4>3. QED
        BY <2>4, <4>1, <4>2 DEF Checkout
    <3>5. QED
      BY <2>4, <3>3, <3>4 DEF TypeOK, LoopType, Checkout, UnackCalls
  <2>5. CASE Timeout(c)
    BY <2>5, SMTT(30) DEF TypeOK, Timeout, store, UnackCall, Causes
  <2>6. CASE HandlerSucceeds(c)
    BY <2>6, SMTT(30) DEF TypeOK, HandlerSucceeds, store, NoEnvelope, UnackCall, AckCall,
       Causes, LateTimer
  <2>7. CASE HandlerFails(c)
    BY <2>7, SMTT(30) DEF TypeOK, HandlerFails, store, NoEnvelope, UnackCall, Causes, LateTimer
  <2>8. QED
    BY <1>8, <2>1, <2>2, <2>3, <2>4, <2>5, <2>6, <2>7 DEF LoopStep
<1>9. ASSUME NEW call \in ackCalls, Acknowledge(call) \/ AcknowledgeFails(call) PROVE TypeOK'
  <2>1. call.owner \in Consumers /\ call.msg \in Messages
    BY DEF TypeOK
  <2>2. StoreType'
    <3>1. CASE AcknowledgeScript(call.owner, call.msg)
      BY <3>1, <2>1, <1>s, AcknowledgeScriptType
    <3>2. CASE UNCHANGED store
      BY <3>2, <1>s DEF StoreType, store
    <3>3. QED
      BY <1>9, <3>1, <3>2 DEF Acknowledge, AcknowledgeFails
  <2>3. QED
    BY <1>9, <2>1, <2>2, SMTT(30) DEF TypeOK, StoreType, ListsType, Acknowledge, AcknowledgeFails,
       UnackCall, Causes
<1>10. ASSUME NEW call \in unackCalls, Unacknowledge(call) \/ UnacknowledgeFails(call) PROVE TypeOK'
  <2>1. call \in UnackCalls
    BY DEF TypeOK, UnackCalls
  <2>2. StoreType'
    <3>1. CASE UnacknowledgeScript(call)
      BY <3>1, <2>1, <1>s, UnacknowledgeScriptType
    <3>2. CASE UNCHANGED store
      BY <3>2, <1>s DEF StoreType, store
    <3>3. QED
      BY <1>10, <3>1, <3>2 DEF Unacknowledge, UnacknowledgeFails
  <2>3. QED
    BY <1>10, <2>2 DEF TypeOK, StoreType, ListsType, Unacknowledge, UnacknowledgeFails
<1>11. ASSUME NEW m \in Messages,
              RequeueImmediate(m) \/ RequeueDelayed(m) \/ PublishScheduled(m)
       PROVE  TypeOK'
  <2>1. /\ Move(lists, "requeued", "delayed", m) \in ListsType
        /\ Move(lists, "requeued", "pending", m) \in ListsType
        /\ Move(lists, "delayed", "pending", m) \in ListsType
        /\ Move(lists, "scheduled", "pending", m) \in ListsType
    BY <1>s, KeyFacts, MoveContents DEF StoreType
  <2>2. /\ Incr(Decr(count, "requeued"), "delayed") \in [Counters -> Int]
        /\ Incr(Decr(count, "requeued"), "pending") \in [Counters -> Int]
        /\ Incr(Decr(count, "delayed"), "pending") \in [Counters -> Int]
        /\ Incr(Decr(count, "scheduled"), "pending") \in [Counters -> Int]
    BY <1>s, CounterType DEF StoreType, Counters
  <2>3. CASE RequeueImmediate(m)
    BY <2>1, <2>2, <2>3 DEF TypeOK, ListsType, RequeueImmediate,
       RequeueImmediateScript, Statuses
  <2>4. CASE RequeueDelayed(m)
    BY <2>1, <2>2, <2>4 DEF TypeOK, ListsType, RequeueDelayed, RequeueDelayedScript,
       Statuses
  <2>5. CASE PublishScheduled(m)
    BY <2>1, <2>2, <2>5 DEF TypeOK, ListsType, PublishScheduled,
       PublishScheduledScript, Statuses
  <2>6. QED
    BY <1>11, <2>3, <2>4, <2>5
<1>12. ASSUME NEW w \in Consumers, NEW c \in Consumers, ReapDetect(w, c) PROVE TypeOK'
  BY <1>12 DEF TypeOK, ReapDetect, store
<1>13. ASSUME NEW w \in Consumers, ReapLoad(w) PROVE TypeOK'
  BY <1>13, SMTT(30) DEF TypeOK, ReapLoad, store, UnackCall, Causes
<1>14. ASSUME NEW w \in Consumers, ReapUnsubscribe(w) PROVE TypeOK'
  BY <1>14 DEF TypeOK, ReapUnsubscribe, UnsubscribeScript, store, NoTarget
<1>15. QED
  BY <1>0, <1>1, <1>2, <1>3, <1>4, <1>5, <1>7, <1>8, <1>9, <1>10, <1>11, <1>12, <1>13,
     <1>14
     DEF Next, UserStep, CallStep, WorkerStep

(* The initial state has the types. *)
LEMMA InitType == Init => TypeOK
BY SMTT(30) DEF Init, TypeOK, OperationalStates, Statuses, NoEnvelope, NoTarget

(* The variables always have their types, whatever the constants are. *)
THEOREM TypeCorrect == Spec => []TypeOK
BY InitType, TypeStep, PTL DEF Spec
---------------------------------------------------------------------------
(* Where messages are.  Ledger(L, S) is the inductive invariant behind
   SingleLocation and NothingLost, for lists L and statuses S: what the two
   say, and that a message that was not published yet is nowhere. *)

StatusType == [Messages -> Statuses]

Ledger(L, S) ==
    /\ \A k \in Places, m \in Messages : L[k][m] <= 1
    /\ \A k, l \in Places, m \in Messages : L[k][m] > 0 /\ L[l][m] > 0 => k = l
    /\ \A m \in Messages :
          /\ S[m] \notin {"New", "Deleted"} \cup Settled => \E k \in WorkPlaces : L[k][m] > 0
          /\ S[m] \in Settled => \A k \in WorkPlaces : ~(L[k][m] > 0)
          /\ S[m] = "New" => \A k \in Places : ~(L[k][m] > 0)

(* What the sets of places are made of. *)
LEMMA PlaceFacts ==
    /\ WorkPlaces \subseteq Places
    /\ Places \subseteq Keys
    /\ Places \ WorkPlaces = {"acknowledged", "deadLettered"}
    /\ {"pending", "requeued", "delayed", "scheduled"} \cup Consumers = WorkPlaces
BY ConstantsAssumption DEF Keys, Places, WorkPlaces, QueueLists, SortedSets

(* What publishing a new id does to the places of the queue. *)
LEMMA AddInLedger ==
    ASSUME NEW L \in ListsType, NEW S \in StatusType, Ledger(L, S),
           NEW m \in Messages, S[m] = "New", NEW k \in {"pending", "scheduled"}
    PROVE  \A j \in Places, n \in Messages :
               /\ n = m => L[j][n] = 0
               /\ Add(Add(L, k, m), "published", m)[j][n] = IF j = k /\ n = m THEN 1 ELSE L[j][n]
<1> DEFINE A == Add(L, k, m)
           B == Add(A, "published", m)
<1>k. k \in Keys /\ "published" \in Keys
  BY KeyFacts
<1>1. /\ A \in ListsType
      /\ \A j \in Keys, n \in Messages :
            A[j][n] = IF j = k /\ n = m THEN IF k \in SortedSets THEN 1 ELSE L[k][m] + 1
                                        ELSE L[j][n]
  BY <1>k, AddContents, SMTT(30)
<1> HIDE DEF A
<1>2. \A j \in Keys, n \in Messages :
            B[j][n] = IF j = "published" /\ n = m
                      THEN IF "published" \in SortedSets THEN 1 ELSE A["published"][m] + 1
                      ELSE A[j][n]
  BY <1>1, <1>k, AddContents, SMTT(30)
<1>3. \A j \in Places, n \in Messages : L[j][n] \in Nat /\ (n = m => ~(L[j][n] > 0))
  BY PlaceFacts, SMTT(30) DEF ListsType, Ledger
<1>4. k \in Places /\ L[k][m] = 0 /\ \A j \in Places : j \in Keys /\ j # "published"
  BY <1>3, PlaceFacts, KeyFacts, SMTT(30)
<1> HIDE DEF B
<1>5. \A j \in Places, n \in Messages :
            (n = m => L[j][n] = 0) /\ B[j][n] = IF j = k /\ n = m THEN 1 ELSE L[j][n]
  BY <1>1, <1>2, <1>3, <1>4, SMTT(30)
<1>6. QED
  BY <1>5 DEF A, B

(* Publishing a new id keeps the ledger. *)
LEMMA LedgerAdd ==
    ASSUME NEW L \in ListsType, NEW S \in StatusType, Ledger(L, S),
           NEW m \in Messages, S[m] = "New",
           NEW k \in {"pending", "scheduled"}, NEW st \in {"Pending", "Scheduled"}
    PROVE  Ledger(Add(Add(L, k, m), "published", m), [S EXCEPT ![m] = st])
<1> DEFINE B == Add(Add(L, k, m), "published", m)
<1>1. \A j \in Places, n \in Messages :
         /\ n = m => L[j][n] = 0
         /\ B[j][n] = IF j = k /\ n = m THEN 1 ELSE L[j][n]
  BY AddInLedger, SMTT(30)
<1>2. [S EXCEPT ![m] = st] = [n \in Messages |-> IF n = m THEN st ELSE S[n]]
  BY DEF StatusType
<1>3. k \in WorkPlaces /\ k \in Places
  BY PlaceFacts
<1> HIDE DEF B
<1>4. Ledger(B, [n \in Messages |-> IF n = m THEN st ELSE S[n]])
  BY <1>1, <1>3, PlaceFacts, SMTT(30) DEF Ledger, Settled
<1>5. QED
  BY <1>2, <1>4 DEF B

(* What a move does to the places of the queue: the id is then in one of them. *)
LEMMA MoveInLedger ==
    ASSUME NEW L \in ListsType, NEW S \in StatusType, Ledger(L, S),
           NEW m \in Messages, NEW k \in Places, NEW l \in Places, k # l, L[k][m] > 0
    PROVE  \A j \in Places, n \in Messages :
               Move(L, k, l, m)[j][n] = IF n = m THEN (IF j = l THEN 1 ELSE 0) ELSE L[j][n]
<1> DEFINE B == Move(L, k, l, m)
<1>1. \A j \in Places, n \in Messages : L[j][n] \in Nat
  BY PlaceFacts DEF ListsType
<1>2. L[k][m] = 1 /\ L[l][m] = 0 /\ \A j \in Places : j # k => L[j][m] = 0
  BY <1>1, SMTT(30) DEF Ledger
<1>3. \A j \in Keys, n \in Messages :
         B[j][n] = IF n = m /\ j = k THEN (IF L[k][m] > 0 THEN L[k][m] - 1 ELSE 0)
                   ELSE IF n = m /\ j = l THEN (IF l \in SortedSets THEN 1 ELSE L[l][m] + 1)
                   ELSE L[j][n]
  BY PlaceFacts, MoveContents, SMTT(30)
<1>4. QED
  BY <1>2, <1>3, PlaceFacts, SMTT(30)

(* Moving an id keeps the ledger, if its new status goes with the new place. *)
LEMMA LedgerMove ==
    ASSUME NEW L \in ListsType, NEW S \in StatusType, Ledger(L, S),
           NEW m \in Messages, NEW k \in Places, NEW l \in Places, k # l, L[k][m] > 0,
           NEW st, st # "New",
           st \in Settled => l \notin WorkPlaces,
           st \notin Settled => l \in WorkPlaces
    PROVE  Ledger(Move(L, k, l, m), [S EXCEPT ![m] = st])
<1> DEFINE B == Move(L, k, l, m)
<1>1. \A j \in Places, n \in Messages : L[j][n] \in Nat
  BY PlaceFacts DEF ListsType
<1>2. \A j \in Places, n \in Messages :
         B[j][n] = IF n = m THEN (IF j = l THEN 1 ELSE 0) ELSE L[j][n]
  BY MoveInLedger, SMTT(30)
<1>3. [S EXCEPT ![m] = st] = [n \in Messages |-> IF n = m THEN st ELSE S[n]]
  BY DEF StatusType
<1> HIDE DEF B
<1>4. Ledger(B, [n \in Messages |-> IF n = m THEN st ELSE S[n]])
  BY <1>1, <1>2, PlaceFacts, SMTT(30) DEF Ledger
<1>5. QED
  BY <1>3, <1>4 DEF B

(* What removing an id for good does to the places of the queue. *)
LEMMA RemInLedger ==
    ASSUME NEW L \in ListsType, NEW S \in StatusType, Ledger(L, S),
           NEW m \in Messages, NEW c \in Consumers, L[c][m] > 0
    PROVE  /\ Rem(L, c, m) \in ListsType
           /\ \A j \in Places, n \in Messages :
                 Rem(L, c, m)[j][n] = IF n = m THEN 0 ELSE L[j][n]
<1>1. c \in Places /\ c \in Keys
  BY PlaceFacts
<1>2. /\ Rem(L, c, m) \in ListsType
      /\ \A j \in Keys, n \in Messages :
            Rem(L, c, m)[j][n] = IF j = c /\ n = m
                                 THEN IF L[c][m] > 0 THEN L[c][m] - 1 ELSE 0
                                 ELSE L[j][n]
  BY <1>1, RemContents, SMTT(30)
<1>3. \A j \in Places, n \in Messages : j \in Keys /\ L[j][n] \in Nat
  BY PlaceFacts DEF ListsType
<1>4. L[c][m] = 1 /\ \A j \in Places : j # c => L[j][m] = 0
  BY <1>1, <1>3, SMTT(30) DEF Ledger
<1>5. QED
  BY <1>2, <1>3, <1>4, SMTT(30)

(* Taking an id out of a list for good keeps the ledger. *)
LEMMA LedgerDrop ==
    ASSUME NEW L \in ListsType, NEW S \in StatusType, Ledger(L, S),
           NEW m \in Messages, NEW B \in ListsType,
           \A j \in Places, n \in Messages : B[j][n] <= L[j][n] /\ (n # m => B[j][n] = L[j][n]),
           NEW st \in Settled \cup {"Deleted"},
           st \in Settled => \A j \in WorkPlaces : B[j][m] = 0
    PROVE  Ledger(B, [S EXCEPT ![m] = st])
<1>1. \A j \in Places, n \in Messages : L[j][n] \in Nat /\ B[j][n] \in Nat
  BY PlaceFacts, SMTT(30) DEF ListsType
<1>2. [S EXCEPT ![m] = st] = [n \in Messages |-> IF n = m THEN st ELSE S[n]]
  BY DEF StatusType
<1>3. Ledger(B, [n \in Messages |-> IF n = m THEN st ELSE S[n]])
  BY <1>1, PlaceFacts, SMTT(30) DEF Ledger, Settled
<1>4. QED
  BY <1>2, <1>3

(* A message found in a list the system works from is neither new nor settled. *)
LEMMA FoundIsUnsettled ==
    ASSUME NEW L \in ListsType, NEW S \in StatusType, Ledger(L, S),
           NEW m \in Messages, NEW k \in WorkPlaces, L[k][m] > 0
    PROVE  S[m] \notin Settled \cup {"New"}
BY PlaceFacts DEF Ledger

Final == \A m \in Messages : status[m] \in Settled => status'[m] \in {status[m], "Deleted"}

(* The ledger survives every step, and no step changes a settled status. *)
LEMMA LedgerStep ==
    ASSUME TypeOK, Ledger(lists, status), [Next]_vars
    PROVE  Ledger(lists', status') /\ Final
<1> DEFINE Goal == Ledger(lists', status') /\ Final
<1>t. lists \in ListsType /\ status \in StatusType
  BY DEF TypeOK, ListsType, StatusType
<1>u. ASSUME UNCHANGED <<lists, status>> PROVE Goal
  BY <1>u DEF Final
(* A move out of a list the system works from. *)
<1>m. ASSUME NEW m \in Messages, NEW k \in WorkPlaces, NEW l \in Places, k # l,
             lists[k][m] > 0, lists' = Move(lists, k, l, m),
             NEW st, status' = [status EXCEPT ![m] = st], st # "New",
             st \in Settled <=> l \notin WorkPlaces
      PROVE  Goal
  <2>1. Ledger(lists', status')
    BY <1>m, <1>t, LedgerMove, PlaceFacts
  <2>2. status[m] \notin Settled
    BY <1>m, <1>t, FoundIsUnsettled
  <2>3. Final
    BY <1>m, <1>t, <2>2 DEF Final, StatusType
  <2>4. QED
    BY <2>1, <2>3
(* An id leaves its processing list and is stored nowhere. *)
<1>r. ASSUME NEW m \in Messages, NEW c \in Consumers, lists[c][m] > 0,
             lists' = Rem(lists, c, m),
             NEW st \in Settled, status' = [status EXCEPT ![m] = st]
      PROVE  Goal
  <2>1. /\ lists' \in ListsType
        /\ \A j \in Places, n \in Messages : lists'[j][n] = IF n = m THEN 0 ELSE lists[j][n]
    BY <1>r, <1>t, RemInLedger, SMTT(30)
  <2>2. \A j \in Places, n \in Messages :
           lists'[j][n] <= lists[j][n] /\ (n # m => lists'[j][n] = lists[j][n])
    BY <1>t, <2>1, PlaceFacts, SMTT(30) DEF ListsType
  <2>3. \A j \in WorkPlaces : lists'[j][m] = 0
    BY <2>1, PlaceFacts
  <2>4. Ledger(lists', status')
    BY <1>r, <1>t, <2>1, <2>2, <2>3, LedgerDrop
  <2>5. status[m] \notin Settled
    BY <1>r, <1>t, FoundIsUnsettled, PlaceFacts
  <2>6. Final
    BY <1>r, <1>t, <2>5 DEF Final, StatusType
  <2>7. QED
    BY <2>4, <2>6
(* The script that publishes. *)
<1>p. ASSUME NEW m \in Messages, NEW st \in {"Pending", "Scheduled"}, status[m] = "New",
             PublishScript(m, st)
      PROVE  Goal
  <2>1. Ledger(lists', status')
    BY <1>p, <1>t, LedgerAdd DEF PublishScript
  <2>2. Final
    BY <1>p, <1>t DEF Final, StatusType, PublishScript, Settled
  <2>3. QED
    BY <2>1, <2>2
(* The script that acknowledges. *)
<1>a. ASSUME NEW m \in Messages, NEW c \in Consumers, AcknowledgeScript(c, m) PROVE Goal
  <2>1. c \in WorkPlaces /\ "acknowledged" \in Places \ WorkPlaces
    BY PlaceFacts
  <2>2. CASE ~(lists[c][m] > 0)
    BY <1>a, <1>u, <2>2 DEF AcknowledgeScript, store
  <2>3. CASE lists[c][m] > 0 /\ StoreAcknowledged
    BY <1>a, <1>m, <2>1, <2>3 DEF AcknowledgeScript, Settled
  <2>4. CASE lists[c][m] > 0 /\ ~StoreAcknowledged
    BY <1>a, <1>r, <2>4 DEF AcknowledgeScript, Settled
  <2>5. QED
    BY <2>2, <2>3, <2>4
(* The script that unacknowledges. *)
<1>n. ASSUME NEW call \in UnackCalls, UnacknowledgeScript(call) PROVE Goal
  <2> DEFINE c == call.owner
             m == call.msg
  <2>1. /\ c \in Consumers /\ m \in Messages /\ c \in WorkPlaces
        /\ "deadLettered" \in Places \ WorkPlaces
        /\ "requeued" \in WorkPlaces /\ "requeued" \in Places /\ c # "requeued"
    BY PlaceFacts, KeyFacts DEF UnackCalls
  <2> HIDE DEF c, m
  <2>2. CASE ~(lists[c][m] > 0)
    BY <1>n, <1>u, <2>2 DEF UnacknowledgeScript, store, c, m
  <2>3. CASE /\ lists[c][m] > 0
             /\ lists' = Move(lists, c, "requeued", m)
             /\ status' = [status EXCEPT ![m] = "UnackRequeuing"]
    BY <1>m, <2>1, <2>3 DEF Settled
  <2>4. CASE /\ lists[c][m] > 0
             /\ lists' = IF StoreDeadLettered THEN Move(lists, c, "deadLettered", m)
                                              ELSE Rem(lists, c, m)
             /\ status' = [status EXCEPT ![m] = "DeadLettered"]
    <3>1. CASE StoreDeadLettered
      BY <1>m, <2>1, <2>4, <3>1 DEF Settled
    <3>2. CASE ~StoreDeadLettered
      BY <1>r, <2>1, <2>4, <3>2 DEF Settled
    <3>3. QED
      BY <3>1, <3>2
  <2>5. QED
    BY <1>n, <2>2, <2>3, <2>4 DEF UnacknowledgeScript, c, m
<1> HIDE DEF Goal
<1> USE DEF store
<1>0. CASE UNCHANGED vars
  <2>1. UNCHANGED <<lists, status>>
    BY <1>0 DEF vars
  <2>2. QED
    BY <2>1, <1>u DEF Goal
<1>1. ASSUME NEW m \in Messages, Publish(m) PROVE Goal
  BY <1>1, <1>p DEF Publish
<1>2. ASSUME NEW o \in Messages, NEW m \in Messages, RequeueMessage(o, m) PROVE Goal
  BY <1>2, <1>p DEF RequeueMessage, RequeueMessageScript
<1>3. ASSUME NEW m \in Messages, DeleteMessage(m) PROVE Goal
  <2>1. CASE status[m] = "UnackDelaying"
    BY <1>3, <1>u, <2>1 DEF DeleteMessage, DeleteMessageScript
  <2>2. CASE status[m] # "UnackDelaying"
    <3> DEFINE home == HomeOf[status[m]]
               A == Rem(lists, home, m)
               B == Rem(A, "published", m)
    <3>1. home \in Keys /\ "published" \in Keys
      BY <1>3, KeyFacts, SMTT(30) DEF DeleteMessage, DeleteMessageScript, HomeOf
    <3> HIDE DEF home
    <3>2. /\ A \in ListsType
          /\ \A j \in Keys, n \in Messages :
                A[j][n] = IF j = home /\ n = m
                          THEN IF lists[home][m] > 0 THEN lists[home][m] - 1 ELSE 0
                          ELSE lists[j][n]
      BY <3>1, <1>t, RemContents, SMTT(30)
    <3> HIDE DEF A
    <3>3. /\ B \in ListsType
          /\ \A j \in Keys, n \in Messages :
                B[j][n] = IF j = "published" /\ n = m
                          THEN IF A["published"][m] > 0 THEN A["published"][m] - 1 ELSE 0
                          ELSE A[j][n]
      BY <3>1, <3>2, RemContents, SMTT(30)
    <3> HIDE DEF B
    <3>4. \A j \in Places, n \in Messages : j \in Keys /\ j # "published" /\ lists[j][n] \in Nat
      BY <1>t, PlaceFacts, KeyFacts DEF ListsType
    <3>5. \A j \in Places, n \in Messages :
             B[j][n] <= lists[j][n] /\ (n # m => B[j][n] = lists[j][n])
      BY <3>2, <3>3, <3>4, SMTT(30)
    <3>6. lists' = B /\ status' = [status EXCEPT ![m] = "Deleted"]
      BY <1>3, <2>2 DEF DeleteMessage, DeleteMessageScript, A, B, home
    <3>7. Ledger(lists', status')
      BY <1>t, <3>3, <3>5, <3>6, LedgerDrop DEF Settled
    <3>8. Final
      BY <1>t, <3>6 DEF Final, StatusType
    <3>9. QED
      BY <3>7, <3>8 DEF Goal
  <2>3. QED
    BY <2>1, <2>2
<1>4. ASSUME NEW c \in Consumers, NEW m \in Messages, Pop(c, m) PROVE Goal
  <2>1. /\ lists["pending"][m] > 0 /\ lists' = Move(lists, "pending", c, m)
        /\ status' = [status EXCEPT ![m] = status[m]]
    BY <1>4, <1>t DEF Pop, StatusType
  <2>2. "pending" \in WorkPlaces /\ c \in WorkPlaces /\ c \in Places /\ c # "pending"
    BY PlaceFacts, KeyFacts
  <2>3. status[m] \notin Settled \cup {"New"}
    BY <1>t, <2>1, <2>2, FoundIsUnsettled
  <2>4. QED
    BY <1>m, <2>1, <2>2, <2>3
<1>5. ASSUME NEW c \in Consumers, Checkout(c) PROVE Goal
  <2> DEFINE m == envelope[c].msg
  <2>1. /\ m \in Messages /\ status[m] = "Pending" /\ lists' = lists
        /\ status' = [status EXCEPT ![m] = "Processing"]
    BY <1>5 DEF TypeOK, Checkout, CheckoutScript
  <2> HIDE DEF m
  <2>2. status' = [n \in Messages |-> IF n = m THEN "Processing" ELSE status[n]]
    BY <1>t, <2>1 DEF StatusType
  <2>3. Ledger(lists', status')
    BY <2>1, <2>2 DEF Ledger, Settled
  <2>4. QED
    BY <2>1, <2>2, <2>3 DEF Goal, Final, Settled
<1>6. ASSUME NEW call \in ackCalls, Acknowledge(call) \/ AcknowledgeFails(call) PROVE Goal
  <2>1. call.owner \in Consumers /\ call.msg \in Messages
    BY DEF TypeOK
  <2>2. AcknowledgeScript(call.owner, call.msg) \/ UNCHANGED store
    BY <1>6 DEF Acknowledge, AcknowledgeFails
  <2>3. QED
    BY <1>a, <1>u, <2>1, <2>2
<1>7. ASSUME NEW call \in unackCalls, Unacknowledge(call) \/ UnacknowledgeFails(call) PROVE Goal
  <2>1. call \in UnackCalls
    BY DEF TypeOK, UnackCalls
  <2>2. UnacknowledgeScript(call) \/ UNCHANGED store
    BY <1>7 DEF Unacknowledge, UnacknowledgeFails
  <2>3. QED
    BY <1>n, <1>u, <2>1, <2>2
<1>8. ASSUME NEW m \in Messages,
             RequeueImmediate(m) \/ RequeueDelayed(m) \/ PublishScheduled(m)
      PROVE  Goal
  <2>1. {"requeued", "delayed", "scheduled", "pending"} \subseteq WorkPlaces \cap Places
    BY PlaceFacts
  <2>2. CASE RequeueImmediate(m)
    <3>1. CASE m \in RetryDelay
      BY <1>m, <2>1, <2>2, <3>1 DEF RequeueImmediate, RequeueImmediateScript, Settled
    <3>2. CASE m \notin RetryDelay
      BY <1>m, <2>1, <2>2, <3>2 DEF RequeueImmediate, RequeueImmediateScript, Settled
    <3>3. QED
      BY <3>1, <3>2
  <2>3. CASE RequeueDelayed(m)
    BY <1>m, <2>1, <2>3 DEF RequeueDelayed, RequeueDelayedScript, Settled
  <2>4. CASE PublishScheduled(m)
    BY <1>m, <2>1, <2>4 DEF PublishScheduled, PublishScheduledScript, Settled
  <2>5. QED
    BY <1>8, <2>2, <2>3, <2>4
<1>9. ASSUME \/ \E m \in Messages : ExpireTTL(m)
             \/ \E s \in OperationalStates : SetQueueState(s)
             \/ \E c \in Consumers : ConsumerStep(c)
             \/ \E c \in Consumers : \/ CheckoutRejected(c) \/ CheckoutMissed(c) \/ Timeout(c)
                                     \/ HandlerSucceeds(c) \/ HandlerFails(c)
             \/ \E w, c \in Consumers : ReapDetect(w, c)
             \/ \E w \in Consumers : ReapLoad(w) \/ ReapUnsubscribe(w)
      PROVE  Goal
  BY <1>9, <1>u DEF ExpireTTL, SetQueueState, SetQueueStateScript, ConsumerStep,
     StartConsumer, RestartHandler, RunHandler, SubscribeScript, Beat,
     HeartbeatExpires, StopHandler, ShutdownConsumer, CloseHandler, UnsubscribeScript,
     LoopExit, Crash, CheckoutRejected, CheckoutMissed, Timeout, HandlerSucceeds,
     HandlerFails, ReapDetect, ReapLoad, ReapUnsubscribe
<1>10. QED
  BY <1>0, <1>1, <1>2, <1>3, <1>4, <1>5, <1>6, <1>7, <1>8, <1>9
     DEF Next, UserStep, LoopStep, CallStep, WorkerStep, Goal
---------------------------------------------------------------------------
(* The ledger holds in every reachable state, with the types. *)
LEMMA LedgerHolds == Spec => [](TypeOK /\ Ledger(lists, status))
<1>1. Init => TypeOK /\ Ledger(lists, status)
  <2> SUFFICES ASSUME Init PROVE TypeOK /\ Ledger(lists, status)
    OBVIOUS
  <2>1. TypeOK
    BY InitType
  <2>2. lists = [k \in Keys |-> [m \in Messages |-> 0]] /\ status = [m \in Messages |-> "New"]
    BY DEF Init
  <2>3. Ledger(lists, status)
    BY <2>2, PlaceFacts, SMTT(30) DEF Ledger, Settled
  <2>4. QED
    BY <2>1, <2>3
<1>2. TypeOK /\ Ledger(lists, status) /\ [Next]_vars => (TypeOK /\ Ledger(lists, status))'
  BY TypeStep, LedgerStep DEF Ledger
<1>3. QED
  BY <1>1, <1>2, PTL DEF Spec

(* No reachable state has an id in two lists of the queue or twice in one. *)
THEOREM SingleLocationHolds == Spec => []SingleLocation
<1>1. TypeOK /\ Ledger(lists, status) => SingleLocation
  <2> SUFFICES ASSUME TypeOK, Ledger(lists, status) PROVE SingleLocation
    OBVIOUS
  <2>1. \A k \in Places, m \in Messages : lists[k][m] \in Nat
    BY PlaceFacts, SMTT(30) DEF TypeOK
  <2>2. QED
    BY <2>1 DEF Ledger, SingleLocation, Holds
<1>2. QED
  BY <1>1, LedgerHolds, PTL

(* A message is lost by no step: it is settled, deleted or in a list the system
   works from, and a settled message is in none of those. *)
THEOREM NothingLostHolds == Spec => []NothingLost
<1>1. TypeOK /\ Ledger(lists, status) => NothingLost
  <2> SUFFICES ASSUME TypeOK, Ledger(lists, status) PROVE NothingLost
    OBVIOUS
  <2>1. \A k \in WorkPlaces, m \in Messages : lists[k][m] \in Nat
    BY PlaceFacts, SMTT(30) DEF TypeOK
  <2>2. QED
    BY <2>1, PlaceFacts DEF Ledger, NothingLost, Holds, Exists
<1>2. QED
  BY <1>1, LedgerHolds, PTL

(* No late call changes the status of a message that was acknowledged or
   dead-lettered. *)
THEOREM SettledIsFinalHolds == Spec => SettledIsFinal
<1>1. TypeOK /\ Ledger(lists, status) /\ [Next]_vars => [Final]_vars
  BY LedgerStep
<1>2. [Final]_vars <=>
      [\A m \in Messages : status[m] \in Settled => status'[m] \in {status[m], "Deleted"}]_vars
  BY DEF Final
<1>3. QED
  BY <1>1, <1>2, LedgerHolds, PTL DEF Spec, SettledIsFinal

---------------------------------------------------------------------------
(***************************************************************************)
(* Why a message is settled: an acknowledged message was handled with      *)
(* success, a dead-lettered one had used up its attempts, was expired or   *)
(* was periodic.                                                           *)
(***************************************************************************)

(* Only handled messages are acknowledged: every acknowledgement under way is for
   a message whose handler function returned nil. *)

AckOrigin ==
    /\ AcknowledgedOnlyIfHandled
    /\ \A call \in ackCalls : call.msg \in succeeded

(* It survives every step. *)
LEMMA AckOriginStep ==
    ASSUME TypeOK, AckOrigin, [Next]_vars
    PROVE  AckOrigin'
<1> USE DEF AckOrigin, AcknowledgedOnlyIfHandled, store
(* A step that acknowledges nothing and makes no call. *)
<1>s. ASSUME \A m \in Messages : status'[m] = "Acknowledged" => status[m] = "Acknowledged",
             succeeded \subseteq succeeded', ackCalls' \subseteq ackCalls
      PROVE  AckOrigin'
  BY <1>s
<1>0. CASE UNCHANGED vars
  BY <1>0 DEF vars, calls, history
<1>1. ASSUME NEW m \in Messages, NEW st \in {"Pending", "Scheduled"},
             PublishScript(m, st), UNCHANGED <<calls, history>>
      PROVE  AckOrigin'
  BY <1>1, <1>s DEF PublishScript, calls, history, TypeOK
<1>2. ASSUME NEW m \in Messages, Publish(m) PROVE AckOrigin'
  BY <1>1, <1>2 DEF Publish
<1>3. ASSUME NEW o \in Messages, NEW m \in Messages, RequeueMessage(o, m) PROVE AckOrigin'
  BY <1>1, <1>3 DEF RequeueMessage, RequeueMessageScript
<1>4. ASSUME NEW m \in Messages, DeleteMessage(m) PROVE AckOrigin'
  BY <1>4, <1>s DEF DeleteMessage, DeleteMessageScript, calls, history, TypeOK
<1>5. ASSUME NEW c \in Consumers, Checkout(c) PROVE AckOrigin'
  BY <1>5, <1>s DEF Checkout, CheckoutScript, history, TypeOK
<1>6. ASSUME NEW c \in Consumers, HandlerSucceeds(c) PROVE AckOrigin'
  <2>1. /\ status' = status /\ succeeded' = succeeded \cup {envelope[c].msg}
        /\ \/ ackCalls' = ackCalls
           \/ ackCalls' = ackCalls \cup {[owner |-> c, msg |-> envelope[c].msg]}
    BY <1>6 DEF HandlerSucceeds, AckCall, calls
  <2>2. QED
    BY <2>1, SMTT(30)
<1>7. ASSUME NEW call \in ackCalls, Acknowledge(call) \/ AcknowledgeFails(call) PROVE AckOrigin'
  <2>1. call.msg \in succeeded /\ call.msg \in Messages
    BY DEF TypeOK
  <2>2. /\ ackCalls' \subseteq ackCalls /\ succeeded' = succeeded
        /\ AcknowledgeScript(call.owner, call.msg) \/ status' = status
    BY <1>7 DEF Acknowledge, AcknowledgeFails, history
  <2>3. \A m \in Messages : status'[m] = "Acknowledged" => status[m] = "Acknowledged" \/ m = call.msg
    BY <2>1, <2>2 DEF AcknowledgeScript, TypeOK
  <2>4. QED
    BY <2>1, <2>2, <2>3
<1>8. ASSUME NEW call \in unackCalls, Unacknowledge(call) \/ UnacknowledgeFails(call) PROVE AckOrigin'
  <2>1. call.msg \in Messages
    BY DEF TypeOK
  <2>2. ackCalls' = ackCalls /\ succeeded' = succeeded
    BY <1>8 DEF Unacknowledge, UnacknowledgeFails, history
  <2>3. \A m \in Messages : status'[m] = "Acknowledged" => status[m] = "Acknowledged"
    BY <1>8, <2>1 DEF Unacknowledge, UnacknowledgeFails, UnacknowledgeScript, TypeOK
  <2>4. QED
    BY <2>2, <2>3, <1>s
<1>9. ASSUME NEW m \in Messages,
             RequeueImmediate(m) \/ RequeueDelayed(m) \/ PublishScheduled(m)
      PROVE  AckOrigin'
  BY <1>9, <1>s DEF RequeueImmediate, RequeueImmediateScript, RequeueDelayed,
     RequeueDelayedScript, PublishScheduled, PublishScheduledScript, calls, history,
     TypeOK
<1>10. ASSUME \/ \E m \in Messages : ExpireTTL(m)
              \/ \E s \in OperationalStates : SetQueueState(s)
              \/ \E c \in Consumers : ConsumerStep(c)
              \/ \E c \in Consumers, m \in Messages : Pop(c, m)
              \/ \E c \in Consumers : \/ CheckoutRejected(c) \/ CheckoutMissed(c) \/ Timeout(c)
                                      \/ HandlerFails(c)
              \/ \E w, c \in Consumers : ReapDetect(w, c)
              \/ \E w \in Consumers : ReapLoad(w) \/ ReapUnsubscribe(w)
       PROVE  AckOrigin'
  <2>1. UNCHANGED <<status, succeeded>> /\ ackCalls' \subseteq ackCalls
    BY <1>10 DEF ExpireTTL, SetQueueState, SetQueueStateScript, ConsumerStep,
       StartConsumer, RestartHandler, RunHandler, SubscribeScript, Beat,
       HeartbeatExpires, StopHandler, ShutdownConsumer, CloseHandler,
       UnsubscribeScript, LoopExit, Crash, Pop, CheckoutRejected, CheckoutMissed,
       Timeout, HandlerFails, ReapDetect, ReapLoad, ReapUnsubscribe, calls, history
  <2>2. QED
    BY <2>1, <1>s
<1>11. QED
  BY <1>0, <1>2, <1>3, <1>4, <1>5, <1>6, <1>7, <1>8, <1>9, <1>10
     DEF Next, UserStep, LoopStep, CallStep, WorkerStep

(* A message recorded as acknowledged was handled with success at least once. *)
THEOREM AcknowledgedOnlyIfHandledHolds == Spec => []AcknowledgedOnlyIfHandled
<1>1. Init => AckOrigin
  BY DEF Init, AckOrigin, AcknowledgedOnlyIfHandled
<1>2. TypeOK /\ AckOrigin /\ [Next]_vars => AckOrigin'
  BY AckOriginStep
<1>3. AckOrigin => AcknowledgedOnlyIfHandled
  BY DEF AckOrigin
<1>4. QED
  BY <1>1, <1>2, <1>3, TypeCorrect, PTL DEF Spec
---------------------------------------------------------------------------
(* Dead-lettering has a cause: the attempts in an unacknowledgement, or in the
   envelope a handler function works on, are never more than the message has by
   now, and attempts only grow. *)

CausesKnown ==
    /\ DeadLetteredForCause
    /\ \A m \in Messages : status[m] = "New" => attempts[m] = 0
    /\ \A call \in unackCalls :
          /\ call.attempts <= attempts[call.msg]
          /\ call.cause = "TTL_EXPIRED" => call.msg \in expired
    /\ \A c \in Consumers :
          pc[c] = "handling" => envelope[c].attempts <= attempts[envelope[c].msg]

(* What a step leaves true when it dead-letters nothing: old calls and envelopes
   stay within the attempts, so only the new ones have to be looked at. *)
LEMMA CausesKept ==
    ASSUME TypeOK, TypeOK', CausesKnown,
           \A m \in Messages : attempts[m] <= attempts'[m],
           expired \subseteq expired',
           \A m \in Messages : status'[m] = "DeadLettered" =>
               \/ status[m] = "DeadLettered"
               \/ m \in expired \/ m \in Periodic \/ attempts[m] >= RetryThreshold[m],
           \A m \in Messages : status'[m] = "New" => status[m] = "New" /\ attempts'[m] = attempts[m],
           \A call \in unackCalls' \ unackCalls :
               /\ call.attempts <= attempts'[call.msg]
               /\ call.cause = "TTL_EXPIRED" => call.msg \in expired',
           \A c \in Consumers : pc'[c] = "handling" =>
               \/ pc[c] = "handling" /\ envelope'[c] = envelope[c]
               \/ envelope'[c].attempts <= attempts'[envelope'[c].msg]
    PROVE  CausesKnown'
<1>n. /\ attempts \in [Messages -> Nat] /\ attempts' \in [Messages -> Nat]
      /\ RetryThreshold \in [Messages -> Nat]
  BY ConstantsAssumption DEF TypeOK
<1>1. DeadLetteredForCause'
  BY <1>n, SMTT(30) DEF CausesKnown, DeadLetteredForCause
<1>2. (\A m \in Messages : status[m] = "New" => attempts[m] = 0)'
  BY DEF CausesKnown
<1>3. ASSUME NEW call \in unackCalls'
      PROVE  /\ call.attempts <= attempts'[call.msg]
             /\ call.cause = "TTL_EXPIRED" => call.msg \in expired'
  <2>1. call.attempts \in Nat /\ call.msg \in Messages
    BY <1>3, SMTT(30) DEF TypeOK
  <2>2. CASE call \in unackCalls
    BY <1>n, <2>1, <2>2, SMTT(30) DEF CausesKnown
  <2>3. QED
    BY <2>2
<1>4. ASSUME NEW c \in Consumers, pc'[c] = "handling"
      PROVE  envelope'[c].attempts <= attempts'[envelope'[c].msg]
  <2>1. envelope'[c].attempts \in Nat /\ envelope'[c].msg \in Messages
    BY <1>4 DEF TypeOK
  <2>2. CASE pc[c] = "handling" /\ envelope'[c] = envelope[c]
    BY <1>n, <2>1, <2>2, SMTT(30) DEF CausesKnown
  <2>3. QED
    BY <1>4, <2>2
<1>5. QED
  BY <1>1, <1>2, <1>3, <1>4 DEF CausesKnown

(* Outside Checkout no handler function starts, and one that runs keeps its
   envelope. *)
LEMMA OnlyCheckoutHandles ==
    ASSUME TypeOK, NEW c \in Consumers,
           ConsumerStep(c) \/ CheckoutMissed(c) \/ \E m \in Messages : Pop(c, m)
    PROVE  \A d \in Consumers :
               pc'[d] = "handling" => pc[d] = "handling" /\ envelope'[d] = envelope[d]
<1>1. pc \in [Consumers -> {"off", "idle", "popped", "handling"}] /\ DOMAIN envelope = Consumers
  BY DEF TypeOK
<1>2. CASE StartConsumer(c) \/ RestartHandler(c)
  BY <1>1, <1>2 DEF StartConsumer, RestartHandler, RunHandler, SubscribeScript
<1>3. CASE \/ Beat(c) \/ HeartbeatExpires(c) \/ StopHandler(c) \/ ShutdownConsumer(c)
           \/ CloseHandler(c)
  BY <1>3 DEF Beat, HeartbeatExpires, StopHandler, ShutdownConsumer, CloseHandler,
     UnsubscribeScript, loop
<1>4. CASE LoopExit(c) \/ Crash(c) \/ CheckoutMissed(c)
  BY <1>1, <1>4 DEF LoopExit, Crash, CheckoutMissed
<1>5. CASE \E m \in Messages : Pop(c, m)
  BY <1>1, <1>5 DEF Pop
<1>6. QED
  BY <1>2, <1>3, <1>4, <1>5 DEF ConsumerStep

(* The causes stay known in every step. *)
LEMMA CausesKnownStep ==
    ASSUME TypeOK, TypeOK', CausesKnown, [Next]_vars
    PROVE  CausesKnown'
<1> USE DEF store
<1>a. /\ attempts \in [Messages -> Nat] /\ status \in [Messages -> Statuses]
      /\ \A m \in Messages : attempts[m] <= attempts[m]
      /\ \A m \in Messages : status[m] = "New" => attempts[m] = 0
  BY SMTT(30) DEF TypeOK, CausesKnown
(* A step of the loop, the calls and the reaper that writes no message. *)
<1>s. ASSUME UNCHANGED <<status, attempts, expired>>,
             \A call \in unackCalls' \ unackCalls :
                 call.attempts <= attempts[call.msg] /\ call.cause # "TTL_EXPIRED",
             \A c \in Consumers : pc'[c] = "handling" =>
                 pc[c] = "handling" /\ envelope'[c] = envelope[c]
      PROVE  CausesKnown'
  BY <1>a, <1>s, CausesKept
(* A step that moves a message and makes no call. *)
<1>m. ASSUME NEW m \in Messages, NEW st \in Statuses, st # "New",
             status' = [status EXCEPT ![m] = st], UNCHANGED <<attempts, expired, pc, envelope>>,
             unackCalls' \subseteq unackCalls,
             st = "DeadLettered" =>
                 m \in expired \/ m \in Periodic \/ attempts[m] >= RetryThreshold[m]
      PROVE  CausesKnown'
  <2>1. \A n \in Messages : status'[n] = IF n = m THEN st ELSE status[n]
    BY <1>a, <1>m
  <2>2. QED
    BY <1>a, <1>m, <2>1, CausesKept
<1>0. CASE UNCHANGED vars
  BY <1>0, <1>s DEF vars, calls, loop
<1>p. ASSUME NEW m \in Messages, NEW st \in {"Pending", "Scheduled"}, status[m] = "New",
             PublishScript(m, st), UNCHANGED <<loop, calls, expired>>
      PROVE  CausesKnown'
  <2>1. attempts' = attempts
    BY <1>a, <1>p DEF PublishScript
  <2>2. QED
    BY <1>m, <1>p, <2>1 DEF PublishScript, loop, calls, Statuses
<1>1. ASSUME NEW m \in Messages, Publish(m) PROVE CausesKnown'
  BY <1>1, <1>p DEF Publish
<1>2. ASSUME NEW o \in Messages, NEW m \in Messages, RequeueMessage(o, m) PROVE CausesKnown'
  BY <1>2, <1>p DEF RequeueMessage, RequeueMessageScript
<1>3. ASSUME NEW m \in Messages, DeleteMessage(m) PROVE CausesKnown'
  <2>1. CASE status[m] = "UnackDelaying"
    BY <1>3, <1>s, <2>1 DEF DeleteMessage, DeleteMessageScript, loop, calls
  <2>2. CASE status[m] # "UnackDelaying"
    BY <1>3, <1>m, <2>2 DEF DeleteMessage, DeleteMessageScript, loop, calls, Statuses
  <2>3. QED
    BY <2>1, <2>2
<1>4. ASSUME NEW m \in Messages, ExpireTTL(m) PROVE CausesKnown'
  BY <1>4, <1>a, CausesKept DEF ExpireTTL, loop, calls
<1>5. ASSUME NEW c \in Consumers, Checkout(c) PROVE CausesKnown'
  <2> DEFINE m == envelope[c].msg
  <2>1. /\ m \in Messages /\ status[m] = "Pending"
        /\ status' = [status EXCEPT ![m] = "Processing"]
        /\ attempts' = [attempts EXCEPT ![m] = @ + 1]
        /\ expired' = expired
    BY <1>5 DEF Checkout, CheckoutScript, TypeOK
  <2>2. /\ \A call \in unackCalls' \ unackCalls :
               call.attempts = attempts'[m] /\ call.msg = m /\ m \in expired
        /\ \A d \in Consumers : pc'[d] = "handling" =>
               \/ pc[d] = "handling" /\ envelope'[d] = envelope[d]
               \/ envelope'[d] = [msg |-> m, attempts |-> attempts'[m]]
    <3>1. CASE /\ pc' = [pc EXCEPT ![c] = "handling"]
               /\ envelope' = [envelope EXCEPT ![c] = [msg |-> m, attempts |-> attempts'[m]]]
               /\ UNCHANGED unackCalls
      BY <3>1, SMTT(30) DEF TypeOK
    <3>2. CASE /\ m \in expired
               /\ pc' = [pc EXCEPT ![c] = "idle"]
               /\ envelope' = [envelope EXCEPT ![c] = NoEnvelope]
               /\ unackCalls' = unackCalls \cup {UnackCall(c, c, m, attempts'[m], "TTL_EXPIRED")}
      BY <3>2, SMTT(30) DEF TypeOK, UnackCall
    <3>3. CASE /\ pc' = [pc EXCEPT ![c] = "idle"]
               /\ envelope' = [envelope EXCEPT ![c] = NoEnvelope]
               /\ UNCHANGED unackCalls
      BY <3>3, SMTT(30) DEF TypeOK
    <3>4. QED
      BY <1>5, <3>1, <3>2, <3>3 DEF Checkout
  <2> HIDE DEF m
  <2>3. /\ \A n \in Messages : attempts'[n] = IF n = m THEN attempts[n] + 1 ELSE attempts[n]
        /\ \A n \in Messages : status'[n] = IF n = m THEN "Processing" ELSE status[n]
    BY <1>a, <2>1
  <2>4. /\ \A n \in Messages : attempts[n] <= attempts'[n]
        /\ attempts'[m] <= attempts'[m]
    BY <1>a, <2>1, <2>3, SMTT(30)
  <2>5. QED
    BY <2>1, <2>2, <2>3, <2>4, CausesKept, SMTT(30)
<1>6. ASSUME NEW c \in Consumers, Timeout(c) \/ HandlerFails(c) \/ HandlerSucceeds(c)
      PROVE  CausesKnown'
  <2>1. /\ pc[c] = "handling" /\ UNCHANGED <<status, attempts, expired>>
        /\ envelope[c].attempts <= attempts[envelope[c].msg]
    BY <1>6 DEF Timeout, HandlerFails, HandlerSucceeds, CausesKnown
  <2>2. \A call \in unackCalls' \ unackCalls :
           /\ call.attempts = envelope[c].attempts /\ call.msg = envelope[c].msg
           /\ call.cause \in {"TIMEOUT", "UNACKNOWLEDGED"}
    <3>1. CASE Timeout(c)
      BY <3>1, SMTT(30) DEF Timeout, UnackCall
    <3>2. CASE HandlerFails(c)
      BY <3>2, SMTT(30) DEF HandlerFails, LateTimer, UnackCall
    <3>3. CASE HandlerSucceeds(c)
      BY <3>3, SMTT(30) DEF HandlerSucceeds, LateTimer, UnackCall, calls
    <3>4. QED
      BY <1>6, <3>1, <3>2, <3>3
  <2>3. \A d \in Consumers : pc'[d] = "handling" => pc[d] = "handling" /\ envelope'[d] = envelope[d]
    BY <1>6, SMTT(30) DEF Timeout, HandlerFails, HandlerSucceeds, TypeOK
  <2>4. QED
    BY <2>1, <2>2, <2>3, <1>s
<1>7. ASSUME NEW call \in ackCalls, Acknowledge(call) PROVE CausesKnown'
  <2>1. call.msg \in Messages
    BY DEF TypeOK
  <2>2. CASE UNCHANGED <<status, attempts>>
    BY <1>7, <1>s, <2>2 DEF Acknowledge, loop
  <2>3. CASE status' = [status EXCEPT ![call.msg] = "Acknowledged"] /\ UNCHANGED attempts
    BY <1>7, <1>m, <2>1, <2>3 DEF Acknowledge, loop, Statuses
  <2>4. QED
    BY <1>7, <2>2, <2>3 DEF Acknowledge, AcknowledgeScript
<1>8. ASSUME NEW call \in ackCalls, AcknowledgeFails(call) PROVE CausesKnown'
  <2>1. call.msg \in Messages
    BY DEF TypeOK
  <2>2. /\ UNCHANGED <<attempts, expired, pc, envelope>>
        /\ \/ UNCHANGED status
           \/ status' = [status EXCEPT ![call.msg] = "Acknowledged"]
    BY <1>8 DEF AcknowledgeFails, AcknowledgeScript, loop
  <2>3. \A u \in unackCalls' \ unackCalls :
           u.attempts = attempts[call.msg] /\ u.msg = call.msg /\ u.cause = "ACK_FAILED"
    BY <1>8, SMTT(30) DEF AcknowledgeFails, UnackCall
  <2>4. \A n \in Messages : status'[n] = status[n] \/ status'[n] = "Acknowledged"
    BY <1>a, <2>1, <2>2
  <2>5. QED
    BY <1>a, <2>1, <2>2, <2>3, <2>4, CausesKept
<1>9. ASSUME NEW call \in unackCalls, Unacknowledge(call) PROVE CausesKnown'
  <2>1. /\ call.msg \in Messages /\ call.attempts \in Nat
        /\ call.attempts <= attempts[call.msg]
        /\ call.cause = "TTL_EXPIRED" => call.msg \in expired
        /\ RetryThreshold[call.msg] \in Nat
    BY ConstantsAssumption DEF TypeOK, CausesKnown
  <2>2. unackCalls' \subseteq unackCalls /\ UNCHANGED <<attempts, expired, pc, envelope>>
    BY <1>9 DEF Unacknowledge, UnacknowledgeScript, loop
  <2>3. CASE UNCHANGED status
    BY <1>s, <2>2, <2>3
  <2>4. CASE status' = [status EXCEPT ![call.msg] = "UnackRequeuing"]
    BY <1>m, <2>1, <2>2, <2>4 DEF Statuses
  <2>5. CASE /\ \E late \in {FALSE, (call.msg \in expired)} :
                    ResolveUnackAction(call, late) = "DEAD_LETTER"
             /\ status' = [status EXCEPT ![call.msg] = "DeadLettered"]
    <3>1. \/ call.msg \in expired \/ call.msg \in Periodic
          \/ attempts[call.msg] >= RetryThreshold[call.msg]
      <4>1. PICK late \in {FALSE, (call.msg \in expired)} :
                ResolveUnackAction(call, late) = "DEAD_LETTER"
        BY <2>5
      <4>2. late => call.msg \in expired
        BY <4>1
      <4>3. \/ call.cause = "TTL_EXPIRED" \/ late
            \/ call.msg \in Periodic \/ call.attempts >= RetryThreshold[call.msg]
        BY <4>1 DEF ResolveUnackAction
      <4>4. QED
        BY <1>a, <2>1, <4>2, <4>3, SMTT(30)
    <3>2. QED
      BY <1>m, <2>1, <2>2, <2>5, <3>1 DEF Statuses
  <2>6. QED
    BY <1>9, <2>3, <2>4, <2>5 DEF Unacknowledge, UnacknowledgeScript
<1>10. ASSUME NEW call \in unackCalls, UnacknowledgeFails(call) PROVE CausesKnown'
  BY <1>10, <1>s DEF UnacknowledgeFails, loop
<1>11. ASSUME NEW m \in Messages,
              RequeueImmediate(m) \/ RequeueDelayed(m) \/ PublishScheduled(m)
       PROVE  CausesKnown'
  <2>1. /\ UNCHANGED <<attempts, expired, pc, envelope, unackCalls>>
        /\ \E st \in {"UnackDelaying", "Pending"} : status' = [status EXCEPT ![m] = st]
    BY <1>11 DEF RequeueImmediate, RequeueImmediateScript, RequeueDelayed,
       RequeueDelayedScript, PublishScheduled, PublishScheduledScript, loop, calls
  <2>2. QED
    BY <1>m, <2>1 DEF Statuses
<1>12. ASSUME NEW w \in Consumers, ReapLoad(w) PROVE CausesKnown'
  <2>1. \A call \in unackCalls' \ unackCalls :
           /\ call.msg \in Messages /\ call.attempts = attempts[call.msg]
           /\ call.cause = "OFFLINE_CONSUMER"
    BY <1>12, SMTT(30) DEF ReapLoad, UnackCall
  <2>2. QED
    BY <1>12, <1>a, <1>s, <2>1 DEF ReapLoad, loop
<1>13. ASSUME NEW c \in Consumers, CheckoutRejected(c) PROVE CausesKnown'
  <2>1. envelope[c].msg \in Messages
    BY <1>13 DEF CheckoutRejected, TypeOK
  <2>2. \A call \in unackCalls' \ unackCalls :
           call.msg = envelope[c].msg /\ call.attempts = 0 /\ call.cause = "QUEUE_STATE"
    BY <1>13, SMTT(30) DEF CheckoutRejected, UnackCall
  <2>3. /\ UNCHANGED <<status, attempts, expired>>
        /\ \A d \in Consumers : pc'[d] = "handling" => pc[d] = "handling" /\ envelope'[d] = envelope[d]
    BY <1>13, SMTT(30) DEF CheckoutRejected, TypeOK
  <2>4. QED
    BY <1>a, <1>s, <2>1, <2>2, <2>3, SMTT(30)
<1>14. ASSUME NEW c \in Consumers,
              \/ ConsumerStep(c) \/ CheckoutMissed(c) \/ \E m \in Messages : Pop(c, m)
       PROVE  CausesKnown'
  <2>1. UNCHANGED <<status, attempts, expired>> /\ unackCalls' \subseteq unackCalls
    BY <1>14 DEF ConsumerStep, StartConsumer, RestartHandler, RunHandler,
       SubscribeScript, Beat, HeartbeatExpires, StopHandler, ShutdownConsumer,
       CloseHandler, UnsubscribeScript, LoopExit, Crash, CheckoutMissed, Pop, calls
  <2>2. \A d \in Consumers : pc'[d] = "handling" => pc[d] = "handling" /\ envelope'[d] = envelope[d]
    BY <1>14, OnlyCheckoutHandles
  <2>3. QED
    BY <1>s, <2>1, <2>2
<1>15. ASSUME \/ \E s \in OperationalStates : SetQueueState(s)
              \/ \E w, c \in Consumers : ReapDetect(w, c)
              \/ \E w \in Consumers : ReapUnsubscribe(w)
       PROVE  CausesKnown'
  BY <1>15, <1>s DEF SetQueueState, SetQueueStateScript, ReapDetect, ReapUnsubscribe,
     UnsubscribeScript, loop, calls
<1>16. QED
  BY <1>0, <1>1, <1>2, <1>3, <1>4, <1>5, <1>6, <1>7, <1>8, <1>9, <1>10, <1>11, <1>12,
     <1>13, <1>14, <1>15 DEF Next, UserStep, LoopStep, CallStep, WorkerStep

(* No stale or duplicate unacknowledgement dead-letters a message that still has
   attempts left and is neither expired nor periodic. *)
THEOREM DeadLetteredForCauseHolds == Spec => []DeadLetteredForCause
<1>1. Init => CausesKnown
  BY SMTT(30) DEF Init, CausesKnown, DeadLetteredForCause
<1>2. TypeOK /\ TypeOK' /\ CausesKnown /\ [Next]_vars => CausesKnown'
  BY CausesKnownStep
<1>3. CausesKnown => DeadLetteredForCause
  BY DEF CausesKnown
<1>4. QED
  BY <1>1, <1>2, <1>3, TypeCorrect, PTL DEF Spec

---------------------------------------------------------------------------
(***************************************************************************)
(* The queue implements Delivery, for any messages and consumers: every    *)
(* step of MessageLifecycle, seen through Phases, is a step of Delivery or *)
(* leaves the messages as they are.                                        *)
(***************************************************************************)

(* A hash that came back after its deletion never gets as far as a delivery, and
   what a handler function works on was delivered. *)
Deliveries ==
    /\ \A m \in ghost : status[m] \in {"Acknowledged", "DeadLettered", "UnackRequeuing"}
    /\ \A c \in Consumers : pc[c] = "handling" => attempts[envelope[c].msg] > 0

AbstractStep == [Abstract!Next]_(Abstract!vars)

(* What the abstract step has to look like when one message changes its phase. *)
LEMMA OnePhase ==
    ASSUME NEW m \in Messages, NEW p, PhaseOf(m)' = p,
           \A n \in Messages \ {m} : PhaseOf(n)' = PhaseOf(n)
    PROVE  Phases' = [Phases EXCEPT ![m] = p] /\ Phases[m] = PhaseOf(m)
BY DEF Phases

(* A message whose status and hash are left alone keeps its phase. *)
LEMMA SamePhase ==
    ASSUME NEW m, status'[m] = status[m], m \in ghost' <=> m \in ghost
    PROVE  PhaseOf(m)' = PhaseOf(m)
BY DEF PhaseOf

(* Steps that leave statuses, ghosts and attempts alone are no abstract steps. *)
LEMMA Invisible ==
    ASSUME UNCHANGED <<status, ghost, attempts, succeeded, expired>>
    PROVE  AbstractStep
<1>1. \A m \in Messages : PhaseOf(m)' = PhaseOf(m)
  BY DEF PhaseOf
<1>2. Phases' = Phases
  BY <1>1 DEF Phases
<1>3. QED
  BY <1>2 DEF AbstractStep, Abstract!vars

(* A step that changes the status of one message is the abstract step that makes
   the same change. *)
LEMMA Visible ==
    ASSUME NEW m \in Messages, NEW p, PhaseOf(m)' = p,
           \A n \in Messages \ {m} : status'[n] = status[n] /\ (n \in ghost' <=> n \in ghost),
           UNCHANGED <<attempts, succeeded, expired>>,
           \/ PhaseOf(m) = p
           \/ PhaseOf(m) \in {"new", "delivered"} /\ p = "waiting"
           \/ /\ PhaseOf(m) \in {"waiting", "delivered"} /\ p = "acknowledged"
              /\ m \in succeeded
           \/ /\ PhaseOf(m) \in {"waiting", "delivered"} /\ p = "deadLettered"
              /\ m \in expired \/ m \in Periodic \/ attempts[m] >= RetryThreshold[m]
           \/ PhaseOf(m) \in {"waiting", "acknowledged", "deadLettered"} /\ p = "deleted"
    PROVE  AbstractStep
<1>1. \A n \in Messages \ {m} : PhaseOf(n)' = PhaseOf(n)
  BY SamePhase
<1>2. Phases' = [Phases EXCEPT ![m] = p] /\ Phases[m] = PhaseOf(m)
  BY <1>1, OnePhase
<1>3. CASE PhaseOf(m) = p
  <2>1. Phases' = Phases
    BY <1>2, <1>3 DEF Phases
  <2>2. QED
    BY <2>1 DEF AbstractStep, Abstract!vars
<1>4. CASE PhaseOf(m) \in {"new", "delivered"} /\ p = "waiting"
  <2>1. Abstract!Submit(m) \/ Abstract!Return(m)
    BY <1>2, <1>4 DEF Abstract!Submit, Abstract!Return, Abstract!Become
  <2>2. QED
    BY <2>1 DEF AbstractStep, Abstract!Next
<1>5. CASE /\ PhaseOf(m) \in {"waiting", "delivered"} /\ p = "acknowledged"
           /\ m \in succeeded
  <2>1. Abstract!Acknowledge(m)
    BY <1>2, <1>5 DEF Abstract!Acknowledge, Abstract!Become, Abstract!Undecided
  <2>2. QED
    BY <2>1 DEF AbstractStep, Abstract!Next
<1>6. CASE /\ PhaseOf(m) \in {"waiting", "delivered"} /\ p = "deadLettered"
           /\ m \in expired \/ m \in Periodic \/ attempts[m] >= RetryThreshold[m]
  <2>1. Abstract!DeadLetter(m)
    BY <1>2, <1>6 DEF Abstract!DeadLetter, Abstract!Become, Abstract!Undecided
  <2>2. QED
    BY <2>1 DEF AbstractStep, Abstract!Next
<1>7. CASE PhaseOf(m) \in {"waiting", "acknowledged", "deadLettered"} /\ p = "deleted"
  <2>1. Abstract!Delete(m)
    BY <1>2, <1>7 DEF Abstract!Delete, Abstract!Become
  <2>2. QED
    BY <2>1 DEF AbstractStep, Abstract!Next
<1>8. QED
  BY <1>3, <1>4, <1>5, <1>6, <1>7

(* The cause of a dead-lettering, from what is known of the call. *)
LEMMA CauseOfDeadLetter ==
    ASSUME TypeOK, CausesKnown, NEW call \in unackCalls,
           NEW late \in {FALSE, (call.msg \in expired)},
           ResolveUnackAction(call, late) = "DEAD_LETTER"
    PROVE  \/ call.msg \in expired \/ call.msg \in Periodic
           \/ attempts[call.msg] >= RetryThreshold[call.msg]
<1>1. /\ call.msg \in Messages /\ call.attempts \in Nat
      /\ call.attempts <= attempts[call.msg] /\ attempts[call.msg] \in Nat
      /\ call.cause = "TTL_EXPIRED" => call.msg \in expired
      /\ RetryThreshold[call.msg] \in Nat
  BY ConstantsAssumption DEF TypeOK, CausesKnown
<1>2. late => call.msg \in expired
  OBVIOUS
<1>3. \/ call.cause = "TTL_EXPIRED" \/ late
      \/ call.msg \in Periodic \/ call.attempts >= RetryThreshold[call.msg]
  BY DEF ResolveUnackAction
<1>4. QED
  BY <1>1, <1>2, <1>3, SMTT(30)

(* Every step is an abstract step, and keeps Deliveries. *)
LEMMA DeliveryStep ==
    ASSUME TypeOK, Ledger(lists, status), AckOrigin, CausesKnown, Deliveries, [Next]_vars
    PROVE  Deliveries' /\ AbstractStep
<1> DEFINE Goal == Deliveries' /\ AbstractStep
           Waits == {"Pending", "Scheduled", "UnackRequeuing", "UnackDelaying"}
<1> USE DEF store
<1>t. /\ status \in [Messages -> Statuses] /\ attempts \in [Messages -> Nat]
      /\ ghost \subseteq Messages /\ lists \in ListsType /\ status \in StatusType
  BY DEF TypeOK, ListsType, StatusType
(* A step that writes no message and starts no handler function. *)
<1>i. ASSUME UNCHANGED <<status, ghost, attempts, succeeded, expired>>,
             \A c \in Consumers : pc'[c] = "handling" =>
                 pc[c] = "handling" /\ envelope'[c] = envelope[c]
      PROVE  Goal
  <2>1. AbstractStep
    BY <1>i, Invisible
  <2>2. Deliveries'
    BY <1>i DEF Deliveries
  <2>3. QED
    BY <2>1, <2>2
(* A step that moves one message with a body from one status to another. *)
<1>m. ASSUME NEW m \in Messages, m \notin ghost, NEW st \in Statuses,
             status' = [status EXCEPT ![m] = st],
             UNCHANGED <<ghost, attempts, succeeded, expired, pc, envelope>>,
             \/ status[m] \in {"New", "Processing"} \cup Waits /\ st \in Waits
             \/ /\ status[m] \in {"Processing"} \cup Waits /\ st = "Acknowledged"
                /\ m \in succeeded
             \/ /\ status[m] \in {"Processing"} \cup Waits /\ st = "DeadLettered"
                /\ m \in expired \/ m \in Periodic \/ attempts[m] >= RetryThreshold[m]
             \/ status[m] \in Waits \cup Settled /\ st = "Deleted"
      PROVE  Goal
  <2>1. \A n \in Messages : status'[n] = IF n = m THEN st ELSE status[n]
    BY <1>m, <1>t
  <2>2. Deliveries'
    BY <1>m, <1>t, <2>1 DEF Deliveries
  <2>3. /\ status[m] = "New" => PhaseOf(m) = "new"
        /\ status[m] = "Processing" => PhaseOf(m) = "delivered"
        /\ status[m] = "Acknowledged" => PhaseOf(m) = "acknowledged"
        /\ status[m] = "DeadLettered" => PhaseOf(m) = "deadLettered"
        /\ status[m] \in Waits => PhaseOf(m) = "waiting"
    BY <1>m DEF PhaseOf
  <2>4. /\ st \in Waits => PhaseOf(m)' = "waiting"
        /\ st = "Acknowledged" => PhaseOf(m)' = "acknowledged"
        /\ st = "DeadLettered" => PhaseOf(m)' = "deadLettered"
        /\ st = "Deleted" => PhaseOf(m)' = "deleted"
    BY <1>m, <2>1 DEF PhaseOf
  <2>5. AbstractStep
    BY <1>m, <2>1, <2>3, <2>4, Visible DEF Settled
  <2>6. QED
    BY <2>2, <2>5
(* A step that writes into a hash without a body. *)
<1>g. ASSUME NEW m \in Messages, m \in ghost \/ status[m] = "Deleted",
             NEW st \in {"Acknowledged", "DeadLettered", "UnackRequeuing"},
             status' = [status EXCEPT ![m] = st], ghost' = ghost \cup {m},
             UNCHANGED <<attempts, succeeded, expired, pc, envelope>>
      PROVE  Goal
  <2>1. \A n \in Messages : status'[n] = IF n = m THEN st ELSE status[n]
    BY <1>g, <1>t
  <2>2. Deliveries'
    BY <1>g, <1>t, <2>1 DEF Deliveries
  <2>3. PhaseOf(m) = "deleted" /\ PhaseOf(m)' = "deleted"
    BY <1>g DEF PhaseOf
  <2>4. AbstractStep
    BY <1>g, <2>1, <2>3, Visible
  <2>5. QED
    BY <2>2, <2>4
<1>0. CASE UNCHANGED vars
  BY <1>0, <1>i DEF vars, loop, history
<1>p. ASSUME NEW m \in Messages, NEW st \in {"Pending", "Scheduled"}, status[m] = "New",
             PublishScript(m, st), UNCHANGED <<ghost, loop, expired, history>>
      PROVE  Goal
  <2>1. attempts' = attempts /\ m \notin ghost
    BY <1>p, <1>t DEF PublishScript, CausesKnown, Deliveries
  <2>2. QED
    BY <1>m, <1>p, <2>1 DEF PublishScript, loop, history, Statuses
<1>1. ASSUME NEW m \in Messages, Publish(m) PROVE Goal
  BY <1>1, <1>p DEF Publish
<1>2. ASSUME NEW o \in Messages, NEW m \in Messages, RequeueMessage(o, m) PROVE Goal
  BY <1>2, <1>p DEF RequeueMessage, RequeueMessageScript
<1>3. ASSUME NEW m \in Messages, DeleteMessage(m) PROVE Goal
  <2>1. CASE status[m] = "UnackDelaying"
    BY <1>3, <1>i, <2>1 DEF DeleteMessage, DeleteMessageScript, loop, history
  <2>2. CASE status[m] # "UnackDelaying"
    <3>1. /\ m \notin ghost /\ status[m] \in Waits \cup Settled
          /\ status' = [status EXCEPT ![m] = "Deleted"]
          /\ UNCHANGED <<ghost, attempts, succeeded, expired, pc, envelope>>
      BY <1>3, <2>2 DEF DeleteMessage, DeleteMessageScript, Decodable, HomeOf, Settled,
         loop, history
    <3>2. QED
      BY <1>m, <3>1 DEF Statuses
  <2>3. QED
    BY <2>1, <2>2
<1>4. ASSUME NEW m \in Messages, ExpireTTL(m) PROVE Goal
  <2>1. /\ UNCHANGED <<status, ghost, attempts, succeeded, pc, envelope>>
        /\ expired' = expired \cup {m} /\ m \in TTL /\ status[m] # "New"
    BY <1>4 DEF ExpireTTL, Exists, loop, history
  <2>2. Deliveries'
    BY <2>1 DEF Deliveries
  <2>3. Phases' = Phases /\ Phases[m] # "new"
    BY <2>1 DEF Phases, PhaseOf
  <2>4. Abstract!Expire(m)
    BY <2>1, <2>3 DEF Abstract!Expire
  <2>5. QED
    BY <2>2, <2>4 DEF AbstractStep, Abstract!Next
<1>5. ASSUME NEW c \in Consumers, Checkout(c) PROVE Goal
  <2>0. PICK m \in Messages : m = envelope[c].msg
    BY <1>5 DEF Checkout, TypeOK
  <2>1. /\ status[m] = "Pending"
        /\ status' = [status EXCEPT ![m] = "Processing"]
        /\ attempts' = [attempts EXCEPT ![m] = @ + 1]
        /\ UNCHANGED <<ghost, succeeded, expired>>
        /\ \A d \in Consumers : pc'[d] = "handling" =>
               \/ pc[d] = "handling" /\ envelope'[d] = envelope[d]
               \/ envelope'[d].msg = m
    BY <1>5, <2>0, SMTT(30) DEF Checkout, CheckoutScript, TypeOK, history, NoEnvelope
  <2>2. \A d \in Consumers : pc[d] = "handling" => envelope[d].msg \in Messages
    BY DEF TypeOK
  <2>3. /\ \A n \in Messages : attempts'[n] = IF n = m THEN attempts[n] + 1 ELSE attempts[n]
        /\ \A n \in Messages : status'[n] = IF n = m THEN "Processing" ELSE status[n]
        /\ m \notin ghost
    BY <1>t, <2>1 DEF Deliveries
  <2>4. Deliveries'
    BY <1>t, <2>1, <2>2, <2>3, SMTT(30) DEF Deliveries
  <2>5. PhaseOf(m) = "waiting" /\ PhaseOf(m)' = "delivered"
    BY <2>1, <2>3, SMTT(30) DEF PhaseOf
  <2>6. \A n \in Messages \ {m} : PhaseOf(n)' = PhaseOf(n)
    BY <2>1, <2>3, SamePhase
  <2>7. Phases' = [Phases EXCEPT ![m] = "delivered"] /\ Phases[m] = "waiting"
    BY <2>1, <2>5, <2>6, OnePhase
  <2>8. Abstract!Deliver(m)
    BY <2>1, <2>7 DEF Abstract!Deliver, Abstract!Become
  <2>9. QED
    BY <2>1, <2>4, <2>8 DEF AbstractStep, Abstract!Next
<1>6. ASSUME NEW c \in Consumers, HandlerSucceeds(c) PROVE Goal
  <2> DEFINE m == envelope[c].msg
  <2>1. /\ pc[c] = "handling" /\ m \in Messages /\ attempts[m] > 0
        /\ succeeded' = succeeded \cup {m}
        /\ UNCHANGED <<status, ghost, attempts, expired>>
        /\ \A d \in Consumers : pc'[d] = "handling" => pc[d] = "handling" /\ envelope'[d] = envelope[d]
    BY <1>6 DEF HandlerSucceeds, Deliveries, TypeOK
  <2>2. Deliveries'
    BY <2>1 DEF Deliveries
  <2>3. Phases' = Phases
    BY <2>1 DEF Phases, PhaseOf
  <2>4. Abstract!Handle(m)
    BY <2>1, <2>3 DEF Abstract!Handle
  <2>5. QED
    BY <2>1, <2>2, <2>4 DEF AbstractStep, Abstract!Next
<1>7. ASSUME NEW c \in Consumers, Timeout(c) \/ HandlerFails(c) \/ CheckoutRejected(c)
      PROVE  Goal
  BY <1>7, <1>i DEF Timeout, HandlerFails, CheckoutRejected, TypeOK, history
<1>8. ASSUME NEW call \in ackCalls, Acknowledge(call) \/ AcknowledgeFails(call) PROVE Goal
  <2> DEFINE m == call.msg
             c == call.owner
  <2>1. m \in Messages /\ c \in Consumers /\ m \in succeeded
    BY DEF TypeOK, AckOrigin
  <2>2. /\ UNCHANGED <<succeeded, expired, pc, envelope>>
        /\ AcknowledgeScript(c, m) \/ UNCHANGED store
    BY <1>8 DEF Acknowledge, AcknowledgeFails, loop, history
  <2>3. CASE UNCHANGED store
    BY <1>i, <2>2, <2>3
  <2>4. CASE AcknowledgeScript(c, m) /\ lists[c][m] > 0
    <3>1. /\ status' = [status EXCEPT ![m] = "Acknowledged"] /\ UNCHANGED attempts
          /\ ghost' = IF status[m] = "Deleted" THEN ghost \cup {m} ELSE ghost
      BY <2>4 DEF AcknowledgeScript, Touched
    <3>2. status[m] \notin Settled \cup {"New"} /\ status[m] \in Statuses
      BY <1>t, <2>1, <2>4, FoundIsUnsettled DEF WorkPlaces
    <3>3. CASE m \in ghost \/ status[m] = "Deleted"
      BY <1>g, <2>1, <2>2, <3>1, <3>3
    <3>4. CASE m \notin ghost /\ status[m] # "Deleted"
      BY <1>m, <2>1, <2>2, <3>1, <3>2, <3>4 DEF Statuses, Settled
    <3>5. QED
      BY <3>3, <3>4
  <2>5. QED
    BY <2>2, <2>3, <2>4 DEF AcknowledgeScript
<1>9. ASSUME NEW call \in unackCalls, Unacknowledge(call) \/ UnacknowledgeFails(call) PROVE Goal
  <2> DEFINE m == call.msg
             c == call.owner
  <2>1. m \in Messages /\ c \in Consumers
    BY DEF TypeOK
  <2>2. /\ UNCHANGED <<succeeded, expired, pc, envelope>>
        /\ UnacknowledgeScript(call) \/ UNCHANGED store
    BY <1>9 DEF Unacknowledge, UnacknowledgeFails, loop, history
  <2>3. CASE UNCHANGED store
    BY <1>i, <2>2, <2>3
  <2>4. CASE UnacknowledgeScript(call) /\ lists[c][m] > 0
    <3>1. PICK late \in {FALSE, (m \in expired)} :
             IF ResolveUnackAction(call, late) = "DEAD_LETTER"
             THEN status' = [status EXCEPT ![m] = "DeadLettered"]
             ELSE status' = [status EXCEPT ![m] = "UnackRequeuing"]
      BY <2>4 DEF UnacknowledgeScript
    <3>2. /\ UNCHANGED attempts
          /\ ghost' = IF status[m] = "Deleted" THEN ghost \cup {m} ELSE ghost
      BY <2>4 DEF UnacknowledgeScript, Touched
    <3>3. status[m] \notin Settled \cup {"New"} /\ status[m] \in Statuses
      BY <1>t, <2>1, <2>4, FoundIsUnsettled DEF WorkPlaces
    <3>4. \/ /\ status' = [status EXCEPT ![m] = "DeadLettered"]
             /\ m \in expired \/ m \in Periodic \/ attempts[m] >= RetryThreshold[m]
          \/ status' = [status EXCEPT ![m] = "UnackRequeuing"]
      BY <3>1, CauseOfDeadLetter
    <3>5. CASE m \in ghost \/ status[m] = "Deleted"
      BY <1>g, <2>1, <2>2, <3>2, <3>4, <3>5
    <3>6. CASE m \notin ghost /\ status[m] # "Deleted"
      BY <1>m, <2>1, <2>2, <3>2, <3>3, <3>4, <3>6 DEF Statuses, Settled
    <3>7. QED
      BY <3>5, <3>6
  <2>5. QED
    BY <2>2, <2>3, <2>4 DEF UnacknowledgeScript
<1>10. ASSUME NEW m \in Messages,
              RequeueImmediate(m) \/ RequeueDelayed(m) \/ PublishScheduled(m)
       PROVE  Goal
  <2>1. /\ UNCHANGED <<ghost, attempts, succeeded, expired, pc, envelope>> /\ m \notin ghost
        /\ status[m] \notin {"New", "Deleted"} /\ status[m] \in Statuses
        /\ \E st \in {"UnackDelaying", "Pending"} : status' = [status EXCEPT ![m] = st]
        /\ \E k \in WorkPlaces : lists[k][m] > 0
    BY <1>10, <1>t DEF RequeueImmediate, RequeueImmediateScript, RequeueDelayed, Decodable, Exists,
       RequeueDelayedScript, PublishScheduled, PublishScheduledScript, loop, history, WorkPlaces
  <2>2. status[m] \notin Settled \cup {"New"}
    BY <1>t, <2>1, FoundIsUnsettled
  <2>3. QED
    BY <1>m, <2>1, <2>2 DEF Statuses, Settled
<1>11. ASSUME NEW c \in Consumers,
              \/ ConsumerStep(c) \/ CheckoutMissed(c) \/ \E m \in Messages : Pop(c, m)
       PROVE  Goal
  <2>1. UNCHANGED <<status, ghost, attempts, succeeded, expired>>
    BY <1>11 DEF ConsumerStep, StartConsumer, RestartHandler, RunHandler,
       SubscribeScript, Beat, HeartbeatExpires, StopHandler, ShutdownConsumer,
       CloseHandler, UnsubscribeScript, LoopExit, Crash, CheckoutMissed, Pop, history
  <2>2. \A d \in Consumers : pc'[d] = "handling" => pc[d] = "handling" /\ envelope'[d] = envelope[d]
    BY <1>11, OnlyCheckoutHandles
  <2>3. QED
    BY <1>i, <2>1, <2>2
<1>12. ASSUME \/ \E s \in OperationalStates : SetQueueState(s)
              \/ \E w, c \in Consumers : ReapDetect(w, c)
              \/ \E w \in Consumers : ReapLoad(w) \/ ReapUnsubscribe(w)
       PROVE  Goal
  BY <1>12, <1>i DEF SetQueueState, SetQueueStateScript, ReapDetect, ReapLoad,
     ReapUnsubscribe, UnsubscribeScript, loop, history
<1>13. QED
  BY <1>0, <1>1, <1>2, <1>3, <1>4, <1>5, <1>6, <1>7, <1>8, <1>9, <1>10, <1>11, <1>12
     DEF Next, UserStep, LoopStep, CallStep, WorkerStep

(* The lifecycle of MessageLifecycle implements Delivery, for any messages,
   consumers and options, whatever crashes, stalls or loses a reply: no interleaving
   of the scripts decides a message twice, acknowledges what no handler function
   was done with, gives up a message without a cause or deletes one under a
   handler function. *)
THEOREM DeliveryImplemented == Spec => ImplementsDelivery
<1> DEFINE Inv == TypeOK /\ Ledger(lists, status) /\ AckOrigin /\ CausesKnown /\ Deliveries
<1>1. Init => Inv /\ Abstract!Init
  <2> SUFFICES ASSUME Init PROVE Inv /\ Abstract!Init
    OBVIOUS
  <2>1. TypeOK /\ AckOrigin /\ CausesKnown /\ Deliveries
    BY InitType DEF Init, AckOrigin, AcknowledgedOnlyIfHandled, CausesKnown,
       DeadLetteredForCause, Deliveries
  <2>2. Ledger(lists, status)
    BY PlaceFacts, SMTT(30) DEF Init, Ledger, Settled
  <2>3. Abstract!Init
    BY DEF Init, Abstract!Init, Phases, PhaseOf
  <2>4. QED
    BY <2>1, <2>2, <2>3
<1>2. Inv /\ [Next]_vars => Inv' /\ AbstractStep
  <2> SUFFICES ASSUME Inv, [Next]_vars PROVE Inv' /\ AbstractStep
    OBVIOUS
  <2>1. TypeOK' /\ AckOrigin'
    BY TypeStep, AckOriginStep
  <2>2. Ledger(lists, status)'
    BY LedgerStep DEF Ledger
  <2>3. CausesKnown'
    BY <2>1, CausesKnownStep
  <2>4. Deliveries' /\ AbstractStep
    BY DeliveryStep
  <2>5. QED
    BY <2>1, <2>2, <2>3, <2>4
<1> HIDE DEF Inv
<1>3. QED
  BY <1>1, <1>2, PTL DEF Spec, ImplementsDelivery, Abstract!Spec, AbstractStep

---------------------------------------------------------------------------
(***************************************************************************)
(* Where a message can be recovered from: every processing list with a     *)
(* message in it belongs to a registered consumer, and a message waiting   *)
(* for a retry or for its schedule is in the list of its worker.           *)
(***************************************************************************)

(* Who is registered.  A handler that runs belongs to a consumer that is up, a
   consumer that was not started has nothing, and a reaper that gets as far as
   unsubscribing a consumer has either found it dead, for good, or put it among
   the suspected. *)
Membership ==
    /\ InFlightRecoverable
    /\ \A c \in Consumers :
          /\ handler[c] = "running" => consumer[c] = "up"
          /\ handler[c] = "running" /\ c \notin suspected => c \in registered
          /\ consumer[c] = "new" => c \notin registered /\ pc[c] = "off"
    /\ \A w \in Consumers :
          /\ reap[w].phase # "idle" => consumer[reap[w].target] # "new"
          /\ reap[w].phase = "unacking" /\ Alive(reap[w].target) => reap[w].target \in suspected

(* A step that registers at least who was registered and suspects at least who
   was suspected, when only running handlers fill their processing list. *)
LEMMA MembershipKept ==
    ASSUME TypeOK, TypeOK', Membership,
           registered \subseteq registered', suspected \subseteq suspected',
           \A c \in Consumers, m \in Messages :
               lists'[c][m] > 0 => lists[c][m] > 0 \/ handler[c] = "running",
           \A c \in Consumers :
               /\ handler'[c] = "running" =>
                      consumer'[c] = "up" /\ (handler[c] = "running" \/ c \in registered')
               /\ consumer'[c] = "new" => consumer[c] = "new" /\ c \notin registered' /\ pc'[c] = "off"
               /\ pc[c] = "off" /\ pc'[c] # "off" => consumer[c] \in {"new", "up"}
               /\ consumer'[c] = "up" => consumer[c] \in {"new", "up"},
           \A w \in Consumers :
               \/ reap'[w] = reap[w]
               \/ reap'[w].phase = "idle"
               \/ reap'[w].phase = "detected" /\ reap'[w].target \in registered
               \/ /\ reap'[w].phase = "unacking" /\ reap'[w].target = reap[w].target
                  /\ reap[w].phase = "detected"
                  /\ Alive(reap[w].target) => reap[w].target \in suspected'
    PROVE  Membership'
<1>1. InFlightRecoverable'
  <2> SUFFICES ASSUME NEW c \in Consumers \ suspected', NEW m \in Messages, lists'[c][m] > 0
               PROVE  c \in registered'
    BY DEF InFlightRecoverable, Holds
  <2>1. CASE lists[c][m] > 0
    BY <2>1 DEF Membership, InFlightRecoverable, Holds
  <2>2. CASE handler[c] = "running"
    BY <2>2 DEF Membership
  <2>3. QED
    BY <2>1, <2>2
<1>2. ASSUME NEW c \in Consumers
      PROVE  /\ handler'[c] = "running" => consumer'[c] = "up"
             /\ handler'[c] = "running" /\ c \notin suspected' => c \in registered'
             /\ consumer'[c] = "new" => c \notin registered' /\ pc'[c] = "off"
  BY <1>2 DEF Membership
<1>3. \A c \in Consumers : Alive(c)' => Alive(c) \/ consumer[c] = "new"
  BY DEF Alive
<1>4. ASSUME NEW w \in Consumers
      PROVE  /\ reap'[w].phase # "idle" => consumer'[reap'[w].target] # "new"
             /\ reap'[w].phase = "unacking" /\ Alive(reap[w].target)' => reap'[w].target \in suspected'
  <2> DEFINE c == reap[w].target
  <2>t. c \in Consumers /\ reap'[w].target \in Consumers
    BY DEF TypeOK
  <2>1. CASE reap'[w] = reap[w]
    BY <2>1, <2>t, <1>3, SMTT(30) DEF Membership
  <2>2. CASE reap'[w].phase = "idle"
    BY <2>2
  <2>3. CASE reap'[w].phase = "detected" /\ reap'[w].target \in registered
    BY <2>3, <2>t DEF Membership
  <2>4. CASE /\ reap'[w].phase = "unacking" /\ reap'[w].target = reap[w].target
             /\ reap[w].phase = "detected"
             /\ Alive(reap[w].target) => reap[w].target \in suspected'
    BY <2>4, <2>t, <1>3, SMTT(30) DEF Membership
  <2>5. QED
    BY <2>1, <2>2, <2>3, <2>4
<1>5. QED
  BY <1>1, <1>2, <1>4 DEF Membership

(* Nothing fills a processing list but the pop of the running handler. *)
LEMMA OnlyPopFills ==
    ASSUME TypeOK, [Next]_vars, NEW c \in Consumers, NEW m \in Messages, lists'[c][m] > 0
    PROVE  lists[c][m] > 0 \/ Pop(c, m)
<1> DEFINE Goal == lists[c][m] > 0 \/ Pop(c, m)
<1> USE DEF store
<1>t. lists \in ListsType /\ lists[c][m] \in Nat /\ c \in Keys
  BY KeyFacts, SMTT(30) DEF TypeOK, ListsType
<1>u. ASSUME lists' = lists PROVE Goal
  BY <1>u
<1>m. ASSUME NEW k \in Keys, NEW l \in Keys \ Consumers, NEW n \in Messages, k # l,
             lists' = Move(lists, k, l, n)
      PROVE  Goal
  <2>1. \A j \in Keys, i \in Messages :
           Move(lists, k, l, n)[j][i] =
               IF i = n /\ j = k THEN (IF lists[k][n] > 0 THEN lists[k][n] - 1 ELSE 0)
               ELSE IF i = n /\ j = l THEN (IF l \in SortedSets THEN 1 ELSE lists[l][n] + 1)
               ELSE lists[j][i]
    <3>1. l \in Keys /\ k # l /\ lists \in ListsType
      BY <1>m, <1>t
    <3>2. QED
      BY <3>1, MoveContents, SMTT(30)
  <2>2. c # l /\ lists'[c][m] = Move(lists, k, l, n)[c][m]
    BY <1>m
  <2>3. QED
    BY <1>t, <2>1, <2>2, SMTT(30)
<1>r. ASSUME NEW L \in ListsType, NEW k \in Keys, NEW n \in Messages
      PROVE  Rem(L, k, n) \in ListsType /\ Rem(L, k, n)[c][m] <= L[c][m]
  <2>1. /\ Rem(L, k, n) \in ListsType
        /\ \A j \in Keys, i \in Messages :
              Rem(L, k, n)[j][i] = IF j = k /\ i = n
                                   THEN IF L[k][n] > 0 THEN L[k][n] - 1 ELSE 0
                                   ELSE L[j][i]
    BY RemContents, SMTT(30)
  <2>2. L[c][m] \in Nat
    BY <1>t DEF ListsType
  <2>3. QED
    BY <1>t, <2>1, <2>2, SMTT(30)
<1>p. ASSUME NEW n \in Messages, NEW st \in {"Pending", "Scheduled"}, PublishScript(n, st) PROVE Goal
  <2> DEFINE key == IF st = "Pending" THEN "pending" ELSE "scheduled"
             A == Add(lists, key, n)
  <2>1. key \in Keys /\ c # key /\ "published" \in Keys /\ c # "published"
    BY KeyFacts
  <2>2. A \in ListsType /\ A[c][m] = lists[c][m]
    BY <1>t, <2>1, AddContents, SMTT(30)
  <2>3. lists' = Add(A, "published", n)
    BY <1>p DEF PublishScript
  <2> HIDE DEF A, key
  <2>4. lists'[c][m] = A[c][m]
    BY <1>t, <2>1, <2>2, <2>3, AddContents, SMTT(30)
  <2>5. QED
    BY <2>2, <2>4
<1>a. ASSUME NEW d \in Consumers, NEW n \in Messages,
             \/ AcknowledgeScript(d, n)
             \/ \E call \in unackCalls : call.owner = d /\ call.msg = n /\ UnacknowledgeScript(call)
      PROVE  Goal
  <2>1. /\ {"acknowledged", "deadLettered", "requeued"} \subseteq Keys \ Consumers
        /\ d \in Keys /\ d \notin {"acknowledged", "deadLettered", "requeued"}
    BY KeyFacts
  <2>2. CASE lists' = Rem(lists, d, n)
    <3>1. Rem(lists, d, n) \in ListsType /\ Rem(lists, d, n)[c][m] <= lists[c][m]
      BY <1>r, <1>t, <2>1
    <3>2. lists'[c][m] \in Nat
      BY <1>t, <2>2, <3>1 DEF ListsType
    <3>3. QED
      BY <1>t, <2>2, <3>1, <3>2, SMTT(30)
  <2>3. CASE \E l \in {"acknowledged", "deadLettered", "requeued"} : lists' = Move(lists, d, l, n)
    BY <1>m, <2>1, <2>3
  <2>4. QED
    BY <1>a, <1>u, <2>2, <2>3 DEF AcknowledgeScript, UnacknowledgeScript
<1> HIDE DEF Goal
<1>1. ASSUME NEW n \in Messages, DeleteMessage(n) PROVE Goal
  <2>1. CASE status[n] = "UnackDelaying"
    BY <1>1, <1>u, <2>1 DEF DeleteMessage, DeleteMessageScript
  <2>2. CASE status[n] # "UnackDelaying"
    <3> DEFINE home == HomeOf[status[n]]
    <3>1. home \in Keys /\ "published" \in Keys
      BY <1>1, KeyFacts, SMTT(30) DEF DeleteMessage, DeleteMessageScript, HomeOf
    <3>2. lists' = Rem(Rem(lists, home, n), "published", n)
      BY <1>1, <2>2 DEF DeleteMessage, DeleteMessageScript
    <3> HIDE DEF home
    <3>3. /\ Rem(lists, home, n) \in ListsType
          /\ Rem(lists, home, n)[c][m] <= lists[c][m]
          /\ Rem(Rem(lists, home, n), "published", n)[c][m] <= Rem(lists, home, n)[c][m]
      BY <1>r, <1>t, <3>1
    <3>4. Rem(lists, home, n)[c][m] \in Nat /\ lists'[c][m] \in Nat
      <4>1. lists' \in ListsType
        BY <1>r, <3>1, <3>2, <3>3
      <4>2. QED
        BY <1>t, <3>3, <4>1 DEF ListsType
    <3>5. QED
      BY <1>t, <3>2, <3>3, <3>4, SMTT(30) DEF Goal
  <2>3. QED
    BY <2>1, <2>2
<1>2. ASSUME NEW d \in Consumers, NEW n \in Messages, Pop(d, n) PROVE Goal
  <2>1. lists' = Move(lists, "pending", d, n)
    BY <1>2 DEF Pop
  <2>2. CASE c = d /\ m = n
    BY <1>2, <2>2 DEF Goal
  <2>3. CASE c # d \/ m # n
    <3>1. "pending" \in Keys /\ c # "pending" /\ d # "pending" /\ d \in Keys
      BY KeyFacts
    <3>2. Move(lists, "pending", d, n)[c][m] = lists[c][m]
      BY <1>t, <2>3, <3>1, MoveContents, SMTT(30)
    <3>3. QED
      BY <2>1, <3>2 DEF Goal
  <2>4. QED
    BY <2>2, <2>3
<1>3. ASSUME NEW n \in Messages, RequeueImmediate(n) \/ RequeueDelayed(n) \/ PublishScheduled(n)
      PROVE  Goal
  <2>1. \E k \in {"requeued", "delayed", "scheduled"}, l \in {"pending", "delayed"} :
           k # l /\ lists' = Move(lists, k, l, n)
    BY <1>3 DEF RequeueImmediate, RequeueImmediateScript, RequeueDelayed,
       RequeueDelayedScript, PublishScheduled, PublishScheduledScript
  <2>2. /\ {"requeued", "delayed", "scheduled"} \subseteq Keys
        /\ {"pending", "delayed"} \subseteq Keys \ Consumers
    BY KeyFacts
  <2>3. QED
    BY <1>m, <2>1, <2>2
<1>4. ASSUME NEW call \in ackCalls, Acknowledge(call) \/ AcknowledgeFails(call) PROVE Goal
  <2>1. call.owner \in Consumers /\ call.msg \in Messages
    BY DEF TypeOK
  <2>2. QED
    BY <1>4, <1>a, <1>u, <2>1 DEF Acknowledge, AcknowledgeFails
<1>5. ASSUME NEW call \in unackCalls, Unacknowledge(call) \/ UnacknowledgeFails(call) PROVE Goal
  <2>1. call.owner \in Consumers /\ call.msg \in Messages
    BY DEF TypeOK
  <2>2. QED
    BY <1>5, <1>a, <1>u, <2>1 DEF Unacknowledge, UnacknowledgeFails
<1>6. ASSUME \/ UNCHANGED vars
             \/ \E n \in Messages : ExpireTTL(n)
             \/ \E s \in OperationalStates : SetQueueState(s)
             \/ \E d \in Consumers : ConsumerStep(d)
             \/ \E d \in Consumers : \/ CheckoutRejected(d) \/ CheckoutMissed(d) \/ Checkout(d)
                                     \/ Timeout(d) \/ HandlerSucceeds(d) \/ HandlerFails(d)
             \/ \E w, d \in Consumers : ReapDetect(w, d)
             \/ \E w \in Consumers : ReapLoad(w) \/ ReapUnsubscribe(w)
      PROVE  Goal
  BY <1>6, <1>u DEF vars, ExpireTTL, SetQueueState, SetQueueStateScript, ConsumerStep,
     StartConsumer, RestartHandler, RunHandler, SubscribeScript, Beat,
     HeartbeatExpires, StopHandler, ShutdownConsumer, CloseHandler, UnsubscribeScript,
     LoopExit, Crash, CheckoutRejected, CheckoutMissed, Checkout, Timeout,
     HandlerSucceeds, HandlerFails, ReapDetect, ReapLoad, ReapUnsubscribe
<1>7. ASSUME \/ \E n \in Messages : Publish(n)
             \/ \E o, n \in Messages : RequeueMessage(o, n)
      PROVE  Goal
  BY <1>7, <1>p DEF Publish, RequeueMessage, RequeueMessageScript
<1>8. QED
  BY <1>1, <1>2, <1>3, <1>4, <1>5, <1>6, <1>7
     DEF Next, UserStep, LoopStep, CallStep, WorkerStep, Goal

(* Membership survives every step. *)
LEMMA MembershipStep ==
    ASSUME TypeOK, TypeOK', Membership, [Next]_vars
    PROVE  Membership'
<1> USE DEF store
<1>f. \A c \in Consumers, m \in Messages :
         lists'[c][m] > 0 => lists[c][m] > 0 \/ handler[c] = "running"
  BY OnlyPopFills DEF Pop
<1>n. \A c \in Consumers :
         consumer[c] = "new" => c \notin registered /\ pc[c] = "off" /\ handler[c] # "running"
  BY DEF Membership
<1>r. \A c \in Consumers : handler[c] = "running" => consumer[c] = "up"
  BY DEF Membership
(* A step that changes neither who is registered nor who is up. *)
<1>s. ASSUME UNCHANGED <<registered, consumer, handler, reap>>, suspected' = suspected,
             \A c \in Consumers : pc[c] = "off" => pc'[c] = "off"
      PROVE  Membership'
  BY <1>f, <1>n, <1>r, <1>s, MembershipKept
<1>1. CASE \/ UNCHANGED vars
           \/ \E m \in Messages : Publish(m) \/ DeleteMessage(m) \/ ExpireTTL(m)
           \/ \E o, m \in Messages : RequeueMessage(o, m)
           \/ \E s \in OperationalStates : SetQueueState(s)
           \/ CallStep
           \/ \E m \in Messages : RequeueImmediate(m) \/ RequeueDelayed(m) \/ PublishScheduled(m)
  <2>1. UNCHANGED <<registered, consumer, handler, reap, suspected, pc>>
    BY <1>1 DEF vars, Publish, DeleteMessage, DeleteMessageScript, ExpireTTL,
       RequeueMessage, RequeueMessageScript, SetQueueState, SetQueueStateScript,
       CallStep, Acknowledge, AcknowledgeFails, Unacknowledge, UnacknowledgeFails,
       RequeueImmediate, RequeueImmediateScript, RequeueDelayed, RequeueDelayedScript,
       PublishScheduled, PublishScheduledScript, members, loop, history
  <2>2. QED
    BY <1>s, <2>1
<1>2. ASSUME NEW c \in Consumers,
             \/ Beat(c) \/ HeartbeatExpires(c) \/ LoopExit(c)
             \/ (\E m \in Messages : Pop(c, m)) \/ CheckoutMissed(c) \/ Checkout(c)
             \/ Timeout(c) \/ HandlerSucceeds(c) \/ HandlerFails(c)
      PROVE  Membership'
  <2>1. UNCHANGED <<registered, consumer, handler, reap, suspected>>
    BY <1>2 DEF Beat, HeartbeatExpires, LoopExit, Pop, CheckoutMissed, Checkout,
       Timeout, HandlerSucceeds, HandlerFails, members, loop, history
  <2>2. \/ pc' = pc
        \/ /\ pc[c] # "off"
           /\ \E x \in {"off", "idle", "popped", "handling"} : pc' = [pc EXCEPT ![c] = x]
    BY <1>2 DEF Beat, HeartbeatExpires, LoopExit, Pop, CheckoutMissed, Checkout,
       Timeout, HandlerSucceeds, HandlerFails, loop
  <2>3. \A d \in Consumers : pc[d] = "off" => pc'[d] = "off"
    BY <2>2 DEF TypeOK
  <2>4. QED
    BY <1>s, <2>1, <2>3
<1>3. ASSUME NEW c \in Consumers, StartConsumer(c) \/ RestartHandler(c) PROVE Membership'
  <2>1. /\ consumer[c] \in {"new", "up"} /\ registered' = registered \cup {c}
        /\ handler' = [handler EXCEPT ![c] = "running"] /\ pc' = [pc EXCEPT ![c] = "idle"]
        /\ consumer' = [consumer EXCEPT ![c] = "up"]
        /\ UNCHANGED <<reap, suspected>>
    BY <1>3, SMTT(30) DEF StartConsumer, RestartHandler, RunHandler, SubscribeScript, history,
       TypeOK
  <2>2. \A d \in Consumers : d # c =>
           handler'[d] = handler[d] /\ pc'[d] = pc[d] /\ consumer'[d] = consumer[d]
    BY <2>1, SMTT(30) DEF TypeOK
  <2>3. handler'[c] = "running" /\ pc'[c] = "idle" /\ consumer'[c] = "up"
    BY <2>1, SMTT(30) DEF TypeOK
  <2>4. QED
    BY <1>f, <1>n, <1>r, <2>1, <2>2, <2>3, MembershipKept, SMTT(30)
<1>4. ASSUME NEW c \in Consumers,
             StopHandler(c) \/ ShutdownConsumer(c) \/ Crash(c) \/ CheckoutRejected(c)
      PROVE  Membership'
  <2>1. /\ consumer[c] # "new" /\ UNCHANGED <<registered, suspected>>
        /\ reap' = [reap EXCEPT ![c] = NoTarget(c)]
        /\ \A d \in Consumers : d # c =>
              handler'[d] = handler[d] /\ pc'[d] = pc[d] /\ consumer'[d] = consumer[d]
    BY <1>4, <1>n, SMTT(30) DEF StopHandler, ShutdownConsumer, Crash, CheckoutRejected, members,
       history, TypeOK
  <2>2. /\ handler'[c] # "running"
        /\ consumer'[c] \in {consumer[c], "down", "crashed"}
        /\ pc[c] = "off" => pc'[c] = "off"
    BY <1>4, SMTT(30) DEF StopHandler, ShutdownConsumer, Crash, CheckoutRejected, TypeOK
  <2>3. \A w \in Consumers : reap'[w] = reap[w] \/ reap'[w].phase = "idle"
    BY <2>1, SMTT(30) DEF NoTarget, TypeOK
  <2>4. QED
    BY <1>f, <1>n, <1>r, <2>1, <2>2, <2>3, MembershipKept
<1>5. ASSUME NEW w \in Consumers, NEW c \in Consumers, ReapDetect(w, c) PROVE Membership'
  <2>1. /\ UNCHANGED <<registered, suspected, consumer, handler, pc>> /\ c \in registered
        /\ reap' = [reap EXCEPT ![w] = [target |-> c, phase |-> "detected"]]
    BY <1>5 DEF ReapDetect, members, loop, history
  <2>2. \A v \in Consumers :
           reap'[v] = reap[v] \/ (reap'[v].phase = "detected" /\ reap'[v].target \in registered)
    BY <2>1, SMTT(30) DEF TypeOK
  <2>3. QED
    BY <1>f, <1>n, <1>r, <2>1, <2>2, MembershipKept
<1>6. ASSUME NEW w \in Consumers, ReapLoad(w) PROVE Membership'
  <2>1. /\ UNCHANGED <<registered, consumer, handler, pc>> /\ reap[w].phase = "detected"
        /\ reap' = [reap EXCEPT ![w].phase = "unacking"]
        /\ suspected \subseteq suspected'
        /\ Alive(reap[w].target) => reap[w].target \in suspected'
    BY <1>6 DEF ReapLoad, members, loop
  <2>2. /\ reap'[w].phase = "unacking" /\ reap'[w].target = reap[w].target
        /\ \A v \in Consumers : v # w => reap'[v] = reap[v]
    BY <2>1, SMTT(30) DEF TypeOK
  <2>3. QED
    BY <1>f, <1>n, <1>r, <2>1, <2>2, MembershipKept
(* The two steps that unsubscribe: nobody who is unsubscribed holds a message. *)
<1>7. ASSUME NEW c \in Consumers, CloseHandler(c) PROVE Membership'
  <2>1. /\ registered' = IF ProcessingEmpty(c) THEN registered \ {c} ELSE registered
        /\ handler' = [handler EXCEPT ![c] = "stopped"]
        /\ UNCHANGED <<lists, consumer, pc, reap, suspected>>
    BY <1>7 DEF CloseHandler, UnsubscribeScript, history
  <2>2. handler'[c] = "stopped" /\ \A d \in Consumers : d # c => handler'[d] = handler[d]
    BY <2>1, SMTT(30) DEF TypeOK
  <2>3. InFlightRecoverable'
    BY <2>1, SMTT(30) DEF Membership, InFlightRecoverable, Holds, ProcessingEmpty
  <2>4. QED
    BY <2>1, <2>2, <2>3 DEF Membership, Alive
<1>8. ASSUME NEW w \in Consumers, ReapUnsubscribe(w) PROVE Membership'
  <2> DEFINE c == reap[w].target
  <2>1. /\ registered' = IF ProcessingEmpty(c) THEN registered \ {c} ELSE registered
        /\ reap' = [reap EXCEPT ![w] = NoTarget(w)] /\ reap[w].phase = "unacking"
        /\ UNCHANGED <<lists, consumer, handler, pc, suspected>>
    BY <1>8 DEF ReapUnsubscribe, UnsubscribeScript, history, loop
  <2>2. c \in Consumers
    BY DEF TypeOK
  <2>3. handler[c] = "running" => c \in suspected
    BY <2>1, <2>2 DEF Membership, Alive
  <2>4. InFlightRecoverable'
    BY <2>1, <2>2, SMTT(30) DEF Membership, InFlightRecoverable, Holds, ProcessingEmpty
  <2>5. \A v \in Consumers : reap'[v] = reap[v] \/ reap'[v].phase = "idle"
    BY <2>1, SMTT(30) DEF NoTarget, TypeOK
  <2> HIDE DEF c
  <2>6. QED
    BY <2>1, <2>2, <2>3, <2>4, <2>5, SMTT(30) DEF Membership, Alive
<1>9. QED
  BY <1>1, <1>2, <1>3, <1>4, <1>5, <1>6, <1>7, <1>8
     DEF Next, UserStep, ConsumerStep, LoopStep, WorkerStep

(* Shutdown and reaper never unsubscribe a consumer whose processing list has a
   message in it, nor does a pop fill the list of an unregistered one, unless the
   consumer was reaped alive. *)
THEOREM InFlightRecoverableHolds == Spec => []InFlightRecoverable
<1>1. Init => Membership
  <2> SUFFICES ASSUME Init PROVE Membership
    OBVIOUS
  <2>1. \A c \in Consumers, m \in Messages : ~(lists[c][m] > 0)
    BY KeyFacts, SMTT(30) DEF Init
  <2>2. QED
    BY <2>1 DEF Init, Membership, InFlightRecoverable, Holds, Alive, NoTarget
<1>2. TypeOK /\ TypeOK' /\ Membership /\ [Next]_vars => Membership'
  BY MembershipStep
<1>3. Membership => InFlightRecoverable
  BY DEF Membership
<1>4. QED
  BY <1>1, <1>2, <1>3, TypeCorrect, PTL DEF Spec
---------------------------------------------------------------------------
(* A message that waits is where its status says. *)

Waiting(L, S) ==
    \A m \in Messages :
        /\ L["requeued"][m] > 0 <=> S[m] = "UnackRequeuing"
        /\ L["delayed"][m] > 0 <=> S[m] = "UnackDelaying"
        /\ L["scheduled"][m] > 0 <=> S[m] = "Scheduled"

(* The new place l of a message goes with its new status st. *)
Match(l, st) ==
    /\ l = "requeued" <=> st = "UnackRequeuing"
    /\ l = "delayed" <=> st = "UnackDelaying"
    /\ l = "scheduled" <=> st = "Scheduled"

(* B is L with m in place l alone, or nowhere if l is no place. *)
Alone(L, B, m, l) ==
    \A j \in Places, n \in Messages :
        B[j][n] = IF n = m THEN (IF j = l THEN 1 ELSE 0) ELSE L[j][n]

(* A message that is in the pending list or in a processing list does not wait. *)
LEMMA FoundIsNotWaiting ==
    ASSUME NEW L \in ListsType, NEW S \in StatusType, Ledger(L, S), Waiting(L, S),
           NEW m \in Messages, NEW k \in Consumers \cup {"pending"}, L[k][m] > 0
    PROVE  S[m] \notin {"UnackRequeuing", "UnackDelaying", "Scheduled"}
BY PlaceFacts, KeyFacts DEF Ledger, Waiting

(* It stays where its status says, in every step. *)
LEMMA WaitingStep ==
    ASSUME TypeOK, Ledger(lists, status), Waiting(lists, status), [Next]_vars
    PROVE  Waiting(lists', status')
<1> DEFINE Goal == Waiting(lists', status')
<1> USE DEF store
<1>t. lists \in ListsType /\ status \in StatusType
  BY DEF TypeOK, ListsType, StatusType
<1>u. ASSUME UNCHANGED <<lists, status>> PROVE Goal
  BY <1>u
<1>w. ASSUME NEW m \in Messages, NEW l \in Keys, NEW st \in Statuses, Match(l, st),
             status' = [status EXCEPT ![m] = st], Alone(lists, lists', m, l)
      PROVE  Goal
  <2>1. {"requeued", "delayed", "scheduled"} \subseteq Places
    BY PlaceFacts
  <2>2. \A n \in Messages : status'[n] = IF n = m THEN st ELSE status[n]
    BY <1>t, <1>w DEF StatusType
  <2>3. QED
    BY <1>w, <2>1, <2>2, SMTT(30) DEF Waiting, Match, Alone
<1>m. ASSUME NEW m \in Messages, NEW k \in Places, NEW l \in Places, k # l, lists[k][m] > 0,
             lists' = Move(lists, k, l, m), NEW st \in Statuses,
             status' = [status EXCEPT ![m] = st], Match(l, st)
      PROVE  Goal
  <2>1. Alone(lists, lists', m, l) /\ l \in Keys
    BY <1>m, <1>t, MoveInLedger, PlaceFacts, SMTT(30) DEF Alone
  <2>2. QED
    BY <1>m, <1>w, <2>1
<1>r. ASSUME NEW m \in Messages, NEW c \in Consumers, lists[c][m] > 0, lists' = Rem(lists, c, m),
             NEW st \in {"Acknowledged", "DeadLettered"}, status' = [status EXCEPT ![m] = st]
      PROVE  Goal
  <2>1. "published" \notin Places /\ "published" \in Keys /\ st \in Statuses
    BY KeyFacts DEF Statuses
  <2>2. Alone(lists, lists', m, "published")
    BY <1>r, <1>t, <2>1, RemInLedger, SMTT(30) DEF Alone
  <2>3. Match("published", st)
    BY DEF Match
  <2>4. QED
    BY <1>r, <1>w, <2>1, <2>2, <2>3
<1> HIDE DEF Goal
<1>0. CASE UNCHANGED vars
  <2>1. UNCHANGED <<lists, status>>
    BY <1>0 DEF vars
  <2>2. QED
    BY <2>1, <1>u DEF Goal
<1>p. ASSUME NEW m \in Messages, NEW st \in {"Pending", "Scheduled"}, status[m] = "New",
             PublishScript(m, st)
      PROVE  Goal
  <2> DEFINE key == IF st = "Pending" THEN "pending" ELSE "scheduled"
  <2>1. key \in {"pending", "scheduled"} /\ Match(key, st)
    BY DEF Match
  <2>2. lists' = Add(Add(lists, key, m), "published", m) /\ status' = [status EXCEPT ![m] = st]
    BY <1>p DEF PublishScript
  <2> HIDE DEF key
  <2>3. \A j \in Places, n \in Messages :
           /\ n = m => lists[j][n] = 0
           /\ lists'[j][n] = IF j = key /\ n = m THEN 1 ELSE lists[j][n]
    BY <1>p, <1>t, <2>1, <2>2, AddInLedger, SMTT(30)
  <2>4. Alone(lists, lists', m, key) /\ key \in Keys /\ st \in Statuses
    BY <2>1, <2>3, KeyFacts, SMTT(30) DEF Alone, Statuses
  <2>5. QED
    BY <1>w, <2>1, <2>2, <2>4
<1>1. ASSUME \/ \E m \in Messages : Publish(m)
             \/ \E o, m \in Messages : RequeueMessage(o, m)
      PROVE  Goal
  BY <1>1, <1>p DEF Publish, RequeueMessage, RequeueMessageScript
<1>2. ASSUME NEW m \in Messages, DeleteMessage(m) PROVE Goal
  <2>1. CASE status[m] = "UnackDelaying"
    BY <1>2, <1>u, <2>1 DEF DeleteMessage, DeleteMessageScript
  <2>2. CASE status[m] # "UnackDelaying"
    <3> DEFINE home == HomeOf[status[m]]
               A == Rem(lists, home, m)
               B == Rem(A, "published", m)
    <3>1. home \in Keys /\ "published" \in Keys
      BY <1>2, KeyFacts, SMTT(30) DEF DeleteMessage, DeleteMessageScript, HomeOf
    <3>2. /\ status[m] = "UnackRequeuing" => home = "requeued"
          /\ status[m] = "Scheduled" => home = "scheduled"
      BY SMTT(30) DEF HomeOf
    <3> HIDE DEF home
    <3>3. /\ A \in ListsType
          /\ \A j \in Keys, n \in Messages :
                A[j][n] = IF j = home /\ n = m
                          THEN IF lists[home][m] > 0 THEN lists[home][m] - 1 ELSE 0
                          ELSE lists[j][n]
      BY <3>1, <1>t, RemContents, SMTT(30)
    <3> HIDE DEF A
    <3>4. /\ B \in ListsType
          /\ \A j \in Keys, n \in Messages :
                B[j][n] = IF j = "published" /\ n = m
                          THEN IF A["published"][m] > 0 THEN A["published"][m] - 1 ELSE 0
                          ELSE A[j][n]
      BY <3>1, <3>3, RemContents, SMTT(30)
    <3> HIDE DEF B
    <3>5. lists' = B /\ status' = [status EXCEPT ![m] = "Deleted"]
      BY <1>2, <2>2 DEF DeleteMessage, DeleteMessageScript, A, B, home
    <3>6. \A n \in Messages : status'[n] = IF n = m THEN "Deleted" ELSE status[n]
      BY <1>t, <3>5 DEF StatusType
    <3>7. \A j \in {"requeued", "delayed", "scheduled"} :
             /\ j \in Keys /\ j \in Places /\ j # "published"
             /\ \A n \in Messages : lists[j][n] \in Nat /\ lists[j][n] <= 1
      BY <1>t, KeyFacts, PlaceFacts, SMTT(30) DEF ListsType, Ledger
    <3>8. \A j \in {"requeued", "delayed", "scheduled"}, n \in Messages :
             /\ n # m => B[j][n] = lists[j][n]
             /\ B[j][m] = IF j = home THEN 0 ELSE lists[j][m]
      BY <3>3, <3>4, <3>7, SMTT(30)
    <3>9. \A j \in {"requeued", "delayed", "scheduled"} : B[j][m] = 0
      BY <2>2, <3>2, <3>7, <3>8, SMTT(30) DEF Waiting
    <3>10. QED
      BY <3>5, <3>6, <3>8, <3>9, SMTT(30) DEF Waiting, Goal
  <2>3. QED
    BY <2>1, <2>2
<1>3. ASSUME NEW c \in Consumers, NEW m \in Messages, Pop(c, m) PROVE Goal
  <2>1. /\ lists["pending"][m] > 0 /\ lists' = Move(lists, "pending", c, m)
        /\ status' = [status EXCEPT ![m] = status[m]] /\ status[m] \in Statuses
    BY <1>3, <1>t DEF Pop, StatusType
  <2>2. "pending" \in Places /\ c \in Places /\ c # "pending"
    BY PlaceFacts, KeyFacts
  <2>3. Match(c, status[m])
    BY <1>t, <2>1, FoundIsNotWaiting, KeyFacts DEF Match
  <2>4. QED
    BY <1>m, <2>1, <2>2, <2>3
<1>4. ASSUME NEW c \in Consumers, Checkout(c) PROVE Goal
  <2> DEFINE m == envelope[c].msg
  <2>1. /\ m \in Messages /\ status[m] = "Pending" /\ lists' = lists
        /\ status' = [status EXCEPT ![m] = "Processing"]
    BY <1>4 DEF TypeOK, Checkout, CheckoutScript
  <2> HIDE DEF m
  <2>2. \A n \in Messages : status'[n] = IF n = m THEN "Processing" ELSE status[n]
    BY <1>t, <2>1 DEF StatusType
  <2>3. QED
    BY <2>1, <2>2, SMTT(30) DEF Waiting, Goal
<1>5. ASSUME NEW call \in ackCalls, Acknowledge(call) \/ AcknowledgeFails(call) PROVE Goal
  <2> DEFINE c == call.owner
             m == call.msg
  <2>1. c \in Consumers /\ m \in Messages /\ c \in Places /\ "acknowledged" \in Places /\ c # "acknowledged"
    BY PlaceFacts, KeyFacts DEF TypeOK
  <2>2. AcknowledgeScript(c, m) \/ UNCHANGED store
    BY <1>5 DEF Acknowledge, AcknowledgeFails
  <2> HIDE DEF c, m
  <2>3. CASE UNCHANGED store
    BY <1>u, <2>3
  <2>4. CASE lists[c][m] > 0 /\ AcknowledgeScript(c, m) /\ StoreAcknowledged
    BY <1>m, <2>1, <2>4, SMTT(30) DEF AcknowledgeScript, Match, Statuses
  <2>5. CASE lists[c][m] > 0 /\ AcknowledgeScript(c, m) /\ ~StoreAcknowledged
    BY <1>r, <2>1, <2>5 DEF AcknowledgeScript
  <2>6. QED
    BY <2>2, <2>3, <2>4, <2>5 DEF AcknowledgeScript
<1>6. ASSUME NEW call \in unackCalls, Unacknowledge(call) \/ UnacknowledgeFails(call) PROVE Goal
  <2> DEFINE c == call.owner
             m == call.msg
  <2>1. /\ c \in Consumers /\ m \in Messages /\ c \in Places
        /\ "requeued" \in Places /\ "deadLettered" \in Places
        /\ c # "requeued" /\ c # "deadLettered"
    BY PlaceFacts, KeyFacts DEF TypeOK
  <2>2. \/ UNCHANGED <<lists, status>>
        \/ lists[c][m] > 0 /\ \/ /\ lists' = Move(lists, c, "requeued", m)
                                 /\ status' = [status EXCEPT ![m] = "UnackRequeuing"]
                              \/ /\ lists' = Move(lists, c, "deadLettered", m)
                                 /\ status' = [status EXCEPT ![m] = "DeadLettered"]
                              \/ /\ lists' = Rem(lists, c, m)
                                 /\ status' = [status EXCEPT ![m] = "DeadLettered"]
    BY <1>6 DEF Unacknowledge, UnacknowledgeFails, UnacknowledgeScript
  <2>3. /\ Match("requeued", "UnackRequeuing") /\ Match("deadLettered", "DeadLettered")
        /\ {"UnackRequeuing", "DeadLettered"} \subseteq Statuses
    BY DEF Match, Statuses
  <2> HIDE DEF c, m
  <2>4. QED
    BY <1>u, <1>m, <1>r, <2>1, <2>2, <2>3
<1>7. ASSUME NEW m \in Messages,
             RequeueImmediate(m) \/ RequeueDelayed(m) \/ PublishScheduled(m)
      PROVE  Goal
  <2>1. \E k \in {"requeued", "delayed", "scheduled"} :
           /\ lists[k][m] > 0
           /\ \/ /\ k # "pending" /\ lists' = Move(lists, k, "pending", m)
                 /\ status' = [status EXCEPT ![m] = "Pending"]
              \/ /\ k # "delayed" /\ lists' = Move(lists, k, "delayed", m)
                 /\ status' = [status EXCEPT ![m] = "UnackDelaying"]
    BY <1>7 DEF RequeueImmediate, RequeueImmediateScript, RequeueDelayed,
       RequeueDelayedScript, PublishScheduled, PublishScheduledScript
  <2>2. /\ Match("pending", "Pending") /\ Match("delayed", "UnackDelaying")
        /\ {"Pending", "UnackDelaying"} \subseteq Statuses
    BY DEF Match, Statuses
  <2>3. {"requeued", "delayed", "scheduled", "pending"} \subseteq Places
    BY PlaceFacts
  <2>4. QED
    BY <1>m, <2>1, <2>2, <2>3
<1>8. ASSUME \/ \E m \in Messages : ExpireTTL(m)
             \/ \E s \in OperationalStates : SetQueueState(s)
             \/ \E c \in Consumers : ConsumerStep(c)
             \/ \E c \in Consumers : \/ CheckoutRejected(c) \/ CheckoutMissed(c) \/ Timeout(c)
                                     \/ HandlerSucceeds(c) \/ HandlerFails(c)
             \/ \E w, c \in Consumers : ReapDetect(w, c)
             \/ \E w \in Consumers : ReapLoad(w) \/ ReapUnsubscribe(w)
      PROVE  Goal
  BY <1>8, <1>u DEF ExpireTTL, SetQueueState, SetQueueStateScript, ConsumerStep,
     StartConsumer, RestartHandler, RunHandler, SubscribeScript, Beat,
     HeartbeatExpires, StopHandler, ShutdownConsumer, CloseHandler, UnsubscribeScript,
     LoopExit, Crash, CheckoutRejected, CheckoutMissed, Timeout, HandlerSucceeds,
     HandlerFails, ReapDetect, ReapLoad, ReapUnsubscribe
<1>9. QED
  BY <1>0, <1>1, <1>2, <1>3, <1>4, <1>5, <1>6, <1>7, <1>8
     DEF Next, UserStep, LoopStep, CallStep, WorkerStep, Goal

(* The retry and schedule lists hold exactly the messages whose status says so,
   so the scripts that look in the list of the status find the message. *)
THEOREM WaitingIsWhereItSaysHolds == Spec => []WaitingIsWhereItSays
<1>1. Init => Waiting(lists, status)
  BY KeyFacts, SMTT(30) DEF Init, Waiting
<1>2. TypeOK /\ Ledger(lists, status) /\ Waiting(lists, status) /\ [Next]_vars
         => Waiting(lists, status)'
  BY WaitingStep DEF Waiting
<1>3. Waiting(lists, status) => WaitingIsWhereItSays
  BY DEF Waiting, WaitingIsWhereItSays, Holds
<1>4. QED
  BY <1>1, <1>2, <1>3, LedgerHolds, PTL DEF Spec
===========================================================================
