--------------------------- MODULE CustodyProofs --------------------------
(***************************************************************************)
(* The custody of a message: who has it in hand, how often it is delivered *)
(* and how it is counted.                                                  *)
(***************************************************************************)
EXTENDS MessageLifecycleProofs

USE ZenonT(30)

(***************************************************************************)
(* Who has a message in hand: as long as a consumer is not reaped alive, a *)
(* message its loop works on stays in its processing list and no call      *)
(* about it is under way; so a handler function works alone.               *)
(***************************************************************************)

(* No consumer and no worker will find m. *)
Nowhere(m) == \A k \in WorkPlaces : ~(lists[k][m] > 0)

(* A message moves only from where it is. *)
LEMMA MovesOnly ==
    ASSUME lists \in ListsType, NEW k \in WorkPlaces, NEW l \in Places, k # l,
           NEW n \in Messages, lists[k][n] > 0, lists' = Move(lists, k, l, n)
    PROVE  /\ \A j \in Places, m \in Messages :
                 m # n => lists'[j][m] = lists[j][m]
           /\ \A j \in Places : j # k /\ j # l => lists'[j][n] = lists[j][n]
<1>1. k \in Keys /\ l \in Keys /\ Places \subseteq Keys
  BY PlaceFacts
<1>2. QED
  BY <1>1, MoveContents, SMTT(30)

(* LREM takes an id out of one list and leaves the rest. *)
LEMMA RemovesOnly ==
    ASSUME NEW L \in ListsType, NEW k \in Keys, NEW n \in Messages
    PROVE  /\ Rem(L, k, n) \in ListsType
           /\ \A j \in Keys, m \in Messages :
                 /\ j # k \/ m # n => Rem(L, k, n)[j][m] = L[j][m]
                 /\ Rem(L, k, n)[j][m] <= L[j][m]
<1>1. \A j \in Keys, m \in Messages : L[j][m] \in Nat
  BY DEF ListsType
<1>2. QED
  BY <1>1, RemContents, SMTT(30)

(* What a step does to the places and the status of messages: nothing, a move of a
   message from where it is found, a removal, a publication, or a checkout. *)
Moved(n, k, l) ==
    /\ k \in WorkPlaces /\ l \in Places /\ k # l
    /\ lists[k][n] > 0 /\ lists' = Move(lists, k, l, n)
    /\ \E st : st # "New" /\ (status' = status \/ status' = [status EXCEPT ![n] = st])
Dropped(n, k) ==
    /\ k \in Consumers /\ lists[k][n] > 0 /\ lists' = Rem(lists, k, n)
    /\ \E st : st # "New" /\ status' = [status EXCEPT ![n] = st]
Published(n) ==
    /\ status[n] = "New"
    /\ \E k \in {"pending", "scheduled"}, st \in {"Pending", "Scheduled"} :
          /\ lists' = Add(Add(lists, k, n), "published", n)
          /\ status' = [status EXCEPT ![n] = st]
Erased(n) ==
    /\ status[n] # "Processing"
    /\ \E k \in Places \ Consumers : lists' = Rem(Rem(lists, k, n), "published", n)
    /\ status' = [status EXCEPT ![n] = "Deleted"]
Claimed(n) ==
    /\ lists' = lists
    /\ status' = [status EXCEPT ![n] = "Processing"]

(* The step settles or returns what consumer c holds of m. *)
Settles(c, m) ==
    \/ \E call \in ackCalls : /\ call.owner = c /\ call.msg = m
                              /\ Acknowledge(call) \/ AcknowledgeFails(call)
    \/ \E call \in unackCalls : call.owner = c /\ call.msg = m /\ Unacknowledge(call)

(* No step does anything else with the store. *)
LEMMA StoreEffects ==
    ASSUME TypeOK, [Next]_vars
    PROVE  \/ UNCHANGED <<lists, status>>
           \/ \E n \in Messages :
                 \/ Published(n) \/ Erased(n) \/ Claimed(n)
                 \/ \E k \in WorkPlaces \ Consumers, l \in Places : Moved(n, k, l)
                 \/ \E k \in Consumers : /\ Settles(k, n)
                                         /\ Dropped(n, k) \/ \E l \in Places \ Consumers : Moved(n, k, l)
<1> DEFINE Goal ==
         \/ UNCHANGED <<lists, status>>
         \/ \E n \in Messages :
               \/ Published(n) \/ Erased(n) \/ Claimed(n)
               \/ \E k \in WorkPlaces \ Consumers, l \in Places : Moved(n, k, l)
               \/ \E k \in Consumers : /\ Settles(k, n)
                                       /\ Dropped(n, k) \/ \E l \in Places \ Consumers : Moved(n, k, l)
<1> USE DEF store
<1>k. /\ {"pending", "requeued", "delayed", "scheduled"} \subseteq WorkPlaces \ Consumers
      /\ {"pending", "requeued", "delayed", "scheduled", "acknowledged", "deadLettered"}
             \subseteq Places \ Consumers
      /\ Consumers \subseteq WorkPlaces /\ WorkPlaces \subseteq Places
  BY PlaceFacts, KeyFacts DEF Places, QueueLists, SortedSets
<1>u. ASSUME UNCHANGED <<lists, status>> PROVE Goal
  BY <1>u
<1>p. ASSUME NEW m \in Messages, NEW st \in {"Pending", "Scheduled"}, status[m] = "New",
             PublishScript(m, st)
      PROVE  Goal
  <2>1. Published(m)
    BY <1>p DEF PublishScript, Published
  <2>2. QED
    BY <2>1
<1>1. ASSUME NEW m \in Messages, Publish(m) PROVE Goal
  BY <1>1, <1>p DEF Publish
<1>2. ASSUME NEW o \in Messages, NEW m \in Messages, RequeueMessage(o, m) PROVE Goal
  BY <1>2, <1>p DEF RequeueMessage, RequeueMessageScript
<1>3. ASSUME NEW m \in Messages, DeleteMessage(m) PROVE Goal
  <2>1. CASE status[m] = "UnackDelaying"
    BY <1>3, <1>u, <2>1 DEF DeleteMessage, DeleteMessageScript
  <2>2. CASE status[m] # "UnackDelaying"
    <3>1. /\ HomeOf[status[m]] \in Places \ Consumers /\ status[m] # "Processing"
      BY <1>3, <1>k, <2>2, SMTT(30) DEF DeleteMessage, DeleteMessageScript, HomeOf
    <3>2. Erased(m)
      BY <1>3, <2>2, <3>1 DEF DeleteMessage, DeleteMessageScript, Erased
    <3>3. QED
      BY <3>2
  <2>3. QED
    BY <2>1, <2>2
<1>4. ASSUME NEW c \in Consumers, Checkout(c) PROVE Goal
  <2>1. PICK m \in Messages : m = envelope[c].msg
    BY <1>4 DEF Checkout, TypeOK
  <2>2. Claimed(m)
    BY <1>4, <2>1 DEF Checkout, CheckoutScript, Claimed
  <2>3. QED
    BY <2>2
<1>5. ASSUME NEW c \in Consumers, NEW m \in Messages, Pop(c, m) PROVE Goal
  <2>1. Moved(m, "pending", c)
    BY <1>5, <1>k, KeyFacts DEF Pop, Moved
  <2>2. QED
    BY <1>k, <2>1
<1>6. ASSUME NEW call \in ackCalls, Acknowledge(call) \/ AcknowledgeFails(call) PROVE Goal
  <2>1. /\ call.owner \in Consumers /\ call.msg \in Messages /\ Settles(call.owner, call.msg)
    BY <1>6 DEF TypeOK, Settles
  <2>2. AcknowledgeScript(call.owner, call.msg) \/ UNCHANGED store
    BY <1>6 DEF Acknowledge, AcknowledgeFails
  <2>3. CASE AcknowledgeScript(call.owner, call.msg) /\ lists[call.owner][call.msg] > 0
    <3>1. Dropped(call.msg, call.owner) \/ Moved(call.msg, call.owner, "acknowledged")
      BY <1>k, <2>1, <2>3, KeyFacts DEF AcknowledgeScript, Dropped, Moved
    <3>2. QED
      BY <1>k, <2>1, <3>1
  <2>4. QED
    BY <1>u, <2>2, <2>3 DEF AcknowledgeScript
<1>7. ASSUME NEW call \in unackCalls, Unacknowledge(call) PROVE Goal
  <2>1. /\ call.owner \in Consumers /\ call.msg \in Messages /\ Settles(call.owner, call.msg)
    BY <1>7 DEF TypeOK, Settles
  <2>2. UnacknowledgeScript(call) \/ UNCHANGED store
    BY <1>7 DEF Unacknowledge
  <2>3. CASE UnacknowledgeScript(call) /\ lists[call.owner][call.msg] > 0
    <3>1. \/ Dropped(call.msg, call.owner) \/ Moved(call.msg, call.owner, "deadLettered")
          \/ Moved(call.msg, call.owner, "requeued")
      BY <1>k, <2>1, <2>3, KeyFacts DEF UnacknowledgeScript, Dropped, Moved
    <3>2. QED
      BY <1>k, <2>1, <3>1
  <2>4. QED
    BY <1>u, <2>2, <2>3 DEF UnacknowledgeScript
<1>8. ASSUME NEW m \in Messages,
             RequeueImmediate(m) \/ RequeueDelayed(m) \/ PublishScheduled(m)
      PROVE  Goal
  <2>1. \/ Moved(m, "requeued", "pending") \/ Moved(m, "requeued", "delayed")
        \/ Moved(m, "delayed", "pending") \/ Moved(m, "scheduled", "pending")
    BY <1>8, <1>k DEF RequeueImmediate, RequeueImmediateScript, RequeueDelayed,
       RequeueDelayedScript, PublishScheduled, PublishScheduledScript, Moved
  <2>2. QED
    BY <1>k, <2>1
<1>9. ASSUME \/ UNCHANGED vars
             \/ \E m \in Messages : ExpireTTL(m)
             \/ \E s \in OperationalStates : SetQueueState(s)
             \/ \E c \in Consumers : ConsumerStep(c)
             \/ \E c \in Consumers : \/ CheckoutRejected(c) \/ CheckoutMissed(c) \/ Timeout(c)
                                     \/ HandlerFails(c) \/ HandlerSucceeds(c)
             \/ \E call \in unackCalls : UnacknowledgeFails(call)
             \/ \E w, c \in Consumers : ReapDetect(w, c)
             \/ \E w \in Consumers : ReapLoad(w) \/ ReapUnsubscribe(w)
      PROVE  Goal
  <2>1. UNCHANGED <<lists, status>>
    BY <1>9 DEF vars, ExpireTTL, SetQueueState, ConsumerStep,
       StartConsumer, RestartHandler, RunHandler, Beat,
       HeartbeatExpires, StopHandler, ShutdownConsumer, CloseHandler,
       LoopExit, Crash, CheckoutRejected, CheckoutMissed, Timeout, HandlerFails,
       HandlerSucceeds, UnacknowledgeFails, ReapDetect, ReapLoad, ReapUnsubscribe
  <2>2. QED
    BY <1>u, <2>1
<1>10. QED
  BY <1>1, <1>2, <1>3, <1>4, <1>5, <1>6, <1>7, <1>8, <1>9
     DEF Next, UserStep, LoopStep, CallStep, WorkerStep

(* An added id leaves the others where they are. *)
LEMMA AddAside ==
    ASSUME NEW L \in ListsType, NEW k \in Keys, NEW n \in Messages
    PROVE  /\ Add(L, k, n) \in ListsType
           /\ \A j \in Keys, i \in Messages : i # n => Add(L, k, n)[j][i] = L[j][i]
BY AddContents, SMTT(30)

(* What a consumer holds stays with it, and stays claimed, until a call settles or
   returns it. *)
LEMMA HeldStays ==
    ASSUME TypeOK, Ledger(lists, status), [Next]_vars,
           NEW c \in Consumers, NEW m \in Messages, lists[c][m] > 0, ~Settles(c, m)
    PROVE  /\ lists'[c][m] > 0
           /\ status[m] = "Processing" => status'[m] = "Processing"
<1> DEFINE Goal == /\ lists'[c][m] > 0
                   /\ status[m] = "Processing" => status'[m] = "Processing"
<1>t. /\ lists \in ListsType /\ status \in [Messages -> Statuses]
      /\ c \in WorkPlaces /\ c \in Places /\ c \in Keys /\ c # "published"
      /\ status[m] # "New" /\ lists[c][m] \in Nat
  <2>1. c \in WorkPlaces /\ c \in Places /\ c \in Keys /\ c # "published"
    BY PlaceFacts, KeyFacts
  <2>2. lists \in ListsType /\ status \in [Messages -> Statuses] /\ lists[c][m] \in Nat
    BY <2>1, SMTT(30) DEF TypeOK, ListsType
  <2>3. status[m] # "New"
    BY <2>1, <2>2, FoundIsUnsettled DEF StatusType
  <2>4. QED
    BY <2>1, <2>2, <2>3
<1>1. CASE UNCHANGED <<lists, status>>
  BY <1>1
<1>2. ASSUME NEW n \in Messages, Published(n) PROVE Goal
  <2>1. PICK k \in {"pending", "scheduled"}, st \in {"Pending", "Scheduled"} :
           /\ lists' = Add(Add(lists, k, n), "published", n)
           /\ status' = [status EXCEPT ![n] = st]
    BY <1>2 DEF Published
  <2>2. n # m
    BY <1>2, <1>t DEF Published
  <2>3. k \in Keys /\ "published" \in Keys
    BY KeyFacts
  <2>4. Add(lists, k, n) \in ListsType /\ Add(lists, k, n)[c][m] = lists[c][m]
    BY <1>t, <2>2, <2>3, AddAside
  <2>5. lists'[c][m] = lists[c][m]
    <3>1. \A j \in Keys, i \in Messages : i # n =>
             Add(Add(lists, k, n), "published", n)[j][i] = Add(lists, k, n)[j][i]
      BY <2>3, <2>4, AddAside
    <3>2. QED
      BY <1>t, <2>1, <2>2, <2>4, <3>1
  <2>6. QED
    BY <1>t, <2>1, <2>2, <2>5
<1>3. ASSUME NEW n \in Messages, Erased(n) PROVE Goal
  <2>1. PICK k \in Places \ Consumers : lists' = Rem(Rem(lists, k, n), "published", n)
    BY <1>3 DEF Erased
  <2>2. k \in Keys /\ "published" \in Keys /\ k # c
    BY KeyFacts
  <2>3. Rem(lists, k, n) \in ListsType /\ Rem(lists, k, n)[c][m] = lists[c][m]
    BY <1>t, <2>2, RemovesOnly, SMTT(30)
  <2>4. lists'[c][m] = lists[c][m]
    BY <1>t, <2>1, <2>2, <2>3, RemovesOnly, SMTT(30)
  <2>5. QED
    BY <1>3, <1>t, <2>4 DEF Erased
<1>4. ASSUME NEW n \in Messages, Claimed(n) PROVE Goal
  BY <1>4, <1>t DEF Claimed
<1>5. ASSUME NEW n \in Messages, NEW k \in WorkPlaces, NEW l \in Places, Moved(n, k, l),
             k # c \/ n # m
      PROVE  Goal
  <2>1. n # m
    BY <1>5, <1>t, PlaceFacts DEF Moved, Ledger
  <2>2. lists'[c][m] = lists[c][m]
    BY <1>5, <1>t, <2>1, MovesOnly, SMTT(30) DEF Moved
  <2>3. QED
    BY <1>5, <1>t, <2>1, <2>2 DEF Moved
<1>6. ASSUME NEW n \in Messages, NEW k \in Consumers, Dropped(n, k), k # c \/ n # m
      PROVE  Goal
  <2>1. n # m
    BY <1>6, <1>t, PlaceFacts DEF Dropped, Ledger
  <2>2. lists'[c][m] = lists[c][m]
    <3>1. lists' = Rem(lists, k, n) /\ k \in Keys
      BY <1>6, KeyFacts DEF Dropped
    <3>2. \A j \in Keys, i \in Messages : i # n => lists'[j][i] = lists[j][i]
      BY <1>t, <3>1, RemovesOnly, SMTT(30)
    <3>3. QED
      BY <1>t, <2>1, <3>2
  <2>3. QED
    BY <1>6, <1>t, <2>1, <2>2 DEF Dropped
<1>7. QED
  <2>1. Consumers \subseteq WorkPlaces
    BY PlaceFacts
  <2>2. QED
    BY <1>1, <1>2, <1>3, <1>4, <1>5, <1>6, <2>1, StoreEffects

(* A message that left every list the system works from does not come back. *)
LEMMA NowhereStays ==
    ASSUME TypeOK, [Next]_vars, NEW m \in Messages, Nowhere(m), status[m] # "New"
    PROVE  Nowhere(m)' /\ status'[m] # "New"
<1> DEFINE Goal == Nowhere(m)' /\ status'[m] # "New"
<1>t. /\ lists \in ListsType /\ status \in [Messages -> Statuses]
      /\ WorkPlaces \subseteq Places /\ WorkPlaces \subseteq Keys /\ "published" \notin WorkPlaces
      /\ Places \subseteq Keys /\ Consumers \subseteq WorkPlaces
      /\ WorkPlaces' = WorkPlaces
  BY PlaceFacts, KeyFacts DEF TypeOK, ListsType, WorkPlaces
<1>n. \A k \in WorkPlaces : lists[k][m] \in Nat
  BY <1>t DEF ListsType
<1>s. ASSUME \A k \in WorkPlaces : lists'[k][m] <= lists[k][m] /\ lists'[k][m] \in Nat,
             status'[m] # "New"
      PROVE  Goal
  BY <1>s, <1>n, <1>t, SMTT(30) DEF Nowhere
<1>1. CASE UNCHANGED <<lists, status>>
  BY <1>1, <1>n, <1>s, SMTT(30)
<1>2. ASSUME NEW n \in Messages, Published(n) PROVE Goal
  <2>1. PICK k \in {"pending", "scheduled"}, st \in {"Pending", "Scheduled"} :
           /\ lists' = Add(Add(lists, k, n), "published", n)
           /\ status' = [status EXCEPT ![n] = st]
    BY <1>2 DEF Published
  <2>2. n # m
    BY <1>2 DEF Published
  <2>3. k \in Keys /\ "published" \in Keys
    BY KeyFacts
  <2>4. Add(lists, k, n) \in ListsType /\ \A j \in WorkPlaces : Add(lists, k, n)[j][m] = lists[j][m]
    BY <1>t, <2>2, <2>3, AddContents, SMTT(30)
  <2>5. \A j \in WorkPlaces : lists'[j][m] = lists[j][m]
    BY <1>t, <2>1, <2>2, <2>3, <2>4, AddContents, SMTT(30)
  <2>6. QED
    BY <1>n, <1>s, <1>t, <2>1, <2>2, <2>5, SMTT(30)
<1>3. ASSUME NEW n \in Messages, Erased(n) PROVE Goal
  <2>1. PICK k \in Places \ Consumers : lists' = Rem(Rem(lists, k, n), "published", n)
    BY <1>3 DEF Erased
  <2>2. k \in Keys /\ "published" \in Keys
    BY <1>t, KeyFacts
  <2>3. /\ Rem(lists, k, n) \in ListsType /\ lists' \in ListsType
        /\ \A j \in WorkPlaces : Rem(lists, k, n)[j][m] <= lists[j][m]
        /\ \A j \in WorkPlaces : lists'[j][m] <= Rem(lists, k, n)[j][m]
    BY <1>t, <2>1, <2>2, RemovesOnly
  <2>4. \A j \in WorkPlaces : Rem(lists, k, n)[j][m] \in Nat /\ lists'[j][m] \in Nat
    BY <1>t, <2>3, SMTT(30) DEF ListsType
  <2>5. \A j \in WorkPlaces : lists'[j][m] <= lists[j][m]
    BY <1>n, <2>3, <2>4, SMTT(30)
  <2>6. QED
    BY <1>3, <1>s, <1>t, <2>4, <2>5 DEF Erased
<1>4. ASSUME NEW n \in Messages, Claimed(n) PROVE Goal
  BY <1>4, <1>n, <1>s, <1>t, SMTT(30) DEF Claimed
<1>5. ASSUME NEW n \in Messages, NEW k \in WorkPlaces, NEW l \in Places, Moved(n, k, l)
      PROVE  Goal
  <2>1. n # m
    BY <1>5 DEF Moved, Nowhere
  <2>2. \A j \in WorkPlaces : lists'[j][m] = lists[j][m]
    BY <1>5, <1>t, <2>1, MovesOnly, SMTT(30) DEF Moved
  <2>3. QED
    BY <1>5, <1>n, <1>s, <1>t, <2>1, <2>2, SMTT(30) DEF Moved
<1>6. ASSUME NEW n \in Messages, NEW k \in Consumers, Dropped(n, k) PROVE Goal
  <2>1. n # m
    BY <1>6, <1>t DEF Dropped, Nowhere
  <2>2. \A j \in WorkPlaces : lists'[j][m] = lists[j][m]
    BY <1>6, <1>t, <2>1, RemovesOnly, SMTT(30) DEF Dropped
  <2>3. QED
    BY <1>6, <1>n, <1>s, <1>t, <2>1, <2>2, SMTT(30) DEF Dropped
<1>7. QED
  BY <1>1, <1>2, <1>3, <1>4, <1>5, <1>6, <1>t, StoreEffects
---------------------------------------------------------------------------
(* Custody: the loop of a consumer that can still act has in hand only what its
   processing list holds, there is at most one call about a message it holds, and
   a call about a message it does not hold is about a message that is nowhere. *)

Acts(c) == consumer[c] \in {"new", "up"} \/ pc[c] # "off"
InHand(c, m) == pc[c] \in {"popped", "handling"} /\ envelope[c].msg = m
Acks(c, m) == {call \in ackCalls : call.owner = c /\ call.msg = m}
Unacks(c, m) == {call \in unackCalls : call.owner = c /\ call.msg = m}

Kept(c, m) ==
    /\ InHand(c, m) => lists[c][m] > 0 /\ Acks(c, m) = {} /\ Unacks(c, m) = {}
    /\ InHand(c, m) /\ pc[c] = "handling" => status[m] = "Processing"
    /\ Acks(c, m) # {} => Unacks(c, m) = {}
    /\ \A u, v \in Unacks(c, m) : u = v
    /\ Acks(c, m) # {} \/ Unacks(c, m) # {} =>
          lists[c][m] > 0 \/ (Nowhere(m) /\ status[m] # "New")

Custody == \A c \in Consumers \ suspected, m \in Messages \ ConsumeTimeout :
              Acts(c) => Kept(c, m)

(* A call that settles a message is gone after that. *)
LEMMA SettlesConsumes ==
    ASSUME NEW c, NEW m, Acks(c, m) \subseteq ackCalls', Unacks(c, m) \subseteq unackCalls'
    PROVE  ~Settles(c, m)
<1>1. \A call \in ackCalls : Acknowledge(call) \/ AcknowledgeFails(call) => call \notin ackCalls'
  BY DEF Acknowledge, AcknowledgeFails
<1>2. \A call \in unackCalls : Unacknowledge(call) => call \notin unackCalls'
  BY DEF Unacknowledge
<1>3. QED
  BY <1>1, <1>2 DEF Settles, Acks, Unacks

(* What a step must not do to leave m in the custody of c. *)
LEMMA KeptFrame ==
    ASSUME TypeOK, [Next]_vars, NEW c \in Consumers, NEW m \in Messages, Kept(c, m),
           lists[c][m] > 0 => /\ lists'[c][m] > 0
                              /\ status[m] = "Processing" => status'[m] = "Processing",
           InHand(c, m)' => InHand(c, m) /\ (pc'[c] = "handling" => pc[c] = "handling"),
           Acks(c, m)' \subseteq Acks(c, m), Unacks(c, m)' \subseteq Unacks(c, m)
    PROVE  Kept(c, m)'
<1>1. Nowhere(m) /\ status[m] # "New" => Nowhere(m)' /\ status'[m] # "New"
  BY NowhereStays
<1>2. InHand(c, m)' => lists'[c][m] > 0 /\ Acks(c, m)' = {} /\ Unacks(c, m)' = {}
  BY DEF Kept
<1>3. InHand(c, m)' /\ pc'[c] = "handling" => status'[m] = "Processing"
  BY DEF Kept
<1>4. /\ Acks(c, m)' # {} => Unacks(c, m)' = {}
      /\ \A u, v \in Unacks(c, m)' : u = v
  BY DEF Kept
<1>5. Acks(c, m)' # {} \/ Unacks(c, m)' # {} =>
         lists'[c][m] > 0 \/ (Nowhere(m)' /\ status'[m] # "New")
  BY <1>1 DEF Kept
<1>6. QED
  BY <1>2, <1>3, <1>4, <1>5 DEF Kept

(* A step that consumes no call about m at c. *)
LEMMA KeptAside ==
    ASSUME TypeOK, Ledger(lists, status), [Next]_vars,
           NEW c \in Consumers, NEW m \in Messages, Kept(c, m),
           InHand(c, m)' => InHand(c, m) /\ (pc'[c] = "handling" => pc[c] = "handling"),
           Acks(c, m)' = Acks(c, m), Unacks(c, m)' = Unacks(c, m)
    PROVE  Kept(c, m)'
<1>1. ~Settles(c, m)
  BY SettlesConsumes DEF Acks, Unacks
<1>2. lists[c][m] > 0 => /\ lists'[c][m] > 0
                         /\ status[m] = "Processing" => status'[m] = "Processing"
  BY <1>1, HeldStays
<1>3. QED
  BY <1>2, KeptFrame

(* Nobody who could not act any more acts again, and suspicion is for good. *)
LEMMA ActedBefore ==
    ASSUME TypeOK, [Next]_vars, NEW c \in Consumers
    PROVE  (Acts(c)' => Acts(c)) /\ suspected \subseteq suspected'
<1> DEFINE Goal == (Acts(c)' => Acts(c)) /\ suspected \subseteq suspected'
<1>t. /\ consumer \in [Consumers -> {"new", "up", "down", "crashed"}]
      /\ pc \in [Consumers -> {"off", "idle", "popped", "handling"}]
  BY DEF TypeOK
<1>1. ASSUME UNCHANGED <<consumer, pc>>, suspected \subseteq suspected' PROVE Goal
  BY <1>1 DEF Acts
<1>2. ASSUME NEW d \in Consumers, StartConsumer(d) \/ RestartHandler(d) PROVE Goal
  BY <1>2, <1>t DEF StartConsumer, RestartHandler, RunHandler, Acts, history
<1>3. ASSUME NEW d \in Consumers, ShutdownConsumer(d) \/ LoopExit(d) \/ Crash(d) PROVE Goal
  BY <1>3, <1>t DEF ShutdownConsumer, LoopExit, Crash, Acts, history
<1>4. ASSUME NEW d \in Consumers,
             \/ Beat(d) \/ HeartbeatExpires(d) \/ StopHandler(d) \/ CloseHandler(d)
      PROVE  Goal
  BY <1>4, <1>1 DEF Beat, HeartbeatExpires, StopHandler, CloseHandler, loop, history
<1>5. ASSUME NEW d \in Consumers,
             \/ \E m \in Messages : Pop(d, m)
             \/ CheckoutRejected(d) \/ CheckoutMissed(d) \/ Checkout(d)
             \/ Timeout(d) \/ HandlerSucceeds(d) \/ HandlerFails(d)
      PROVE  Goal
  <2>1. suspected' = suspected /\ consumer' = consumer
    BY <1>5 DEF Pop, CheckoutRejected, CheckoutMissed, Checkout, Timeout, HandlerSucceeds,
       HandlerFails, history
  <2>2. pc'[c] # "off" => pc[c] # "off" \/ pc'[c] = pc[c]
    BY <1>5, <1>t DEF Pop, CheckoutRejected, CheckoutMissed, Checkout, Timeout, HandlerSucceeds,
       HandlerFails
  <2>3. QED
    BY <2>1, <2>2 DEF Acts
<1>6. ASSUME UNCHANGED vars \/ UserStep \/ CallStep \/ WorkerStep PROVE Goal
  <2>1. CASE UNCHANGED vars
    BY <1>1, <2>1 DEF vars, loop, history
  <2>2. CASE UserStep
    BY <1>1, <2>2 DEF UserStep, Publish, RequeueMessage, DeleteMessage, ExpireTTL, SetQueueState,
       loop, history
  <2>3. CASE CallStep
    BY <1>1, <2>3 DEF CallStep, Acknowledge, AcknowledgeFails, Unacknowledge, UnacknowledgeFails,
       loop, history
  <2>4. CASE WorkerStep
    <3>1. UNCHANGED <<consumer, pc>>
      BY <2>4 DEF WorkerStep, RequeueImmediate, RequeueDelayed, PublishScheduled, ReapDetect,
         ReapLoad, ReapUnsubscribe, loop
    <3>2. suspected \subseteq suspected'
      BY <2>4 DEF WorkerStep, RequeueImmediate, RequeueDelayed, PublishScheduled, ReapDetect,
         ReapLoad, ReapUnsubscribe, history
    <3>3. QED
      BY <1>1, <3>1, <3>2
  <2>5. QED
    BY <1>6, <2>1, <2>2, <2>3, <2>4
<1>7. QED
  BY <1>2, <1>3, <1>4, <1>5, <1>6 DEF Next, ConsumerStep, LoopStep

(* An acknowledged message is in no list the system works from. *)
LEMMA AckLeavesNothing ==
    ASSUME lists \in ListsType, status \in StatusType, Ledger(lists, status),
           NEW c \in Consumers, NEW m \in Messages,
           lists[c][m] > 0, AcknowledgeScript(c, m)
    PROVE  Nowhere(m)' /\ status'[m] # "New"
<1>1. /\ c \in WorkPlaces /\ c \in Places /\ c \in Keys /\ "acknowledged" \in Keys
      /\ "acknowledged" \notin WorkPlaces /\ c # "acknowledged"
      /\ WorkPlaces \subseteq Keys /\ WorkPlaces \subseteq Places /\ WorkPlaces' = WorkPlaces
  BY PlaceFacts, KeyFacts DEF WorkPlaces
<1>2. /\ \A k \in WorkPlaces \ {c} : ~(lists[k][m] > 0)
      /\ lists[c][m] = 1
  <2>1. lists[c][m] \in Nat /\ lists[c][m] <= 1
    BY <1>1, SMTT(30) DEF Ledger, ListsType
  <2>2. QED
    BY <1>1, <2>1, SMTT(30) DEF Ledger
<1>3. \A k \in WorkPlaces : ~(lists'[k][m] > 0)
  <2>1. CASE lists' = Move(lists, c, "acknowledged", m)
    BY <1>1, <1>2, <2>1, MoveContents, SMTT(30)
  <2>2. CASE lists' = Rem(lists, c, m)
    BY <1>1, <1>2, <2>2, RemContents, SMTT(30)
  <2>3. QED
    BY <2>1, <2>2 DEF AcknowledgeScript
<1>4. status'[m] = "Acknowledged"
  BY DEF AcknowledgeScript, StatusType
<1>5. QED
  BY <1>1, <1>3, <1>4 DEF Nowhere

(* Custody survives every step. *)
LEMMA CustodyStep ==
    ASSUME TypeOK, TypeOK', Ledger(lists, status), Membership, Custody, [Next]_vars
    PROVE  Custody'
<1> SUFFICES ASSUME NEW c \in Consumers \ suspected', NEW m \in Messages \ ConsumeTimeout, Acts(c)'
             PROVE  Kept(c, m)'
  BY DEF Custody
<1> USE DEF store
<1>k. c \in Consumers /\ m \in Messages /\ Kept(c, m) /\ c \notin suspected
  BY ActedBefore DEF Custody
<1>t. /\ pc \in [Consumers -> {"off", "idle", "popped", "handling"}]
      /\ envelope \in [Consumers -> [msg : Messages \cup {NoMessage}, attempts : Nat]]
      /\ lists \in ListsType /\ status \in StatusType
  BY DEF TypeOK, ListsType, StatusType
<1>n. NoMessage # m
  BY ConstantsAssumption
(* A step of the others: the loop of c and the calls about m stay. *)
<1>s. ASSUME InHand(c, m)' => InHand(c, m) /\ (pc'[c] = "handling" => pc[c] = "handling"),
             Acks(c, m)' = Acks(c, m), Unacks(c, m)' = Unacks(c, m)
      PROVE  Kept(c, m)'
  BY <1>k, <1>s, KeptAside
<1>0. CASE UNCHANGED vars
  BY <1>0, <1>s DEF vars, loop, calls, InHand, Acks, Unacks
<1>1. CASE UserStep
  <2>1. UNCHANGED <<pc, envelope, ackCalls, unackCalls>>
    BY <1>1 DEF UserStep, Publish, RequeueMessage, DeleteMessage, ExpireTTL, SetQueueState,
       loop, calls
  <2>2. QED
    BY <1>s, <2>1 DEF InHand, Acks, Unacks
<1>2. ASSUME NEW d \in Consumers, ConsumerStep(d), ~Crash(d) PROVE Kept(c, m)'
  <2>1. UNCHANGED <<ackCalls, unackCalls>>
    BY <1>2 DEF ConsumerStep, StartConsumer, RestartHandler, RunHandler, Beat, HeartbeatExpires,
       StopHandler, ShutdownConsumer, CloseHandler, LoopExit, calls
  <2>2. InHand(c, m)' => InHand(c, m) /\ pc'[c] = pc[c]
    <3>1. CASE StartConsumer(d) \/ RestartHandler(d)
      BY <1>t, <3>1 DEF StartConsumer, RestartHandler, RunHandler, InHand
    <3>2. CASE \/ Beat(d) \/ HeartbeatExpires(d) \/ StopHandler(d) \/ ShutdownConsumer(d)
               \/ CloseHandler(d)
      BY <3>2 DEF Beat, HeartbeatExpires, StopHandler, ShutdownConsumer, CloseHandler, loop, InHand
    <3>3. CASE LoopExit(d)
      BY <1>t, <3>3 DEF LoopExit, InHand
    <3>4. QED
      BY <1>2, <3>1, <3>2, <3>3 DEF ConsumerStep
  <2>3. QED
    BY <1>s, <2>1, <2>2 DEF Acks, Unacks
<1>3. ASSUME NEW d \in Consumers, Crash(d) PROVE Kept(c, m)'
  <2>1. /\ InHand(c, m)' => InHand(c, m) /\ pc'[c] = pc[c]
        /\ Acks(c, m)' \subseteq Acks(c, m) /\ Unacks(c, m)' \subseteq Unacks(c, m)
    BY <1>3, <1>t DEF Crash, InHand, Acks, Unacks
  <2>2. UNCHANGED <<lists, status>>
    BY <1>3 DEF Crash
  <2>3. QED
    BY <1>k, <2>1, <2>2, KeptFrame
<1>4. ASSUME NEW d \in Consumers, NEW n \in Messages, Pop(d, n) PROVE Kept(c, m)'
  <2>1. UNCHANGED <<ackCalls, unackCalls, status>> /\ lists' = Move(lists, "pending", d, n)
        /\ lists["pending"][n] > 0
    BY <1>4 DEF Pop, calls
  <2>2. Acks(c, m)' = Acks(c, m) /\ Unacks(c, m)' = Unacks(c, m)
    BY <2>1 DEF Acks, Unacks
  <2>3. CASE d # c \/ n # m
    <3>1. InHand(c, m)' => InHand(c, m) /\ (pc'[c] = "handling" => pc[c] = "handling")
      BY <1>4, <1>t, <2>3, SMTT(30) DEF Pop, InHand
    <3>2. QED
      BY <1>s, <2>2, <3>1
  <2>4. CASE d = c /\ n = m
    <3>1. "pending" \in WorkPlaces /\ "pending" # c /\ c \in Places /\ "pending" \in Places
      BY <1>k, PlaceFacts, KeyFacts
    <3>2. ~(lists[c][m] > 0) /\ ~Nowhere(m)
      BY <2>1, <2>4, <3>1 DEF Ledger, Nowhere
    <3>3. Acks(c, m)' = {} /\ Unacks(c, m)' = {}
      BY <1>k, <2>2, <3>2 DEF Kept
    <3>4. lists'[c][m] > 0
      <4>1. c \in Keys /\ "pending" \in Keys /\ c \notin SortedSets /\ lists[c][m] \in Nat
        BY <1>k, <1>t, KeyFacts, SMTT(30) DEF ListsType
      <4>2. lists'[c][m] = lists[c][m] + 1
        BY <1>k, <1>t, <2>1, <2>4, <3>1, <4>1, MoveContents, SMTT(30)
      <4>3. QED
        BY <4>1, <4>2, SMTT(30)
    <3>5. pc'[c] # "handling"
      BY <1>4, <1>t, <2>4 DEF Pop
    <3>6. QED
      BY <3>3, <3>4, <3>5 DEF Kept
  <2>5. QED
    BY <2>3, <2>4
<1>5. ASSUME NEW d \in Consumers, Checkout(d) PROVE Kept(c, m)'
  <2>1. ackCalls' = ackCalls /\ unackCalls \subseteq unackCalls' /\ lists' = lists
    BY <1>5 DEF Checkout
  <2>2. CASE d # c \/ envelope[d].msg # m
    <3>1. InHand(c, m)' => InHand(c, m) /\ (pc'[c] = "handling" => pc[c] = "handling")
      BY <1>5, <1>t, <1>n, <2>2, SMTT(30) DEF Checkout, InHand, NoEnvelope
    <3>2. Unacks(c, m)' = Unacks(c, m)
      BY <1>5, <2>2, SMTT(30) DEF Checkout, Unacks, UnackCall
    <3>3. QED
      BY <1>s, <2>1, <3>1, <3>2 DEF Acks
  <2>3. CASE d = c /\ envelope[d].msg = m
    <3>1. lists[c][m] > 0 /\ Acks(c, m) = {} /\ Unacks(c, m) = {}
      BY <1>5, <1>k, <2>3 DEF Checkout, Kept, InHand
    <3>2. /\ Acks(c, m)' = {} /\ lists'[c][m] > 0 /\ status'[m] = "Processing"
      BY <1>5, <1>k, <1>t, <2>1, <2>3, <3>1 DEF Acks, Checkout, CheckoutScript, StatusType
    <3>3. CASE pc' = [pc EXCEPT ![c] = "handling"] /\ UNCHANGED unackCalls
      <4>1. Unacks(c, m)' = {}
        BY <3>1, <3>3 DEF Unacks
      <4>2. QED
        BY <3>2, <4>1 DEF Kept
    <3>4. CASE /\ pc' = [pc EXCEPT ![c] = "idle"]
               /\ \/ unackCalls' = unackCalls \cup {UnackCall(c, c, m, attempts'[m], "TTL_EXPIRED")}
                  \/ UNCHANGED unackCalls
      <4>1. \A u, v \in Unacks(c, m)' : u = v
        BY <3>1, <3>4 DEF Unacks
      <4>2. ~InHand(c, m)'
        BY <1>k, <1>t, <3>4 DEF InHand
      <4>3. QED
        BY <3>2, <4>1, <4>2 DEF Kept
    <3>5. QED
      BY <1>5, <2>3, <3>3, <3>4 DEF Checkout
  <2>4. QED
    BY <2>2, <2>3
<1>6. ASSUME NEW d \in Consumers, CheckoutRejected(d) \/ CheckoutMissed(d) \/ Timeout(d)
             \/ HandlerSucceeds(d) \/ HandlerFails(d)
      PROVE  Kept(c, m)'
  <2> DEFINE n == envelope[d].msg
  <2>1. /\ UNCHANGED <<lists, status>> /\ pc[d] \in {"popped", "handling"}
        /\ \A call \in ackCalls' \ ackCalls : call.owner = d /\ call.msg = n
        /\ \A call \in unackCalls' \ unackCalls : call.owner = d /\ call.msg = n
        /\ ackCalls \subseteq ackCalls' /\ unackCalls \subseteq unackCalls'
    <3>1. CASE CheckoutRejected(d) \/ CheckoutMissed(d) \/ Timeout(d)
      BY <3>1, SMTT(30) DEF CheckoutRejected, CheckoutMissed, Timeout, UnackCall, calls
    <3>2. CASE HandlerSucceeds(d)
      BY <3>2, SMTT(30) DEF HandlerSucceeds, LateTimer, UnackCall, AckCall, calls
    <3>3. CASE HandlerFails(d)
      BY <3>3, SMTT(30) DEF HandlerFails, LateTimer, UnackCall
    <3>4. QED
      BY <1>6, <3>1, <3>2, <3>3
  <2>2. CASE d # c \/ n # m
    <3>1. InHand(c, m)' => InHand(c, m) /\ (pc'[c] = "handling" => pc[c] = "handling")
      BY <1>6, <1>t, <1>n, <2>2 DEF CheckoutRejected, CheckoutMissed, Timeout, HandlerSucceeds,
         HandlerFails, InHand, NoEnvelope
    <3>2. Acks(c, m)' = Acks(c, m) /\ Unacks(c, m)' = Unacks(c, m)
      BY <2>1, <2>2 DEF Acks, Unacks
    <3>3. QED
      BY <1>s, <3>1, <3>2
  <2>3. CASE d = c /\ n = m
    <3>1. lists[c][m] > 0 /\ Acks(c, m) = {} /\ Unacks(c, m) = {}
      BY <1>k, <2>1, <2>3 DEF Kept, InHand
    <3>2. ~Timeout(d) /\ LateTimer(d) = {{}}
      BY <1>6, <2>3 DEF Timeout, LateTimer
    <3>3. ~InHand(c, m)'
      BY <1>6, <1>t, <1>k, <2>3, <3>2 DEF CheckoutRejected, CheckoutMissed, HandlerSucceeds,
         HandlerFails, InHand
    <3>4. /\ \A u, v \in unackCalls' \ unackCalls : u = v
          /\ ackCalls' = ackCalls \/ unackCalls' = unackCalls
      <4>1. CASE CheckoutRejected(d) \/ CheckoutMissed(d)
        BY <4>1 DEF CheckoutRejected, CheckoutMissed, calls
      <4>2. CASE HandlerSucceeds(d)
        BY <3>2, <4>2 DEF HandlerSucceeds, calls
      <4>3. CASE HandlerFails(d)
        BY <3>2, <4>3 DEF HandlerFails
      <4>4. QED
        BY <1>6, <3>2, <4>1, <4>2, <4>3
    <3>5. /\ \A u, v \in Unacks(c, m)' : u = v
          /\ Acks(c, m)' # {} => Unacks(c, m)' = {}
      BY <3>1, <3>4 DEF Acks, Unacks
    <3>6. lists'[c][m] > 0
      BY <2>1, <3>1
    <3>7. QED
      BY <3>3, <3>5, <3>6 DEF Kept
  <2>4. QED
    BY <2>2, <2>3
<1>7. ASSUME NEW call \in ackCalls, Acknowledge(call) \/ AcknowledgeFails(call)
      PROVE  Kept(c, m)'
  <2>1. /\ UNCHANGED <<pc, envelope>> /\ ackCalls' = ackCalls \ {call}
        /\ \A u \in unackCalls' \ unackCalls : u.owner = call.owner /\ u.msg = call.msg
        /\ \A u, v \in unackCalls' \ unackCalls : u = v
        /\ unackCalls \subseteq unackCalls'
    BY <1>7, SMTT(30) DEF Acknowledge, AcknowledgeFails, UnackCall, loop
  <2>2. CASE call.owner # c \/ call.msg # m
    <3>1. Acks(c, m)' = Acks(c, m) /\ Unacks(c, m)' = Unacks(c, m)
      BY <2>1, <2>2 DEF Acks, Unacks
    <3>2. QED
      BY <1>s, <2>1, <3>1 DEF InHand
  <2>3. CASE call.owner = c /\ call.msg = m
    <3>1. Acks(c, m) # {} /\ call = [owner |-> c, msg |-> m]
      BY <2>3 DEF Acks, TypeOK
    <3>2. /\ ~InHand(c, m) /\ Unacks(c, m) = {}
          /\ lists[c][m] > 0 \/ (Nowhere(m) /\ status[m] # "New")
      BY <1>k, <3>1 DEF Kept
    <3>3. Acks(c, m)' = {} /\ \A u, v \in Unacks(c, m)' : u = v
      <4>1. \A a \in ackCalls : a.owner = c /\ a.msg = m => a = call
        BY <3>1, SMTT(30) DEF TypeOK
      <4>2. QED
        BY <2>1, <3>2, <4>1 DEF Acks, Unacks
    <3>4. lists'[c][m] > 0 \/ (Nowhere(m)' /\ status'[m] # "New")
      <4>1. CASE Nowhere(m) /\ status[m] # "New"
        BY <1>k, <4>1, NowhereStays
      <4>2. CASE UNCHANGED store /\ lists[c][m] > 0
        BY <4>2
      <4>3. CASE AcknowledgeScript(c, m) /\ lists[c][m] > 0
        BY <1>k, <1>t, <4>3, AckLeavesNothing
      <4>4. QED
        BY <1>7, <2>3, <3>2, <4>1, <4>2, <4>3 DEF Acknowledge, AcknowledgeFails
    <3>5. QED
      BY <2>1, <3>2, <3>3, <3>4 DEF Kept, InHand
  <2>4. QED
    BY <2>2, <2>3
<1>8. ASSUME NEW call \in unackCalls, Unacknowledge(call) \/ UnacknowledgeFails(call)
      PROVE  Kept(c, m)'
  <2>1. UNCHANGED <<pc, envelope, ackCalls>> /\ unackCalls' = unackCalls \ {call}
    BY <1>8 DEF Unacknowledge, UnacknowledgeFails, loop
  <2>2. CASE call.owner # c \/ call.msg # m
    <3>1. Acks(c, m)' = Acks(c, m) /\ Unacks(c, m)' = Unacks(c, m)
      BY <2>1, <2>2 DEF Acks, Unacks
    <3>2. QED
      BY <1>s, <2>1, <3>1 DEF InHand
  <2>3. CASE call.owner = c /\ call.msg = m
    <3>1. call \in Unacks(c, m)
      BY <2>3 DEF Unacks
    <3>2. ~InHand(c, m) /\ Acks(c, m) = {} /\ Unacks(c, m) = {call}
      BY <1>k, <3>1 DEF Kept
    <3>3. Acks(c, m)' = {} /\ Unacks(c, m)' = {}
      BY <2>1, <3>2 DEF Acks, Unacks
    <3>4. QED
      BY <2>1, <3>2, <3>3 DEF Kept, InHand
  <2>4. QED
    BY <2>2, <2>3
<1>9. ASSUME NEW w \in Consumers, ReapLoad(w) PROVE Kept(c, m)'
  <2>1. /\ UNCHANGED <<pc, envelope, consumer, ackCalls>> /\ unackCalls \subseteq unackCalls'
        /\ \A u \in unackCalls' \ unackCalls : u.owner = reap[w].target
        /\ reap[w].phase # "idle" /\ reap[w].target \in Consumers
        /\ Alive(reap[w].target) => reap[w].target \in suspected'
    BY <1>9, SMTT(30) DEF ReapLoad, UnackCall, loop, TypeOK
  <2>2. reap[w].target # c
    BY <2>1 DEF Membership, Acts, Alive
  <2>3. QED
    BY <1>s, <2>1, <2>2 DEF InHand, Acks, Unacks
<1>10. ASSUME \/ \E n \in Messages : RequeueImmediate(n) \/ RequeueDelayed(n) \/ PublishScheduled(n)
              \/ \E w, d \in Consumers : ReapDetect(w, d)
              \/ \E w \in Consumers : ReapUnsubscribe(w)
       PROVE  Kept(c, m)'
  <2>1. UNCHANGED <<pc, envelope, ackCalls, unackCalls>>
    BY <1>10 DEF RequeueImmediate, RequeueDelayed, PublishScheduled, ReapDetect, ReapUnsubscribe,
       loop, calls
  <2>2. QED
    BY <1>s, <2>1 DEF InHand, Acks, Unacks
<1>11. QED
  BY <1>0, <1>1, <1>2, <1>3, <1>4, <1>5, <1>6, <1>7, <1>8, <1>9, <1>10
     DEF Next, LoopStep, CallStep, WorkerStep

(* Custody holds in every reachable state, with what it rests on. *)
CustodyInv == TypeOK /\ Ledger(lists, status) /\ Membership /\ Custody

(* It holds at first, when nobody holds anything. *)
LEMMA CustodyInit == Init => CustodyInv
<1> SUFFICES ASSUME Init PROVE CustodyInv
  OBVIOUS
<1>1. TypeOK
  BY InitType
<1>2. lists = [k \in Keys |-> [m \in Messages |-> 0]] /\ status = [m \in Messages |-> "New"]
  BY DEF Init
<1>3. Ledger(lists, status)
  BY <1>2, PlaceFacts, SMTT(30) DEF Ledger, Settled
<1>4. \A c \in Consumers, m \in Messages : ~(lists[c][m] > 0)
  BY KeyFacts, SMTT(30) DEF Init
<1>5. Membership
  BY <1>4 DEF Init, Membership, InFlightRecoverable, Holds, Alive, NoTarget
<1>6. Custody
  BY DEF Init, Custody, Kept, InHand, Acks, Unacks
<1>7. QED
  BY <1>1, <1>3, <1>5, <1>6 DEF CustodyInv

(* Every step keeps it. *)
LEMMA CustodyHolds == Spec => []CustodyInv
<1>1. CustodyInv /\ [Next]_vars => CustodyInv'
  <2> SUFFICES ASSUME CustodyInv, [Next]_vars PROVE CustodyInv'
    OBVIOUS
  <2>1. TypeOK' /\ Ledger(lists, status)'
    BY TypeStep, LedgerStep DEF CustodyInv, Ledger
  <2>2. Membership' /\ Custody'
    BY <2>1, MembershipStep, CustodyStep DEF CustodyInv
  <2>3. QED
    BY <2>1, <2>2 DEF CustodyInv
<1>2. QED
  BY <1>1, CustodyInit, PTL DEF Spec

(* What a handler function works on is in the processing list of its consumer and
   claimed, for any number of consumers, unless the consumer was reaped alive or
   the message has a forced timer. *)
THEOREM HandledIsHeldHolds == Spec => []HandledIsHeld
<1>1. CustodyInv => HandledIsHeld
  <2> SUFFICES ASSUME CustodyInv, NEW c \in Consumers \ suspected, pc[c] = "handling",
                      envelope[c].msg \notin ConsumeTimeout
               PROVE  Holds(c, envelope[c].msg) /\ status[envelope[c].msg] = "Processing"
    BY DEF HandledIsHeld
  <2>1. PICK m \in Messages \ ConsumeTimeout : m = envelope[c].msg
    BY DEF CustodyInv, TypeOK
  <2>2. Kept(c, m)
    BY <2>1 DEF CustodyInv, Custody, Acts
  <2>3. QED
    BY <2>1, <2>2 DEF Kept, InHand, Holds
<1>2. QED
  BY <1>1, CustodyHolds, PTL

(* No two handler functions work on the same message, under the same exceptions:
   both would hold it, and it is in one place. *)
THEOREM NoConcurrentHandlingHolds == Spec => []NoConcurrentHandling
<1>1. TypeOK /\ HandledIsHeld /\ SingleLocation => NoConcurrentHandling
  <2> SUFFICES ASSUME TypeOK, HandledIsHeld, SingleLocation,
                      NEW c \in Consumers \ suspected, NEW d \in Consumers \ suspected,
                      pc[c] = "handling", pc[d] = "handling",
                      envelope[c].msg = envelope[d].msg,
                      envelope[c].msg \notin ConsumeTimeout
               PROVE  c = d
    BY DEF NoConcurrentHandling
  <2>1. PICK m \in Messages : m = envelope[c].msg
    BY DEF TypeOK
  <2>2. Holds(c, m) /\ Holds(d, m) /\ c \in Places /\ d \in Places
    BY <2>1, PlaceFacts DEF HandledIsHeld
  <2>3. QED
    BY <2>2 DEF SingleLocation
<1>2. QED
  BY <1>1, TypeCorrect, HandledIsHeldHolds, SingleLocationHolds, PTL

---------------------------------------------------------------------------
(* The retry budget: as long as no consumer was reaped alive, a message that will
   be delivered again has an attempt left, and what a call or an envelope says of
   the attempts is true of the message. *)

Budget(m) == IF RetryThreshold[m] = 0 THEN 1 ELSE RetryThreshold[m]
ToDeliver == {"New", "Pending", "Scheduled", "UnackRequeuing", "UnackDelaying"}

(* What resolveUnackAction lets through is below the budget. *)
LEMMA BelowBudget ==
    ASSUME NEW m, NEW a \in Nat, NEW b, b = a, RetryThreshold[m] \in Nat, ~(b >= RetryThreshold[m])
    PROVE  a < Budget(m)
BY SMTT(30) DEF Budget

RoomFor(m) ==
    /\ attempts[m] <= Budget(m)
    /\ status[m] \in ToDeliver /\ m \notin ghost => attempts[m] < Budget(m)
    /\ \A u \in unackCalls : u.msg = m /\ lists[u.owner][m] > 0 =>
          IF u.cause = "QUEUE_STATE" THEN status[m] # "Processing" ELSE u.attempts = attempts[m]
    /\ \A c \in Consumers : InHand(c, m) =>
          IF pc[c] = "handling" THEN envelope[c].attempts = attempts[m]
                                ELSE status[m] # "Processing"
    /\ lists["pending"][m] > 0 => status[m] # "Processing"

Room == suspected = {} => \A m \in Messages \ ConsumeTimeout : RoomFor(m)

(* A step that delivers m to nobody. *)
LEMMA RoomFrame ==
    ASSUME TypeOK, TypeOK', NEW m \in Messages, RoomFor(m),
           attempts'[m] = attempts[m], m \in ghost => m \in ghost',
           \/ status'[m] = status[m]
           \/ status'[m] \notin ToDeliver \cup {"Processing"}
           \/ status'[m] \in ToDeliver /\ (m \in ghost' \/ attempts[m] < Budget(m)),
           \A c \in Consumers : lists'[c][m] > 0 => lists[c][m] > 0,
           lists'["pending"][m] > 0 => lists["pending"][m] > 0 \/ status'[m] # "Processing",
           \A u \in unackCalls' \ unackCalls : u.msg = m =>
               IF u.cause = "QUEUE_STATE" THEN status'[m] # "Processing" ELSE u.attempts = attempts[m],
           \A c \in Consumers : InHand(c, m)' =>
               InHand(c, m) /\ pc'[c] = pc[c] /\ envelope'[c] = envelope[c]
    PROVE  RoomFor(m)'
<1>1. status'[m] = status[m] \/ status'[m] # "Processing"
  BY DEF ToDeliver
<1>2. /\ (attempts[m] <= Budget(m))'
      /\ (status[m] \in ToDeliver /\ m \notin ghost => attempts[m] < Budget(m))'
  BY DEF RoomFor, Budget, ToDeliver
<1>3. ASSUME NEW u \in unackCalls', u.msg = m, lists'[u.owner][m] > 0
      PROVE  IF u.cause = "QUEUE_STATE" THEN status'[m] # "Processing" ELSE u.attempts = attempts'[m]
  <2>1. u.owner \in Consumers
    BY <1>3 DEF TypeOK
  <2>2. CASE u \in unackCalls
    BY <1>1, <1>3, <2>1, <2>2 DEF RoomFor
  <2>3. QED
    BY <1>3, <2>2
<1>4. ASSUME NEW c \in Consumers, InHand(c, m)'
      PROVE  IF pc'[c] = "handling" THEN envelope'[c].attempts = attempts'[m]
                                    ELSE status'[m] # "Processing"
  BY <1>1, <1>4 DEF RoomFor
<1>5. lists'["pending"][m] > 0 => status'[m] # "Processing"
  BY <1>1 DEF RoomFor
<1>6. QED
  BY <1>2, <1>3, <1>4, <1>5 DEF RoomFor

(* With nobody suspected, whoever has m in hand holds it, and no call is about it. *)
LEMMA InHandAlone ==
    ASSUME CustodyInv, suspected = {}, NEW c \in Consumers, NEW m \in Messages \ ConsumeTimeout,
           InHand(c, m)
    PROVE  /\ lists[c][m] > 0 /\ Unacks(c, m) = {}
           /\ \A k \in Places : lists[k][m] > 0 => k = c
           /\ status[m] # "New"
<1>1. Kept(c, m) /\ c \in WorkPlaces /\ c \in Places
  BY PlaceFacts DEF CustodyInv, Custody, Acts, InHand
<1>2. lists[c][m] > 0 /\ Unacks(c, m) = {}
  BY <1>1 DEF Kept
<1>3. QED
  BY <1>1, <1>2 DEF CustodyInv, Ledger

(* A pop and a checkout are the steps on the way to a delivery. *)
LEMMA RoomPop ==
    ASSUME CustodyInv, TypeOK', suspected = {}, NEW c \in Consumers,
           NEW m \in Messages \ ConsumeTimeout, RoomFor(m), Pop(c, m)
    PROVE  RoomFor(m)'
<1>1. /\ UNCHANGED <<status, attempts, ghost, unackCalls>> /\ lists["pending"][m] > 0
      /\ lists' = Move(lists, "pending", c, m) /\ handler[c] = "running"
      /\ status[m] # "Processing"
  BY DEF Pop, calls, RoomFor
<1>2. Kept(c, m)
  BY <1>1 DEF CustodyInv, Custody, Membership, Acts
<1>3. "pending" \in WorkPlaces /\ "pending" # c /\ c \in Places /\ "pending" \in Places
  BY PlaceFacts, KeyFacts
<1>4. Unacks(c, m) = {}
  BY <1>1, <1>2, <1>3 DEF CustodyInv, Ledger, Nowhere, Kept
<1>5. \A d \in Consumers : d # c => lists'[d][m] = lists[d][m]
  <2>1. lists \in ListsType
    BY DEF CustodyInv, TypeOK, ListsType
  <2>2. QED
    BY <1>1, <1>3, <2>1, MovesOnly, PlaceFacts, KeyFacts, SMTT(30)
<1>6. ASSUME NEW u \in unackCalls, u.msg = m, lists'[u.owner][m] > 0
      PROVE  IF u.cause = "QUEUE_STATE" THEN status[m] # "Processing" ELSE u.attempts = attempts[m]
  BY <1>4, <1>5, <1>6 DEF Unacks, RoomFor, CustodyInv, TypeOK
<1>7. ASSUME NEW d \in Consumers, InHand(d, m)'
      PROVE  IF pc'[d] = "handling" THEN envelope'[d].attempts = attempts[m]
                                    ELSE status[m] # "Processing"
  <2>1. CASE d = c
    BY <1>1, <2>1 DEF Pop, CustodyInv, TypeOK
  <2>2. CASE d # c
    BY <1>1, <1>7, <2>2, SMTT(30) DEF Pop, InHand, RoomFor, CustodyInv, TypeOK
  <2>3. QED
    BY <2>1, <2>2
<1>8. QED
  BY <1>1, <1>6, <1>7 DEF RoomFor, Budget

(* A checkout uses up one of the attempts that were left. *)
LEMMA RoomCheckout ==
    ASSUME CustodyInv, TypeOK', Deliveries, suspected = {}, NEW c \in Consumers,
           NEW m \in Messages \ ConsumeTimeout, RoomFor(m), Checkout(c), envelope[c].msg = m
    PROVE  RoomFor(m)'
<1>1. /\ InHand(c, m) /\ status[m] = "Pending" /\ lists' = lists
      /\ status'[m] = "Processing" /\ attempts'[m] = attempts[m] + 1
  BY SMTT(30) DEF Checkout, CheckoutScript, InHand, CustodyInv, TypeOK
<1>2. attempts[m] < Budget(m) /\ attempts[m] \in Nat /\ Budget(m) \in Nat
  <2>1. m \notin ghost
    BY <1>1 DEF Deliveries
  <2>2. attempts[m] < Budget(m)
    BY <1>1, <2>1 DEF RoomFor, ToDeliver
  <2>3. attempts[m] \in Nat
    BY DEF CustodyInv, TypeOK
  <2>4. RetryThreshold[m] \in Nat
    BY ConstantsAssumption
  <2>5. QED
    BY <2>2, <2>3, <2>4 DEF Budget
<1>3. (attempts[m] <= Budget(m))'
  BY <1>1, <1>2, SMTT(30) DEF Budget
<1>4. /\ lists[c][m] > 0 /\ Unacks(c, m) = {}
      /\ \A k \in Places : lists[k][m] > 0 => k = c
  BY <1>1, InHandAlone, SMTT(30)
<1>5. ASSUME NEW u \in unackCalls', u.msg = m, lists'[u.owner][m] > 0
      PROVE  u.cause # "QUEUE_STATE" /\ u.attempts = attempts'[m]
  <2>1. u.owner = c
    BY <1>1, <1>4, <1>5, PlaceFacts DEF TypeOK
  <2>2. u \notin unackCalls
    BY <1>4, <1>5, <2>1 DEF Unacks
  <2>3. QED
    BY <1>5, <2>2, SMTT(30) DEF Checkout, UnackCall
<1>6. ASSUME NEW d \in Consumers, InHand(d, m)'
      PROVE  pc'[d] = "handling" /\ envelope'[d].attempts = attempts'[m]
  <2>1. CASE d # c
    <3>1. InHand(d, m)
      BY <1>6, <2>1, SMTT(30) DEF Checkout, InHand, CustodyInv, TypeOK
    <3>2. lists[d][m] > 0 /\ d \in Places
      BY <3>1, InHandAlone, PlaceFacts
    <3>3. QED
      BY <1>4, <2>1, <3>2
  <2>2. CASE d = c
    BY <1>6, <2>2, SMTT(30) DEF Checkout, InHand, CustodyInv, TypeOK
  <2>3. QED
    BY <2>1, <2>2
<1>7. ~(lists'["pending"][m] > 0)
  BY <1>1, <1>4, PlaceFacts, KeyFacts
<1>8. QED
  BY <1>1, <1>3, <1>5, <1>6, <1>7 DEF RoomFor, ToDeliver

(* A new message has the whole budget before it, and nobody knows of it. *)
LEMMA RoomPublish ==
    ASSUME CustodyInv, TypeOK', suspected = {}, NEW m \in Messages \ ConsumeTimeout,
           NEW st \in {"Pending", "Scheduled"}, status[m] = "New", PublishScript(m, st),
           UNCHANGED <<pc, envelope, unackCalls>>
    PROVE  RoomFor(m)'
<1>1. attempts'[m] = 0 /\ status'[m] = st
  BY DEF PublishScript, CustodyInv, TypeOK
<1>2. Budget(m)' = Budget(m) /\ 0 < Budget(m) /\ 0 <= Budget(m)
  <2>1. RetryThreshold[m] \in Nat
    BY ConstantsAssumption
  <2>2. QED
    BY <2>1, SMTT(30) DEF Budget
<1>3. \A c \in Consumers : ~(lists'[c][m] > 0)
  <2>1. ASSUME NEW c \in Consumers PROVE lists'[c][m] = lists[c][m]
    <3>1. PICK k \in Keys \ Consumers : lists' = Add(Add(lists, k, m), "published", m)
      BY KeyFacts DEF PublishScript
    <3>2. /\ lists \in ListsType /\ "published" \in Keys /\ c \in Keys
          /\ c # "published" /\ c # k
      BY KeyFacts DEF CustodyInv, TypeOK, ListsType
    <3>3. Add(lists, k, m) \in ListsType /\ Add(lists, k, m)[c][m] = lists[c][m]
      BY <3>2, AddContents, SMTT(30)
    <3>4. QED
      BY <3>1, <3>2, <3>3, AddContents, SMTT(30)
  <2>2. \A c \in Consumers : ~(lists[c][m] > 0)
    BY PlaceFacts DEF CustodyInv, Ledger
  <2>3. QED
    BY <2>1, <2>2
<1>4. \A c \in Consumers : ~InHand(c, m)'
  BY InHandAlone DEF InHand
<1>5. \A u \in unackCalls' : u.owner \in Consumers
  BY DEF TypeOK
<1>6. QED
  BY <1>1, <1>2, <1>3, <1>4, <1>5 DEF RoomFor

(* Moving another message, or elsewhere, puts nothing into the pending list. *)
LEMMA PendingAside ==
    ASSUME lists \in ListsType, NEW k \in Keys, NEW l \in Keys, k # l, NEW n \in Messages,
           lists' = Move(lists, k, l, n) \/ lists' = Rem(lists, k, n),
           NEW m \in Messages, m # n \/ l # "pending"
    PROVE  lists'["pending"][m] > 0 => lists["pending"][m] > 0
<1>1. "pending" \in Keys /\ lists["pending"][m] \in Nat
  BY KeyFacts DEF ListsType
<1>2. CASE lists' = Move(lists, k, l, n)
  BY <1>1, <1>2, MoveContents, SMTT(30)
<1>3. CASE lists' = Rem(lists, k, n)
  BY <1>1, <1>3, RemContents, SMTT(30)
<1>4. QED
  BY <1>2, <1>3

(* A settlement: a message goes back only with an attempt left. *)
LEMMA RoomSettled ==
    ASSUME CustodyInv, TypeOK', NEW m \in Messages, RoomFor(m),
           NEW c \in Consumers, NEW n \in Messages,
           \A d \in Consumers : lists'[d][m] > 0 => lists[d][m] > 0,
           UNCHANGED <<pc, envelope>>,
           \A u \in unackCalls' \ unackCalls : u.cause = "ACK_FAILED" /\ u.attempts = attempts[u.msg],
           \/ AcknowledgeScript(c, n)
           \/ \E call \in unackCalls : call.owner = c /\ call.msg = n /\ UnacknowledgeScript(call)
           \/ UNCHANGED store
    PROVE  RoomFor(m)'
<1> USE DEF store
<1>1. /\ attempts' = attempts /\ ghost \subseteq ghost'
      /\ m # n => status'[m] = status[m]
  <2>1. status \in [Messages -> Statuses]
    BY DEF CustodyInv, TypeOK
  <2>2. CASE AcknowledgeScript(c, n)
    BY <2>1, <2>2 DEF AcknowledgeScript, Touched
  <2>3. ASSUME NEW call \in unackCalls, call.owner = c, call.msg = n, UnacknowledgeScript(call)
        PROVE  /\ attempts' = attempts /\ ghost \subseteq ghost'
               /\ m # n => status'[m] = status[m]
    <3>1. /\ attempts' = attempts /\ ghost \subseteq ghost'
          /\ status' = status \/ \E st : status' = [status EXCEPT ![n] = st]
      BY <2>3 DEF UnacknowledgeScript, Touched
    <3>2. QED
      BY <2>1, <3>1
  <2>4. QED
    BY <2>2, <2>3
<1>2. lists'["pending"][m] > 0 => lists["pending"][m] > 0
  <2>1. \/ lists' = lists \/ lists' = Rem(lists, c, n)
        \/ \E l \in {"acknowledged", "deadLettered", "requeued"} : lists' = Move(lists, c, l, n)
    BY DEF AcknowledgeScript, UnacknowledgeScript
  <2>2. lists \in ListsType /\ c \in Keys /\ "requeued" \in Keys /\ c # "requeued"
    BY KeyFacts DEF CustodyInv, TypeOK, ListsType
  <2>3. CASE lists' = Rem(lists, c, n)
    BY <2>2, <2>3, PendingAside
  <2>4. ASSUME NEW l \in {"acknowledged", "deadLettered", "requeued"}, lists' = Move(lists, c, l, n)
        PROVE  lists'["pending"][m] > 0 => lists["pending"][m] > 0
    <3>1. l \in Keys /\ c # l /\ l # "pending"
      BY KeyFacts
    <3>2. QED
      BY <2>2, <2>4, <3>1, PendingAside
  <2>5. QED
    BY <2>1, <2>3, <2>4
<1>3. \/ status'[m] = status[m]
      \/ status'[m] \notin ToDeliver \cup {"Processing"}
      \/ status'[m] \in ToDeliver /\ (m \in ghost' \/ attempts[m] < Budget(m))
  <2>1. CASE m # n \/ UNCHANGED store
    BY <1>1, <2>1
  <2>2. CASE m = n /\ AcknowledgeScript(c, n)
    BY <2>2, SMTT(30) DEF AcknowledgeScript, ToDeliver, CustodyInv, TypeOK
  <2>3. ASSUME m = n, NEW call \in unackCalls, call.owner = c, call.msg = n,
               UnacknowledgeScript(call), lists[c][m] > 0
        PROVE  \/ status'[m] \notin ToDeliver \cup {"Processing"}
               \/ status'[m] \in ToDeliver /\ (m \in ghost' \/ attempts[m] < Budget(m))
    <3>1. PICK late \in {FALSE, (m \in expired)} :
             \/ status'[m] = "DeadLettered"
             \/ status'[m] = "UnackRequeuing" /\ ResolveUnackAction(call, late) # "DEAD_LETTER"
      <4>1. status \in [Messages -> Statuses]
        BY DEF CustodyInv, TypeOK
      <4>2. PICK late \in {FALSE, (m \in expired)} :
              \/ status' = [status EXCEPT ![m] = "DeadLettered"]
              \/ /\ status' = [status EXCEPT ![m] = "UnackRequeuing"]
                 /\ ResolveUnackAction(call, late) # "DEAD_LETTER"
        BY <2>3 DEF UnacknowledgeScript
      <4>3. QED
        BY <4>1, <4>2
    <3>2. status[m] = "Deleted" => m \in ghost'
      BY <2>3 DEF UnacknowledgeScript, Touched
    <3>3. CASE status'[m] = "DeadLettered"
      BY <3>3 DEF ToDeliver
    <3>4. CASE status'[m] = "UnackRequeuing" /\ ResolveUnackAction(call, late) # "DEAD_LETTER"
      <4>1. CASE call.cause = "QUEUE_STATE"
        <5>1. status[m] # "Processing"
          BY <2>3, <4>1 DEF RoomFor
        <5>2. status[m] \notin Settled \cup {"New"}
          BY <2>3, PlaceFacts DEF CustodyInv, Ledger
        <5>3. status[m] \in ToDeliver \cup {"Deleted"}
          BY <5>1, <5>2, SMTT(30) DEF CustodyInv, TypeOK, Statuses, Settled, ToDeliver
        <5>4. m \in ghost' \/ attempts[m] < Budget(m)
          BY <1>1, <3>2, <5>3 DEF RoomFor
        <5>5. QED
          BY <3>4, <5>4 DEF ToDeliver
      <4>2. CASE call.cause # "QUEUE_STATE"
        <5>1. call.attempts = attempts[m] /\ attempts[m] \in Nat /\ RetryThreshold[m] \in Nat
          BY <2>3, <4>2, ConstantsAssumption DEF RoomFor, CustodyInv, TypeOK
        <5>2. ~(call.attempts >= RetryThreshold[m])
          BY <2>3, <3>4, <4>2 DEF ResolveUnackAction
        <5>3. attempts[m] < Budget(m)
          BY <5>1, <5>2, BelowBudget
        <5>4. QED
          BY <3>4, <5>3 DEF ToDeliver
      <4>3. QED
        BY <4>1, <4>2
    <3>5. QED
      BY <3>1, <3>3, <3>4
  <2>4. ASSUME NEW call \in unackCalls, call.owner = c, call.msg = n,
               UnacknowledgeScript(call), ~(lists[c][n] > 0)
        PROVE  UNCHANGED store
    BY <2>4 DEF UnacknowledgeScript
  <2>5. QED
    BY <2>1, <2>2, <2>3, <2>4
<1>4. QED
  <2>1. TypeOK
    BY DEF CustodyInv
  <2>2. attempts'[m] = attempts[m] /\ (m \in ghost => m \in ghost')
    BY <1>1
  <2>3. \A d \in Consumers : InHand(d, m)' =>
           InHand(d, m) /\ pc'[d] = pc[d] /\ envelope'[d] = envelope[d]
    BY DEF InHand
  <2>4. \A u \in unackCalls' \ unackCalls : u.msg = m =>
           IF u.cause = "QUEUE_STATE" THEN status'[m] # "Processing" ELSE u.attempts = attempts[m]
    OBVIOUS
  <2>5. QED
    BY <1>2, <1>3, <2>1, <2>2, <2>3, <2>4, RoomFrame

(* The publication of another message. *)
LEMMA PublishAside ==
    ASSUME TypeOK, NEW n \in Messages, NEW m \in Messages, m # n,
           NEW st \in {"Pending", "Scheduled"}, PublishScript(n, st)
    PROVE  /\ attempts'[m] = attempts[m] /\ status'[m] = status[m]
           /\ lists'["pending"][m] = lists["pending"][m]
<1>1. PICK k \in Keys : lists' = Add(Add(lists, k, n), "published", n)
  BY KeyFacts DEF PublishScript
<1>2. lists \in ListsType /\ "published" \in Keys /\ "pending" \in Keys
  BY KeyFacts DEF TypeOK, ListsType
<1>3. Add(lists, k, n) \in ListsType /\ Add(lists, k, n)["pending"][m] = lists["pending"][m]
  BY <1>2, AddContents, SMTT(30)
<1>4. lists'["pending"][m] = lists["pending"][m]
  BY <1>1, <1>2, <1>3, AddContents, SMTT(30)
<1>5. QED
  BY <1>4 DEF PublishScript, TypeOK

(* Every step leaves room. *)
LEMMA RoomStep ==
    ASSUME CustodyInv, TypeOK', Deliveries, Waiting(lists, status), Room, [Next]_vars
    PROVE  Room'
<1> SUFFICES ASSUME suspected' = {}, NEW m \in Messages \ ConsumeTimeout PROVE RoomFor(m)'
  BY DEF Room
<1> USE DEF store
<1>t. /\ pc \in [Consumers -> {"off", "idle", "popped", "handling"}]
      /\ envelope \in [Consumers -> [msg : Messages \cup {NoMessage}, attempts : Nat]]
      /\ lists \in ListsType /\ status \in [Messages -> Statuses] /\ TypeOK
      /\ m \in Messages
  BY DEF CustodyInv, TypeOK, ListsType
<1>n. NoMessage # m
  BY ConstantsAssumption
<1>r. suspected = {} /\ RoomFor(m)
  <2>1. suspected \subseteq suspected'
    BY DEF Next, vars, UserStep, Publish, DeleteMessage, ExpireTTL, RequeueMessage, SetQueueState,
       ConsumerStep, StartConsumer, RestartHandler, RunHandler, Beat, HeartbeatExpires, StopHandler,
       ShutdownConsumer, CloseHandler, LoopExit, Crash, LoopStep, Pop, CheckoutRejected,
       CheckoutMissed, Checkout, Timeout, HandlerSucceeds, HandlerFails, CallStep, Acknowledge,
       AcknowledgeFails, Unacknowledge, UnacknowledgeFails, WorkerStep, RequeueImmediate,
       RequeueDelayed, PublishScheduled, ReapDetect, ReapLoad, ReapUnsubscribe, history
  <2>2. QED
    BY <2>1 DEF Room
<1>p. ASSUME NEW c \in Consumers, Pop(c, m) PROVE RoomFor(m)'
  BY <1>p, <1>r, RoomPop
<1> SUFFICES ASSUME \A c \in Consumers : ~Pop(c, m) PROVE RoomFor(m)'
  BY <1>p
<1>f. \A c \in Consumers : lists'[c][m] > 0 => lists[c][m] > 0
  BY <1>t, OnlyPopFills
(* A step that leaves m where it is. *)
<1>s. ASSUME attempts'[m] = attempts[m], ghost' = ghost, status'[m] = status[m],
             lists'["pending"][m] > 0 => lists["pending"][m] > 0,
             \A u \in unackCalls' \ unackCalls : u.msg = m =>
                 IF u.cause = "QUEUE_STATE" THEN status[m] # "Processing" ELSE u.attempts = attempts[m],
             \A c \in Consumers : InHand(c, m)' =>
                 InHand(c, m) /\ pc'[c] = pc[c] /\ envelope'[c] = envelope[c]
      PROVE  RoomFor(m)'
  BY <1>f, <1>r, <1>s, <1>t, RoomFrame
<1>0. CASE UNCHANGED vars
  BY <1>0, <1>s DEF vars, loop, calls, InHand
<1>1. ASSUME NEW n \in Messages, Publish(n) PROVE RoomFor(m)'
  <2>1. UNCHANGED <<pc, envelope, unackCalls, ghost>> /\ status[n] = "New"
        /\ \E st \in {"Pending", "Scheduled"} : PublishScript(n, st)
    BY <1>1 DEF Publish, loop, calls
  <2>2. QED
    BY <1>r, <1>s, <1>t, <2>1, PublishAside, RoomPublish DEF InHand
<1>2. ASSUME NEW o \in Messages, NEW n \in Messages, RequeueMessage(o, n) PROVE RoomFor(m)'
  <2>1. UNCHANGED <<pc, envelope, unackCalls, ghost>> /\ status[n] = "New"
        /\ \E st \in {"Pending", "Scheduled"} : PublishScript(n, st)
    BY <1>2 DEF RequeueMessage, RequeueMessageScript, loop, calls
  <2>2. QED
    BY <1>r, <1>s, <1>t, <2>1, PublishAside, RoomPublish DEF InHand
<1>3. ASSUME NEW n \in Messages, DeleteMessage(n) PROVE RoomFor(m)'
  <2>1. UNCHANGED <<attempts, ghost, pc, envelope, unackCalls>>
    BY <1>3 DEF DeleteMessage, DeleteMessageScript, loop, calls
  <2>2. lists'["pending"][m] > 0 => lists["pending"][m] > 0
    <3>1. lists' = lists \/ \E k \in Keys : lists' = Rem(Rem(lists, k, n), "published", n)
      BY <1>3, KeyFacts, SMTT(30) DEF DeleteMessage, DeleteMessageScript, HomeOf
    <3>2. ASSUME NEW k \in Keys, lists' = Rem(Rem(lists, k, n), "published", n)
          PROVE  lists'["pending"][m] > 0 => lists["pending"][m] > 0
      <4>1. "published" \in Keys /\ "pending" \in Keys
        BY KeyFacts
      <4>2. Rem(lists, k, n) \in ListsType /\ Rem(lists, k, n)["pending"][m] <= lists["pending"][m]
        BY <1>t, <4>1, RemovesOnly
      <4>3. lists'["pending"][m] <= Rem(lists, k, n)["pending"][m] /\ lists' \in ListsType
        BY <3>2, <4>1, <4>2, RemovesOnly
      <4>4. /\ lists["pending"][m] \in Nat /\ lists'["pending"][m] \in Nat
            /\ Rem(lists, k, n)["pending"][m] \in Nat
        BY <1>t, <4>1, <4>2, <4>3, SMTT(30) DEF ListsType
      <4>5. QED
        BY <4>2, <4>3, <4>4, SMTT(30)
    <3>3. QED
      BY <3>1, <3>2
  <2>3. status'[m] = status[m] \/ status'[m] \notin ToDeliver \cup {"Processing"}
    BY <1>3, <1>t DEF DeleteMessage, DeleteMessageScript, ToDeliver
  <2>4. QED
    BY <1>f, <1>r, <1>t, <2>1, <2>2, <2>3, RoomFrame DEF InHand
<1>4. CASE \/ \E n \in Messages : ExpireTTL(n)
           \/ \E s \in OperationalStates : SetQueueState(s)
           \/ \E w, c \in Consumers : ReapDetect(w, c)
           \/ \E w \in Consumers : ReapUnsubscribe(w)
  <2>1. UNCHANGED <<lists, status, attempts, ghost, pc, envelope, unackCalls>>
    BY <1>4 DEF ExpireTTL, SetQueueState, ReapDetect, ReapUnsubscribe, loop, calls
  <2>2. QED
    BY <1>s, <2>1 DEF InHand
<1>5. ASSUME NEW d \in Consumers, ConsumerStep(d) PROVE RoomFor(m)'
  <2>1. /\ UNCHANGED <<lists, status, attempts, ghost>> /\ unackCalls' \subseteq unackCalls
        /\ \A c \in Consumers : \/ pc'[c] = pc[c] /\ envelope'[c] = envelope[c]
                               \/ pc'[c] \in {"off", "idle"}
    <3>1. CASE StartConsumer(d) \/ RestartHandler(d)
      BY <1>t, <3>1 DEF StartConsumer, RestartHandler, RunHandler, calls
    <3>2. CASE \/ Beat(d) \/ HeartbeatExpires(d) \/ StopHandler(d) \/ ShutdownConsumer(d)
               \/ CloseHandler(d)
      BY <3>2 DEF Beat, HeartbeatExpires, StopHandler, ShutdownConsumer, CloseHandler, loop, calls
    <3>3. CASE LoopExit(d) \/ Crash(d)
      BY <1>t, <3>3 DEF LoopExit, Crash, calls
    <3>4. QED
      BY <1>5, <3>1, <3>2, <3>3 DEF ConsumerStep
  <2>2. QED
    BY <1>s, <2>1 DEF InHand
<1>6. ASSUME NEW d \in Consumers, NEW n \in Messages, Pop(d, n) PROVE RoomFor(m)'
  <2>1. /\ UNCHANGED <<status, attempts, ghost, unackCalls>> /\ m # n
        /\ lists' = Move(lists, "pending", d, n)
    BY <1>6 DEF Pop, calls
  <2>2. "pending" \in Keys /\ d \in Keys /\ "pending" # d
    BY KeyFacts
  <2>3. lists'["pending"][m] > 0 => lists["pending"][m] > 0
    BY <1>t, <2>1, <2>2, PendingAside
  <2>4. \A c \in Consumers : InHand(c, m)' =>
           InHand(c, m) /\ pc'[c] = pc[c] /\ envelope'[c] = envelope[c]
    <3>1. CASE UNCHANGED <<pc, envelope>>
      BY <3>1 DEF InHand
    <3>2. CASE /\ pc' = [pc EXCEPT ![d] = "popped"]
               /\ envelope' = [envelope EXCEPT ![d] = [msg |-> n, attempts |-> 0]]
      BY <1>t, <2>1, <3>2 DEF InHand
    <3>3. QED
      BY <1>6, <3>1, <3>2 DEF Pop
  <2>5. QED
    BY <1>s, <2>1, <2>3, <2>4
<1>7. ASSUME NEW d \in Consumers, Checkout(d) PROVE RoomFor(m)'
  <2>1. CASE envelope[d].msg = m
    BY <1>7, <1>r, <2>1, RoomCheckout
  <2>2. CASE envelope[d].msg # m
    <3>1. /\ attempts'[m] = attempts[m] /\ status'[m] = status[m] /\ UNCHANGED <<lists, ghost>>
          /\ \A u \in unackCalls' \ unackCalls : u.msg # m
      <4>1. attempts \in [Messages -> Nat]
        BY <1>t DEF TypeOK
      <4>2. attempts'[m] = attempts[m] /\ status'[m] = status[m] /\ UNCHANGED <<lists, ghost>>
        BY <1>7, <1>t, <2>2, <4>1 DEF Checkout, CheckoutScript
      <4>3. \A u \in unackCalls' \ unackCalls :
               \E a : u = UnackCall(d, d, envelope[d].msg, a, "TTL_EXPIRED")
        BY <1>7 DEF Checkout
      <4>4. QED
        BY <2>2, <4>2, <4>3, SMTT(30) DEF UnackCall
    <3>2. \A c \in Consumers : InHand(c, m)' =>
             InHand(c, m) /\ pc'[c] = pc[c] /\ envelope'[c] = envelope[c]
      BY <1>7, <1>t, <1>n, <2>2, SMTT(30) DEF Checkout, InHand, NoEnvelope
    <3>3. QED
      BY <1>s, <3>1, <3>2
  <2>3. QED
    BY <2>1, <2>2
<1>8. ASSUME NEW d \in Consumers, CheckoutRejected(d) \/ CheckoutMissed(d) \/ Timeout(d)
             \/ HandlerSucceeds(d) \/ HandlerFails(d)
      PROVE  RoomFor(m)'
  <2>1. UNCHANGED <<lists, status, attempts, ghost>> /\ pc[d] \in {"popped", "handling"}
    BY <1>8 DEF CheckoutRejected, CheckoutMissed, Timeout, HandlerSucceeds, HandlerFails
  <2>2. \A c \in Consumers : InHand(c, m)' =>
           InHand(c, m) /\ pc'[c] = pc[c] /\ envelope'[c] = envelope[c]
    BY <1>8, <1>t, <1>n DEF CheckoutRejected, CheckoutMissed, Timeout, HandlerSucceeds,
       HandlerFails, InHand, NoEnvelope
  <2>3. ASSUME NEW u \in unackCalls' \ unackCalls, u.msg = m
        PROVE  IF u.cause = "QUEUE_STATE" THEN status[m] # "Processing" ELSE u.attempts = attempts[m]
    <3>1. CASE CheckoutRejected(d)
      BY <1>r, <2>3, <3>1, SMTT(30) DEF CheckoutRejected, UnackCall, RoomFor, InHand
    <3>2. CASE CheckoutMissed(d) \/ Timeout(d)
      BY <2>3, <3>2, SMTT(30) DEF CheckoutMissed, Timeout, UnackCall, calls
    <3>3. CASE HandlerSucceeds(d)
      BY <2>3, <3>3, SMTT(30) DEF HandlerSucceeds, LateTimer, UnackCall, calls
    <3>4. CASE HandlerFails(d)
      <4>1. u.msg = envelope[d].msg /\ pc[d] = "handling"
        BY <2>3, <3>4, SMTT(30) DEF HandlerFails, LateTimer, UnackCall
      <4>2. LateTimer(d) = {{}}
        BY <2>3, <4>1 DEF LateTimer
      <4>3. u.cause # "QUEUE_STATE" /\ u.attempts = envelope[d].attempts
        BY <2>3, <3>4, <4>2, SMTT(30) DEF HandlerFails, UnackCall
      <4>4. QED
        BY <1>r, <2>3, <4>1, <4>3 DEF RoomFor, InHand
    <3>5. QED
      BY <1>8, <3>1, <3>2, <3>3, <3>4
  <2>4. QED
    BY <1>s, <2>1, <2>2, <2>3
<1>9. CASE CallStep
  <2>1. ASSUME NEW call \in ackCalls, Acknowledge(call) \/ AcknowledgeFails(call)
        PROVE  RoomFor(m)'
    <3>1. /\ call.owner \in Consumers /\ call.msg \in Messages /\ UNCHANGED <<pc, envelope>>
          /\ AcknowledgeScript(call.owner, call.msg) \/ UNCHANGED store
      BY <1>t, <2>1 DEF Acknowledge, AcknowledgeFails, loop, TypeOK
    <3>2. \A u \in unackCalls' \ unackCalls : u.cause = "ACK_FAILED" /\ u.attempts = attempts[u.msg]
      <4>1. CASE Acknowledge(call)
        BY <4>1 DEF Acknowledge
      <4>2. CASE AcknowledgeFails(call)
        <5>1. \A u \in unackCalls' \ unackCalls :
                 u = UnackCall(call.owner, call.owner, call.msg, attempts[call.msg], "ACK_FAILED")
          BY <4>2 DEF AcknowledgeFails
        <5>2. QED
          BY <5>1, SMTT(30) DEF UnackCall
      <4>3. QED
        BY <2>1, <4>1, <4>2
    <3>3. QED
      BY <1>f, <1>r, <1>t, <3>1, <3>2, RoomSettled
  <2>2. ASSUME NEW call \in unackCalls, Unacknowledge(call) \/ UnacknowledgeFails(call)
        PROVE  RoomFor(m)'
    <3>1. /\ call.owner \in Consumers /\ call.msg \in Messages /\ UNCHANGED <<pc, envelope>>
          /\ UnacknowledgeScript(call) \/ UNCHANGED store
          /\ unackCalls' \subseteq unackCalls
      BY <1>t, <2>2 DEF Unacknowledge, UnacknowledgeFails, loop, TypeOK
    <3>2. QED
      BY <1>f, <1>r, <1>t, <3>1, RoomSettled
  <2>3. QED
    BY <1>9, <2>1, <2>2 DEF CallStep
<1>10. ASSUME NEW n \in Messages, RequeueImmediate(n) \/ RequeueDelayed(n) \/ PublishScheduled(n)
       PROVE  RoomFor(m)'
  <2>1. /\ UNCHANGED <<attempts, ghost, pc, envelope, unackCalls>> /\ n \notin ghost
        /\ \E st \in {"UnackDelaying", "Pending"} : status' = [status EXCEPT ![n] = st]
    BY <1>10 DEF RequeueImmediate, RequeueImmediateScript, RequeueDelayed, Decodable,
       RequeueDelayedScript, PublishScheduled, PublishScheduledScript, loop, calls
  <2>2. \E k \in {"requeued", "delayed", "scheduled"}, l \in {"delayed", "pending"} :
           lists[k][n] > 0 /\ k # l /\ lists' = Move(lists, k, l, n)
    BY <1>10 DEF RequeueImmediate, RequeueImmediateScript, RequeueDelayed,
       RequeueDelayedScript, PublishScheduled, PublishScheduledScript
  <2>3. CASE n = m
    <3>1. status[m] \in ToDeliver
      BY <2>2, <2>3 DEF Waiting, ToDeliver
    <3>2. attempts[m] < Budget(m)
      BY <1>r, <2>1, <2>3, <3>1 DEF RoomFor
    <3>3. status'[m] \in ToDeliver /\ status'[m] # "Processing"
      BY <1>t, <2>1, <2>3 DEF ToDeliver
    <3>4. QED
      BY <1>f, <1>r, <1>t, <2>1, <3>2, <3>3, RoomFrame DEF InHand
  <2>4. CASE n # m
    <3>1. {"requeued", "delayed", "scheduled", "pending"} \subseteq Keys
      BY KeyFacts
    <3>2. lists'["pending"][m] > 0 => lists["pending"][m] > 0
      BY <1>t, <2>2, <2>4, <3>1, PendingAside
    <3>3. status'[m] = status[m]
      BY <1>t, <2>1, <2>4
    <3>4. QED
      BY <1>s, <2>1, <3>2, <3>3 DEF InHand
  <2>5. QED
    BY <2>3, <2>4
<1>11. ASSUME NEW w \in Consumers, ReapLoad(w) PROVE RoomFor(m)'
  <2>1. /\ UNCHANGED <<lists, status, attempts, ghost, pc, envelope>>
        /\ \A u \in unackCalls' \ unackCalls :
              u.cause = "OFFLINE_CONSUMER" /\ u.attempts = attempts[u.msg]
    BY <1>11, SMTT(30) DEF ReapLoad, UnackCall, loop
  <2>2. QED
    BY <1>s, <2>1 DEF InHand
<1>12. QED
  BY <1>0, <1>1, <1>2, <1>3, <1>4, <1>5, <1>6, <1>7, <1>8, <1>9, <1>10, <1>11
     DEF Next, UserStep, LoopStep, WorkerStep

(* The inductive invariant behind the bound. *)
BudgetInv == /\ CustodyInv /\ AckOrigin /\ CausesKnown /\ Deliveries
             /\ Waiting(lists, status) /\ Room

(* It holds in every reachable state. *)
LEMMA BudgetHolds == Spec => []BudgetInv
<1>1. Init => BudgetInv
  <2> SUFFICES ASSUME Init PROVE BudgetInv
    OBVIOUS
  <2>1. CustodyInv
    BY CustodyInit
  <2>2. AckOrigin /\ CausesKnown /\ Deliveries
    BY DEF Init, AckOrigin, AcknowledgedOnlyIfHandled, CausesKnown, DeadLetteredForCause, Deliveries
  <2>3. Waiting(lists, status)
    BY KeyFacts, SMTT(30) DEF Init, Waiting
  <2>4. Room
    <3>1. ASSUME NEW m \in Messages PROVE 0 < Budget(m) /\ 0 <= Budget(m)
      <4>1. RetryThreshold[m] \in Nat
        BY ConstantsAssumption
      <4>2. QED
        BY <4>1, SMTT(30) DEF Budget
    <3>2. QED
      BY <3>1 DEF Init, Room, RoomFor, InHand
  <2>5. QED
    BY <2>1, <2>2, <2>3, <2>4 DEF BudgetInv
<1>2. BudgetInv /\ [Next]_vars => BudgetInv'
  <2> SUFFICES ASSUME BudgetInv, [Next]_vars PROVE BudgetInv'
    OBVIOUS
  <2>1. TypeOK /\ Ledger(lists, status) /\ Membership /\ Custody
    BY DEF BudgetInv, CustodyInv
  <2>2. TypeOK' /\ Ledger(lists, status)' /\ AckOrigin'
    BY <2>1, TypeStep, LedgerStep, AckOriginStep DEF BudgetInv, Ledger
  <2>3. Membership' /\ Custody' /\ CausesKnown' /\ Deliveries'
    BY <2>1, <2>2, MembershipStep, CustodyStep, CausesKnownStep, DeliveryStep
       DEF BudgetInv
  <2>4. Waiting(lists, status)'
    BY <2>1, WaitingStep DEF BudgetInv, Waiting
  <2>5. Room'
    BY <2>2, RoomStep DEF BudgetInv
  <2>6. QED
    BY <2>2, <2>3, <2>4, <2>5 DEF BudgetInv, CustodyInv
<1>3. QED
  BY <1>1, <1>2, PTL DEF Spec

(* No interleaving of crashes, shutdowns, reapers, failed acknowledgements and
   retries delivers a message more often than its retry threshold allows, for any
   number of consumers, unless a consumer was reaped alive or the message has a
   forced timer. *)
THEOREM AttemptsBoundedHolds == Spec => []AttemptsBounded
<1>1. BudgetInv => AttemptsBounded
  BY DEF BudgetInv, Room, RoomFor, Budget, AttemptsBounded
<1>2. QED
  BY <1>1, BudgetHolds, PTL

---------------------------------------------------------------------------
(***************************************************************************)
(* The counters in the properties of a queue, which scripts change by one  *)
(* at a time, agree with the messages they count.                          *)
(***************************************************************************)

INSTANCE FiniteSetTheorems

Num(A) == Cardinality(WithStatus(A))
One(b) == IF b THEN 1 ELSE 0

(* A change of status takes a message from one number to another. *)
LEMMA NumStep ==
    ASSUME TypeOK, NEW m \in Messages, NEW st \in Statuses,
           status' = [status EXCEPT ![m] = st], NEW A
    PROVE  /\ Num(A) \in Nat
           /\ Num(A)' = Num(A) + One(st \in A) - One(status[m] \in A)
<1> DEFINE S == WithStatus(A)
<1>1. IsFiniteSet(S) /\ Cardinality(S) \in Nat
  <2>1. S \in SUBSET Messages
    BY DEF WithStatus
  <2>2. QED
    BY <2>1, FiniteMessages, FS_Subset, FS_CardinalityType
<1>2. IsFiniteSet(S \ {m}) /\ Cardinality(S \ {m}) = IF m \in S THEN Cardinality(S) - 1 ELSE Cardinality(S)
  BY <1>1, FS_RemoveElement
<1>3. Cardinality((S \ {m}) \cup {m}) = Cardinality(S \ {m}) + 1
  BY <1>2, FS_AddElement
<1>4. WithStatus(A)' = IF st \in A THEN (S \ {m}) \cup {m} ELSE S \ {m}
  BY DEF WithStatus, TypeOK
<1>5. m \in S <=> status[m] \in A
  BY DEF WithStatus
<1>6. QED
  BY <1>1, <1>2, <1>3, <1>4, <1>5, SMTT(30) DEF Num, One

(* The statuses of the messages that are there. *)
Present == Statuses \ {"New", "Deleted"}
(* The messages that exist are those with one of the statuses that count. *)
LEMMA PresentExists == TypeOK => {m \in Messages : Exists(m)} = WithStatus(Present)
BY DEF WithStatus, Exists, Present, TypeOK

(* CountersConserved, with numbers. *)
Conserved ==
    /\ count["pending"] + count["processing"]
         = Num({"Pending", "Processing"}) - Cardinality(ghost)
    /\ count["requeued"] = Num({"UnackRequeuing"})
    /\ count["delayed"] = Num({"UnackDelaying"})
    /\ count["scheduled"] = Num({"Scheduled"})
    /\ count["acknowledged"] = Num({"Acknowledged"})
    /\ count["deadLettered"] = Num({"DeadLettered"})
    /\ count["messages"] = Num(Present) - Cardinality(ghost)

(* The step does to the counters what it does to the status of m, and to g hashes
   that were gone. *)
Tally(m, st, g) ==
    /\ Cardinality(ghost') = Cardinality(ghost) + g
    /\ count'["pending"] + count'["processing"] = count["pending"] + count["processing"]
          + One(st \in {"Pending", "Processing"}) - One(status[m] \in {"Pending", "Processing"}) - g
    /\ count'["requeued"] = count["requeued"]
          + One(st \in {"UnackRequeuing"}) - One(status[m] \in {"UnackRequeuing"})
    /\ count'["delayed"] = count["delayed"]
          + One(st \in {"UnackDelaying"}) - One(status[m] \in {"UnackDelaying"})
    /\ count'["scheduled"] = count["scheduled"]
          + One(st \in {"Scheduled"}) - One(status[m] \in {"Scheduled"})
    /\ count'["acknowledged"] = count["acknowledged"]
          + One(st \in {"Acknowledged"}) - One(status[m] \in {"Acknowledged"})
    /\ count'["deadLettered"] = count["deadLettered"]
          + One(st \in {"DeadLettered"}) - One(status[m] \in {"DeadLettered"})
    /\ count'["messages"] = count["messages"] + One(st \in Present) - One(status[m] \in Present) - g

(* Such a step keeps the counters in agreement with the messages. *)
LEMMA ConservedStep ==
    ASSUME TypeOK, TypeOK', Conserved, NEW m \in Messages, NEW st \in Statuses, NEW g \in {0, 1},
           status' = [status EXCEPT ![m] = st], Cardinality(ghost) \in Nat, Tally(m, st, g)
    PROVE  Conserved'
<1>1. \A k \in Counters : count[k] \in Int /\ count'[k] \in Int
  BY DEF TypeOK
<1>2. /\ {"pending", "processing", "messages"} \subseteq Counters
      /\ \A b : One(b) \in {0, 1}
  BY DEF Counters, One
<1>3. /\ Num({"Pending", "Processing"}) \in Nat
      /\ Num({"Pending", "Processing"})' = Num({"Pending", "Processing"})
            + One(st \in {"Pending", "Processing"}) - One(status[m] \in {"Pending", "Processing"})
  BY NumStep
<1>4. (count["pending"] + count["processing"]
         = Num({"Pending", "Processing"}) - Cardinality(ghost))'
  BY <1>1, <1>2, <1>3, SMTT(30) DEF Conserved, Tally
<1>5. (count["requeued"] = Num({"UnackRequeuing"}))'
  BY NumStep DEF Conserved, Tally
<1>6. (count["delayed"] = Num({"UnackDelaying"}))'
  BY NumStep DEF Conserved, Tally
<1>7. (count["scheduled"] = Num({"Scheduled"}))'
  BY NumStep DEF Conserved, Tally
<1>8. (count["acknowledged"] = Num({"Acknowledged"}))'
  BY NumStep DEF Conserved, Tally
<1>9. (count["deadLettered"] = Num({"DeadLettered"}))'
  BY NumStep DEF Conserved, Tally
<1>10. Num(Present) \in Nat /\ Num(Present)' = Num(Present) + One(st \in Present) - One(status[m] \in Present)
  BY NumStep
<1>11. (count["messages"] = Num(Present) - Cardinality(ghost))'
  BY <1>1, <1>2, <1>10, SMTT(30) DEF Conserved, Tally, Present
<1>12. QED
  BY <1>4, <1>5, <1>6, <1>7, <1>8, <1>9, <1>11 DEF Conserved

(* Every step keeps the counters in agreement with the messages. *)
LEMMA ConservedNext ==
    ASSUME TypeOK, TypeOK', Ledger(lists, status), Waiting(lists, status), Deliveries,
           Conserved, [Next]_vars
    PROVE  Conserved'
<1> USE DEF store
<1>t. /\ lists \in ListsType /\ status \in [Messages -> Statuses] /\ status \in StatusType
      /\ count \in [Counters -> Int] /\ Consumers \subseteq WorkPlaces
      /\ {"pending", "processing", "requeued", "delayed", "scheduled", "acknowledged",
          "deadLettered", "messages"} = Counters
  BY DEF TypeOK, ListsType, StatusType, WorkPlaces, Counters
<1>g. Cardinality(ghost) \in Nat /\ IsFiniteSet(ghost)
  <2>1. ghost \in SUBSET Messages
    BY DEF TypeOK
  <2>2. QED
    BY <2>1, FiniteMessages, FS_Subset, FS_CardinalityType
<1>s. ASSUME UNCHANGED <<status, ghost>>,
             count' = count \/ count' = Incr(Decr(count, "pending"), "processing")
      PROVE  Conserved'
  <2>1. \A A : WithStatus(A)' = WithStatus(A)
    BY <1>s DEF WithStatus
  <2>2. QED
    BY <1>s, <1>t, <2>1, SMTT(30) DEF Conserved, Num, Incr, Decr
(* A script that finds a message with a body moves it from one number to another. *)
<1>m. ASSUME NEW m \in Messages, NEW st \in Statuses, status' = [status EXCEPT ![m] = st],
             UNCHANGED ghost,
             \/ /\ status[m] = "New" /\ st = "Pending"
                /\ count' = Incr(Incr(count, "pending"), "messages")
             \/ /\ status[m] = "New" /\ st = "Scheduled"
                /\ count' = Incr(Incr(count, "scheduled"), "messages")
             \/ /\ status[m] \in DOMAIN HomeOf /\ st = "Deleted"
                /\ count' = Decr(Decr(count, HomeOf[status[m]]), "messages")
             \/ /\ status[m] = "Pending" /\ st = "Processing"
                /\ count' = Incr(Decr(count, "pending"), "processing")
             \/ /\ status[m] = "UnackRequeuing" /\ st = "Pending"
                /\ count' = Incr(Decr(count, "requeued"), "pending")
             \/ /\ status[m] = "UnackRequeuing" /\ st = "UnackDelaying"
                /\ count' = Incr(Decr(count, "requeued"), "delayed")
             \/ /\ status[m] = "UnackDelaying" /\ st = "Pending"
                /\ count' = Incr(Decr(count, "delayed"), "pending")
             \/ /\ status[m] = "Scheduled" /\ st = "Pending"
                /\ count' = Incr(Decr(count, "scheduled"), "pending")
      PROVE  Conserved'
  <2>1. Cardinality(ghost') = Cardinality(ghost) + 0
    BY <1>g, <1>m, SMTT(30)
  <2>2. ASSUME status[m] = "New" PROVE Tally(m, st, 0)
    BY <1>m, <1>t, <2>1, <2>2, SMTT(30) DEF Tally, Incr, Decr, One, HomeOf, Present, Statuses
  <2>3. ASSUME status[m] \in DOMAIN HomeOf /\ st = "Deleted" PROVE Tally(m, st, 0)
    BY <1>m, <1>t, <2>1, <2>3, SMTT(30) DEF Tally, Incr, Decr, One, HomeOf, Present, Statuses
  <2>4. ASSUME status[m] = "Pending" /\ st = "Processing" PROVE Tally(m, st, 0)
    BY <1>m, <1>t, <2>1, <2>4, SMTT(30) DEF Tally, Incr, Decr, One, HomeOf, Present, Statuses
  <2>5. ASSUME status[m] = "UnackRequeuing" /\ st # "Deleted" PROVE Tally(m, st, 0)
    BY <1>m, <1>t, <2>1, <2>5, SMTT(30) DEF Tally, Incr, Decr, One, HomeOf, Present, Statuses
  <2>6. ASSUME status[m] \in {"UnackDelaying", "Scheduled"} /\ st = "Pending" PROVE Tally(m, st, 0)
    BY <1>m, <1>t, <2>1, <2>6, SMTT(30) DEF Tally, Incr, Decr, One, HomeOf, Present, Statuses
  <2>7. QED
    <3>1. Tally(m, st, 0)
      BY <1>m, <2>2, <2>3, <2>4, <2>5, <2>6
    <3>2. QED
      BY <1>g, <1>m, <3>1, ConservedStep
(* A settlement, of a message that was claimed or of a hash that is gone. *)
<1>a. ASSUME NEW m \in Messages, status[m] \in {"Pending", "Processing", "Deleted"},
             ghost' = Touched(m),
             \/ /\ status' = [status EXCEPT ![m] = "Acknowledged"]
                /\ count' = Incr(Decr(count, "processing"), "acknowledged")
             \/ /\ status' = [status EXCEPT ![m] = "DeadLettered"]
                /\ count' = Incr(Decr(count, "processing"), "deadLettered")
             \/ /\ status' = [status EXCEPT ![m] = "UnackRequeuing"]
                /\ count' = Incr(Decr(count, "processing"), "requeued")
      PROVE  Conserved'
  <2>1. Cardinality(ghost') = Cardinality(ghost) + One(status[m] = "Deleted")
    <3>1. CASE status[m] = "Deleted"
      <4>1. m \notin ghost /\ ghost' = ghost \cup {m}
        BY <1>a, <3>1 DEF Touched, Deliveries
      <4>2. QED
        BY <1>g, <3>1, <4>1, FS_AddElement DEF One
    <3>2. CASE status[m] # "Deleted"
      BY <1>a, <1>g, <3>2, SMTT(30) DEF Touched, One
    <3>3. QED
      BY <3>1, <3>2
  <2>2. QED
    <3>1. PICK st \in {"Acknowledged", "DeadLettered", "UnackRequeuing"} :
             /\ status' = [status EXCEPT ![m] = st]
             /\ Tally(m, st, One(status[m] = "Deleted"))
      BY <1>a, <1>t, <2>1, SMTT(30) DEF Tally, Incr, Decr, One, Present, Statuses
    <3>2. st \in Statuses /\ One(status[m] = "Deleted") \in {0, 1}
      BY DEF Statuses, One
    <3>3. QED
      BY <1>g, <3>1, <3>2, ConservedStep
<1>f. ASSUME NEW c \in Consumers, NEW m \in Messages, lists[c][m] > 0
      PROVE  status[m] \in {"Pending", "Processing", "Deleted"}
  BY <1>f, <1>t, FoundIsUnsettled, FoundIsNotWaiting DEF Statuses, Settled
<1>1. CASE UNCHANGED vars
  BY <1>1, <1>s DEF vars
<1>2. ASSUME NEW m \in Messages, NEW st \in {"Pending", "Scheduled"}, status[m] = "New",
             PublishScript(m, st), UNCHANGED ghost
      PROVE  Conserved'
  BY <1>2, <1>m DEF PublishScript, Statuses
<1>3. CASE UserStep
  <2>1. ASSUME NEW m \in Messages, Publish(m) PROVE Conserved'
    BY <1>2, <2>1 DEF Publish
  <2>2. ASSUME NEW o \in Messages, NEW m \in Messages, RequeueMessage(o, m) PROVE Conserved'
    BY <1>2, <2>2 DEF RequeueMessage, RequeueMessageScript
  <2>3. ASSUME NEW m \in Messages, DeleteMessage(m) PROVE Conserved'
    <3>1. CASE UNCHANGED store
      BY <1>s, <3>1
    <3>2. CASE ~UNCHANGED store
      BY <1>m, <2>3, <3>2 DEF DeleteMessage, DeleteMessageScript, Statuses
    <3>3. QED
      BY <3>1, <3>2
  <2>4. CASE \/ \E m \in Messages : ExpireTTL(m)
             \/ \E s \in OperationalStates : SetQueueState(s)
    BY <1>s, <2>4 DEF ExpireTTL, SetQueueState
  <2>5. QED
    BY <1>3, <2>1, <2>2, <2>3, <2>4 DEF UserStep
<1>4. ASSUME NEW c \in Consumers, ConsumerStep(c) PROVE Conserved'
  BY <1>4, <1>s DEF ConsumerStep, StartConsumer, RestartHandler, RunHandler, Beat, HeartbeatExpires,
     StopHandler, ShutdownConsumer, CloseHandler, LoopExit, Crash
<1>5. ASSUME NEW c \in Consumers, LoopStep(c) PROVE Conserved'
  <2>1. ASSUME Checkout(c) PROVE Conserved'
    <3>1. PICK m \in Messages : m = envelope[c].msg
      BY <2>1 DEF Checkout, TypeOK
    <3>2. QED
      BY <1>m, <2>1, <3>1 DEF Checkout, CheckoutScript, Statuses
  <2>2. CASE ~Checkout(c)
    <3>1. UNCHANGED <<status, ghost, count>>
      BY <1>5, <2>2 DEF LoopStep, Pop, CheckoutRejected, CheckoutMissed, Timeout, HandlerSucceeds,
         HandlerFails
    <3>2. QED
      BY <1>s, <3>1
  <2>3. QED
    BY <2>1, <2>2
<1>6. CASE CallStep
  <2>1. CASE UNCHANGED store
    BY <1>s, <2>1
  <2>2. ASSUME NEW call \in ackCalls, AcknowledgeScript(call.owner, call.msg), ~UNCHANGED store
        PROVE  Conserved'
    <3>1. PICK c \in Consumers, m \in Messages : c = call.owner /\ m = call.msg
      BY <2>2 DEF TypeOK
    <3>2. QED
      BY <1>a, <1>f, <2>2, <3>1 DEF AcknowledgeScript
  <2>3. ASSUME NEW call \in unackCalls, UnacknowledgeScript(call), ~UNCHANGED store
        PROVE  Conserved'
    <3>1. PICK c \in Consumers, m \in Messages : c = call.owner /\ m = call.msg
      BY <2>3 DEF TypeOK
    <3>2. lists[c][m] > 0 /\ ghost' = Touched(m)
      BY <2>3, <3>1 DEF UnacknowledgeScript
    <3>3. \/ /\ status' = [status EXCEPT ![m] = "DeadLettered"]
             /\ count' = Incr(Decr(count, "processing"), "deadLettered")
          \/ /\ status' = [status EXCEPT ![m] = "UnackRequeuing"]
             /\ count' = Incr(Decr(count, "processing"), "requeued")
      BY <2>3, <3>1, <3>2 DEF UnacknowledgeScript
    <3>4. QED
      BY <1>a, <1>f, <3>2, <3>3
  <2>4. QED
    BY <1>6, <2>1, <2>2, <2>3 DEF CallStep, Acknowledge, AcknowledgeFails, Unacknowledge,
       UnacknowledgeFails
<1>7. ASSUME NEW m \in Messages, RequeueImmediate(m) \/ RequeueDelayed(m) \/ PublishScheduled(m)
      PROVE  Conserved'
  <2>1. CASE RequeueImmediate(m)
    BY <1>m, <2>1 DEF RequeueImmediate, RequeueImmediateScript, Waiting, Statuses
  <2>2. CASE RequeueDelayed(m)
    BY <1>m, <2>2 DEF RequeueDelayed, RequeueDelayedScript, Waiting, Statuses
  <2>3. CASE PublishScheduled(m)
    BY <1>m, <2>3 DEF PublishScheduled, PublishScheduledScript, Waiting, Statuses
  <2>4. QED
    BY <1>7, <2>1, <2>2, <2>3
<1>8. CASE \/ \E w, c \in Consumers : ReapDetect(w, c)
           \/ \E w \in Consumers : ReapLoad(w) \/ ReapUnsubscribe(w)
  BY <1>8, <1>s DEF ReapDetect, ReapLoad, ReapUnsubscribe
<1>9. QED
  BY <1>1, <1>3, <1>4, <1>5, <1>6, <1>7, <1>8 DEF Next, WorkerStep

(* The counters that GetProperties reports never drift from the messages, whatever
   calls are late, lost or repeated, but for what CountersConserved excepts: a
   script that finds nothing to move does not count. *)
THEOREM CountersConservedHolds == Spec => []CountersConserved
<1>1. Init => Conserved
  <2> SUFFICES ASSUME Init PROVE Conserved
    OBVIOUS
  <2>1. \A A : "New" \notin A => WithStatus(A) = {}
    BY DEF Init, WithStatus
  <2>2. Cardinality({}) = 0
    BY FS_EmptySet
  <2>3. \A A : "New" \notin A => Num(A) = 0
    BY <2>1, <2>2 DEF Num
  <2>4. Cardinality(ghost) = 0 /\ \A k \in Counters : count[k] = 0
    BY <2>2 DEF Init
  <2>5. "New" \notin Present
    BY DEF Present
  <2>6. QED
    BY <2>3, <2>4, <2>5, SMTT(30) DEF Conserved, Counters
<1>2. BudgetInv /\ TypeOK' /\ Conserved /\ [Next]_vars => Conserved'
  BY ConservedNext DEF BudgetInv, CustodyInv
<1>3. BudgetInv /\ Conserved => CountersConserved
  BY PresentExists DEF BudgetInv, CustodyInv, Conserved, CountersConserved, Num
<1>4. BudgetInv => TypeOK
  BY DEF BudgetInv, CustodyInv
<1>5. QED
  BY <1>1, <1>2, <1>3, <1>4, BudgetHolds, PTL DEF Spec
===========================================================================
