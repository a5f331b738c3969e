-------------------------- MODULE ScheduleProofs --------------------------
(***************************************************************************)
(* What publish-scheduled.lua and the counters of a scheduled message      *)
(* guarantee, for any options, any number of publishers and of faults.     *)
(***************************************************************************)
EXTENDS Schedule, FiniteSetTheorems, TLAPS

USE ZenonT(30)

Statuses == {"new", "none", "Scheduled", "Pending", "DeadLettered"}
Plans == [delay : Nat, cron : Nat \cup {BadCron}, repeat : Nat,
          period : (Nat \ {0}) \cup {NoPeriod}]
Hashes == [status : Statuses, body : BOOLEAN, count : Nat, fired : BOOLEAN]
States == [count : Nat, fired : BOOLEAN, delay : Nat]

RoundOK(r) ==
    /\ r.pc \in {"idle", "fetched", "loaded", "sent"}
    /\ r.pc = "idle" => r = Idle
    /\ r.pc \in {"loaded", "sent"} => r.state \in States
    /\ r.pc = "sent" => r.at \in Nat

PlanType == plan \in Plans
HashType == hash \in Hashes
RoundType == round = [p \in Publishers |-> round[p]] /\ \A p \in Publishers : RoundOK(round[p])
TimeType == now \in Nat \ {0} /\ published \in Seq(Nat) /\ counter \in Int
Shape == PlanType /\ HashType /\ RoundType /\ TimeType

(* What the calls do to the counters of a message. *)
LEMMA StateSteps ==
    ASSUME NEW s \in States
    PROVE  /\ [s EXCEPT !.delay = 0] \in States
           /\ [s EXCEPT !.count = @ + 1] \in States
           /\ [s EXCEPT !.count = 0, !.fired = TRUE] \in States
<1>1. [s EXCEPT !.delay = 0] \in States
  BY DEF States
<1>2. [s EXCEPT !.count = @ + 1] \in States
  BY SMTT(30) DEF States
<1>3. [s EXCEPT !.count = 0, !.fired = TRUE] \in States
  BY DEF States
<1>4. QED
  BY <1>1, <1>2, <1>3

(* The next occurrence leaves the counters well-formed. *)
LEMMA NextState ==
    ASSUME NEW s \in States, NEW t \in Nat
    PROVE  NextScheduledTimestamp(s, t).state \in States
<1> DEFINE cron == NextTick(t)  repeat == RepeatTimestamp(s, t)
<1>1. CASE s.delay > 0
  BY <1>1, StateSteps DEF NextScheduledTimestamp
<1>2. CASE ~(s.delay > 0) /\ repeat > 0 /\ (cron = 0 \/ repeat < cron)
  <2>1. NextScheduledTimestamp(s, t).state = [s EXCEPT !.count = @ + 1]
    BY <1>2 DEF NextScheduledTimestamp
  <2>2. QED
    BY <2>1, StateSteps
<1>3. CASE ~(s.delay > 0) /\ ~(repeat > 0 /\ (cron = 0 \/ repeat < cron))
  <2>1. NextScheduledTimestamp(s, t).state \in {[s EXCEPT !.count = 0, !.fired = TRUE], s}
    BY <1>3 DEF NextScheduledTimestamp
  <2>2. QED
    BY <2>1, StateSteps
<1>4. QED
  BY <1>1, <1>2, <1>3

(* The script, whatever its arguments: it publishes one entry or none. *)
LEMMA ScriptEffect ==
    ASSUME HashType, TimeType, NEW r, RoundOK(r), r.pc = "sent", PublishScheduledScript(r)
    PROVE  /\ hash' \in Hashes /\ counter' \in Int
           /\ \/ published' = published
              \/ published' = Append(published, r.at) /\ r.at \in Nat
           /\ hash'.body = hash.body
           /\ hash'.status \in {hash.status, "Pending", "DeadLettered"}
<1> DEFINE dead == [hash EXCEPT !.status = "DeadLettered"]
<1>1. ASSUME NEW st \in Statuses PROVE Touched(r.state, st) \in Hashes
  BY DEF HashType, Hashes, Touched, RoundOK, States
<1>2. ASSUME NEW st \in Statuses
      PROVE  Touched(r.state, st).body = hash.body /\ Touched(r.state, st).status = st
  BY DEF HashType, Hashes, Touched
<1>3. dead \in Hashes /\ dead.body = hash.body /\ dead.status = "DeadLettered"
  BY DEF HashType, Hashes, Statuses
<1>4. hash.status \in Statuses /\ "Pending" \in Statuses
  BY DEF HashType, Hashes, Statuses
<1>5. /\ hash' \in {hash, dead, Touched(r.state, hash.status), Touched(r.state, "Pending")}
      /\ counter' \in {counter, counter - 1}
      /\ published' = published \/ published' = Append(published, r.at)
  BY DEF PublishScheduledScript, Republish, MoveSimple
<1> HIDE DEF dead
<1>6. /\ hash' \in Hashes /\ hash'.body = hash.body
      /\ hash'.status \in {hash.status, "Pending", "DeadLettered"}
  BY <1>1, <1>2, <1>3, <1>4, <1>5 DEF HashType
<1>7. QED
  BY <1>5, <1>6, SMTT(30) DEF TimeType, RoundOK

(* The producer schedules the message or publishes it. *)
LEMMA ProduceEffect ==
    ASSUME Shape, Produce
    PROVE  /\ hash' \in Hashes /\ hash'.body = TRUE
           /\ \/ /\ score' > 0 /\ counter' = counter + 1 /\ published' = published
                 /\ hash'.status = "Scheduled"
              \/ /\ UNCHANGED <<score, counter>> /\ published' = <<now>>
                 /\ hash'.status = "Pending"
<1> DEFINE next == NextScheduledTimestamp(NewState, now)
           stored == [hash EXCEPT !.body = TRUE, !.count = next.state.count,
                                  !.fired = next.state.fired]
<1>1. next.state \in States
  <2>1. NewState \in States
    BY DEF Shape, NewState, PlanType, Plans, States
  <2>2. QED
    BY <2>1, NextState DEF Shape, TimeType
<1>2. \/ /\ score' > 0 /\ counter' = counter + 1 /\ published' = published
         /\ hash' = [stored EXCEPT !.status = "Scheduled"]
      \/ /\ UNCHANGED <<score, counter>> /\ published' = <<now>>
         /\ hash' = [stored EXCEPT !.status = "Pending"]
  BY DEF Produce
<1>3. stored \in Hashes /\ stored.body = TRUE
  BY <1>1 DEF Shape, HashType, Hashes, States
<1> HIDE DEF stored
<1>4. ASSUME NEW st \in Statuses
      PROVE  /\ [stored EXCEPT !.status = st] \in Hashes
             /\ [stored EXCEPT !.status = st].body = TRUE
             /\ [stored EXCEPT !.status = st].status = st
  BY <1>3 DEF Hashes
<1>5. QED
  BY <1>2, <1>4 DEF Statuses

(* The steps that have no effect on what was published. *)
Quiet ==
    \/ Tick \/ DeleteMessage \/ ChangeQueue \/ UNCHANGED vars
    \/ \E p \in Publishers :
          FetchDue(p) \/ LoadMessage(p) \/ EnqueueScheduled(p) \/ SendFails(p) \/ TakeOver(p) \/ Overlap(p)

(* The steps by what they do to the message. *)
LEMMA Split ==
    [Next]_vars => \/ Quiet \/ Produce
                   \/ \E p \in Publishers : PublishScheduled(p) \/ Resend(p)
BY DEF Next, Round, Quiet

(* The options of a message never change. *)
LEMMA PlanStep == [Next]_vars => plan' = plan
BY DEF Next, Round, vars, message, Tick, Produce, DeleteMessage, ChangeQueue, FetchDue, LoadMessage,
   EnqueueScheduled, PublishScheduled, Resend, SendFails, TakeOver, Overlap

(* Every step keeps the types. *)
LEMMA ShapeStep == Shape /\ [Next]_vars => Shape'
<1> SUFFICES ASSUME Shape, [Next]_vars PROVE Shape'
  OBVIOUS
<1> USE DEF message, queue, history
<1>t. PlanType /\ HashType /\ RoundType /\ TimeType
  BY DEF Shape
<1>1. PlanType'
  BY <1>t, PlanStep DEF PlanType
<1>2. HashType' /\ TimeType'
  <2>1. CASE UNCHANGED <<hash, published, counter>> /\ now' \in Nat \ {0}
    BY <1>t, <2>1 DEF HashType, TimeType
  <2>2. CASE Produce
    <3>1. <<now>> \in Seq(Nat) /\ counter + 1 \in Int /\ now' = now
      BY <1>t, <2>2, SMTT(30) DEF TimeType, Produce
    <3>2. QED
      BY <1>t, <2>2, <3>1, ProduceEffect DEF HashType, TimeType
  <2>3. ASSUME NEW p \in Publishers, PublishScheduled(p) \/ Resend(p) PROVE HashType' /\ TimeType'
    <3>1. PICK r : r = round[p]
      OBVIOUS
    <3>2. RoundOK(r) /\ r.pc = "sent" /\ PublishScheduledScript(r) /\ now' = now
      BY <1>t, <2>3, <3>1 DEF PublishScheduled, Resend, RoundType
    <3>3. /\ hash' \in Hashes /\ counter' \in Int
          /\ published' = published \/ (published' = Append(published, r.at) /\ r.at \in Nat)
      BY <1>t, <3>2, ScriptEffect
    <3>4. QED
      BY <1>t, <3>2, <3>3, SMTT(30) DEF HashType, TimeType
  <2>4. CASE DeleteMessage
    <3>1. Missing \in Hashes
      BY DEF Missing, Hashes, Statuses
    <3>2. hash' = Missing /\ counter' = counter - 1 /\ UNCHANGED <<now, published>>
      BY <2>4 DEF DeleteMessage
    <3>3. QED
      BY <1>t, <3>1, <3>2, SMTT(30) DEF HashType, TimeType
  <2>5. CASE Quiet /\ ~DeleteMessage
    BY <1>t, <2>1, <2>5, SMTT(30) DEF Quiet, vars, Tick, ChangeQueue, FetchDue, LoadMessage, EnqueueScheduled,
       SendFails, TakeOver, Overlap, TimeType
  <2>6. QED
    BY <2>2, <2>3, <2>4, <2>5, Split
<1>3. RoundType'
  <2>1. CASE round' = round
    BY <1>t, <2>1 DEF RoundType
  <2>2. ASSUME NEW p \in Publishers, NEW r, RoundOK(r), round' = [round EXCEPT ![p] = r]
        PROVE  RoundType'
    BY <1>t, <2>2 DEF RoundType
  <2>3. RoundOK(Idle)
    BY DEF RoundOK, Idle
  <2>4. ASSUME NEW p \in Publishers, PublishScheduled(p) \/ SendFails(p) PROVE RoundType'
    BY <2>2, <2>3, <2>4 DEF PublishScheduled, SendFails
  <2>5. ASSUME NEW p \in Publishers, FetchDue(p) PROVE RoundType'
    <3>1. RoundOK([pc |-> "fetched"])
      BY DEF RoundOK
    <3>2. QED
      BY <2>2, <2>5, <3>1 DEF FetchDue
  <2>6. ASSUME NEW p \in Publishers, LoadMessage(p) PROVE RoundType'
    <3>1. DecodeState \in States
      BY <1>t DEF DecodeState, PlanType, Plans, HashType, Hashes, States
    <3>2. RoundOK([pc |-> "loaded", state |-> DecodeState])
      BY <3>1 DEF RoundOK
    <3>3. QED
      BY <2>2, <2>3, <2>6, <3>2 DEF LoadMessage
  <2>7. ASSUME NEW p \in Publishers, EnqueueScheduled(p) PROVE RoundType'
    <3> DEFINE next == NextScheduledTimestamp(round[p].state, now)
    <3>1. next.state \in States
      BY <1>t, <2>7, NextState DEF EnqueueScheduled, RoundType, RoundOK, TimeType
    <3>2. RoundOK([pc |-> "sent", at |-> now, next |-> next.at, state |-> next.state,
                   repeating |-> next.at > 0 /\ IsPeriodic])
      BY <1>t, <3>1 DEF RoundOK, TimeType
    <3>3. QED
      BY <2>2, <2>7, <3>2 DEF EnqueueScheduled
  <2>8. ASSUME NEW p \in Publishers, TakeOver(p) PROVE RoundType'
    BY <2>3, <2>8 DEF TakeOver, RoundType
  <2>9. QED
    BY <2>1, <2>4, <2>5, <2>6, <2>7, <2>8 DEF Next, Round, vars, Tick, Produce, DeleteMessage,
       ChangeQueue, Resend, Overlap
<1>4. QED
  BY <1>1, <1>2, <1>3 DEF Shape

(* The types hold at the start. *)
LEMMA ShapeInit == Init => Shape
<1> SUFFICES ASSUME Init PROVE Shape
  OBVIOUS
<1>1. PlanType
  BY OptionsAreTimes DEF Init, PlanType, Plans, BadCron, NoPeriod
<1>2. HashType
  BY DEF Init, HashType, Hashes, Missing, Statuses
<1>3. RoundType
  BY DEF Init, RoundType, RoundOK, Idle
<1>4. TimeType
  BY SMTT(30) DEF Init, TimeType
<1>5. QED
  BY <1>1, <1>2, <1>3, <1>4 DEF Shape
---------------------------------------------------------------------------
(* Before the message is dispatched nothing has happened to it. *)
Fresh ==
    hash.status = "new" =>
        /\ published = <<>> /\ score = 0 /\ ~hash.body /\ counter = 0 /\ deletion = NoDeletion
        /\ \A p \in Publishers : round[p] = Idle

(* No step makes a message new again. *)
LEMMA FreshStep == Shape /\ Fresh /\ [Next]_vars => Fresh'
<1> SUFFICES ASSUME Shape, Fresh, [Next]_vars, hash'.status = "new" PROVE Fresh'
  BY DEF Fresh
<1> USE DEF message, queue, history
<1>t. HashType /\ RoundType /\ TimeType
  BY DEF Shape
<1>1. hash.status = "new"
  <2>1. ASSUME NEW p \in Publishers, PublishScheduled(p) \/ Resend(p)
        PROVE  hash'.status \in {hash.status, "Pending", "DeadLettered"}
    <3>1. PICK r : r = round[p]
      OBVIOUS
    <3>2. RoundOK(r) /\ r.pc = "sent" /\ PublishScheduledScript(r)
      BY <1>t, <2>1, <3>1 DEF PublishScheduled, Resend, RoundType
    <3>3. QED
      BY <1>t, <3>2, ScriptEffect
  <2>2. CASE DeleteMessage
    BY <2>2 DEF DeleteMessage, Missing
  <2>3. CASE Quiet /\ ~DeleteMessage
    BY <2>3 DEF Quiet, vars, Tick, ChangeQueue, FetchDue, LoadMessage, EnqueueScheduled, SendFails,
       TakeOver, Overlap
  <2>4. QED
    BY <2>1, <2>2, <2>3, ProduceEffect, Split
<1>2. /\ published = <<>> /\ score = 0 /\ ~hash.body /\ counter = 0 /\ deletion = NoDeletion
      /\ \A p \in Publishers : round[p] = Idle /\ round[p].pc = "idle"
  BY <1>1, SMTT(30) DEF Fresh, Idle
<1>3. /\ ~Produce /\ ~DeleteMessage
      /\ \A p \in Publishers : /\ ~FetchDue(p) /\ ~LoadMessage(p) /\ ~EnqueueScheduled(p)
                              /\ ~PublishScheduled(p) /\ ~Resend(p) /\ ~SendFails(p)
  BY <1>1, <1>2, ProduceEffect, SMTT(30) DEF DeleteMessage, FetchDue, LoadMessage, EnqueueScheduled,
     PublishScheduled, Resend, SendFails
<1>4. UNCHANGED <<hash, published, score, counter, deletion>> /\ \A p \in Publishers : round'[p] = Idle
  BY <1>2, <1>3 DEF Next, Round, vars, Tick, ChangeQueue, TakeOver, Overlap
<1>5. QED
  BY <1>2, <1>4 DEF Fresh

(* The types and the state before dispatch are invariant. *)
LEMMA FreshHolds == Spec => [](Shape /\ Fresh)
<1>1. Init => Shape /\ Fresh
  BY ShapeInit DEF Init, Fresh, Missing
<1>2. Shape /\ Fresh /\ [Next]_vars => Shape' /\ Fresh'
  BY ShapeStep, FreshStep
<1>3. QED
  BY <1>1, <1>2, PTL DEF Spec
-----------------------------------------------------------------------------
(* A message that does not repeat: while it is scheduled it has not been published, and
   the scripts of its rounds move it, if it is there to be moved. *)
Once ==
    ~IsPeriodic =>
        /\ Len(published) <= 1
        /\ score > 0 => published = <<>>
        /\ \A p \in Publishers : round[p].pc = "sent" => ~round[p].repeating

(* The steps that change the rounds only. *)
LEMMA RoundStep ==
    ASSUME Shape, NEW p \in Publishers, FetchDue(p) \/ LoadMessage(p) \/ EnqueueScheduled(p)
    PROVE  /\ UNCHANGED <<message, published, queue, workers, history>>
           /\ \A q \in Publishers : q # p => round'[q] = round[q]
           /\ round'[p].pc # "idle" \/ round'[p] = Idle
           /\ round'[p].pc = "sent" => EnqueueScheduled(p) /\ (round'[p].repeating => IsPeriodic)
<1>1. DOMAIN round = Publishers
  BY DEF Shape, RoundType
<1>2. UNCHANGED <<message, published, queue, workers, history>>
  BY DEF FetchDue, LoadMessage, EnqueueScheduled
<1>3. \A q \in Publishers : q # p => round'[q] = round[q]
  BY <1>1 DEF FetchDue, LoadMessage, EnqueueScheduled
<1>4. CASE FetchDue(p)
  <2>1. round'[p] = [pc |-> "fetched"]
    BY <1>1, <1>4 DEF FetchDue
  <2>2. QED
    BY <1>2, <1>3, <2>1, SMTT(30)
<1>5. CASE LoadMessage(p)
  <2>1. round'[p] \in {[pc |-> "loaded", state |-> DecodeState], Idle}
    BY <1>1, <1>5 DEF LoadMessage
  <2>2. QED
    BY <1>2, <1>3, <2>1, SMTT(30) DEF Idle
<1>6. CASE EnqueueScheduled(p)
  <2>1. round'[p].pc = "sent" /\ (round'[p].repeating => IsPeriodic)
    BY <1>1, <1>6 DEF EnqueueScheduled
  <2>2. QED
    BY <1>2, <1>3, <1>6, <2>1
<1>7. QED
  BY <1>4, <1>5, <1>6

(* ZREM lets one script move the message. *)
LEMMA OnceStep == Shape /\ Fresh /\ Once /\ [Next]_vars => Once'
<1> SUFFICES ASSUME Shape, Fresh, Once, [Next]_vars, ~IsPeriodic'
             PROVE  /\ Len(published') <= 1
                    /\ score' > 0 => published' = <<>>
                    /\ \A p \in Publishers : round'[p].pc = "sent" => ~round'[p].repeating
  BY DEF Once
<1>p. plan' = plan
  BY PlanStep
<1>o. /\ Len(published) <= 1
      /\ score > 0 => published = <<>>
      /\ \A p \in Publishers : round[p].pc = "sent" => ~round[p].repeating
  BY <1>p DEF Once, IsPeriodic
<1>d. DOMAIN round = Publishers
  BY DEF Shape, RoundType
<1>1. CASE Produce
  <2>1. published = <<>> /\ score = 0 /\ round' = round
    BY <1>1 DEF Fresh, Produce
  <2>2. Len(<<now>>) = 1 /\ Len(<<>>) = 0
    OBVIOUS
  <2>e. published' = published \/ (score' = score /\ published' = <<now>>)
    BY <1>1, ProduceEffect
  <2>3. Len(published') \in {0, 1}
    BY <2>1, <2>2, <2>e
  <2>s. score' > 0 => published' = <<>>
    BY <2>1, <2>e, SMTT(30)
  <2>4. QED
    BY <1>o, <2>1, <2>3, <2>s, SMTT(30)
<1>2. ASSUME NEW p \in Publishers, PublishScheduled(p) \/ Resend(p)
      PROVE  Len(published') <= 1 /\ (score' > 0 => published' = <<>>)
  <2>1. PICK r : r = round[p]
    OBVIOUS
  <2>2. ~r.repeating /\ PublishScheduledScript(r)
    BY <1>2, <1>o, <2>1 DEF PublishScheduled, Resend
  <2>3. CASE open /\ score > 0 /\ group
    <3>1. published' = Append(<<>>, r.at) /\ score' = 0
      BY <1>o, <2>2, <2>3 DEF PublishScheduledScript, MoveSimple
    <3>2. Len(Append(<<>>, r.at)) = 1
      BY SMTT(30)
    <3>3. QED
      BY <3>1, <3>2, SMTT(30)
  <2>4. CASE ~(open /\ score > 0 /\ group)
    BY <1>o, <2>2, <2>4 DEF PublishScheduledScript, MoveSimple
  <2>5. QED
    BY <2>3, <2>4
<1>3. ASSUME NEW p \in Publishers, PublishScheduled(p) \/ Resend(p)
      PROVE  \A q \in Publishers : round'[q].pc = "sent" => ~round'[q].repeating
  BY <1>d, <1>o, <1>3, SMTT(30) DEF PublishScheduled, Resend, Idle
<1>4. ASSUME NEW p \in Publishers, FetchDue(p) \/ LoadMessage(p) \/ EnqueueScheduled(p)
      PROVE  Once'
  BY <1>o, <1>p, <1>4, RoundStep DEF message, Once, IsPeriodic
<1>5. ASSUME NEW p \in Publishers, SendFails(p) \/ TakeOver(p) \/ Overlap(p)
      PROVE  Once'
  BY <1>d, <1>o, <1>5, SMTT(30) DEF SendFails, TakeOver, Overlap, Idle, message, Once
<1>6. CASE Tick \/ DeleteMessage \/ ChangeQueue \/ UNCHANGED vars
  BY <1>o, <1>6 DEF Tick, DeleteMessage, ChangeQueue, vars, message
<1>7. QED
  BY <1>1, <1>2, <1>3, <1>4, <1>5, <1>6 DEF Next, Round, Once

(* publish-scheduled.lua moves what ZREM removed: a message that does not repeat is
   published at most once, for any number of publishers and of repeated calls. *)
THEOREM SimpleOnceHolds == Spec => []SimpleOnce
<1>1. Init => Once
  BY SMTT(30) DEF Init, Once, Idle
<1>2. Once => SimpleOnce
  BY DEF Once, SimpleOnce
<1>3. QED
  BY <1>1, <1>2, OnceStep, FreshHolds, PTL DEF Spec
-----------------------------------------------------------------------------
(* The rounds that have read the message and not published it yet. *)
Flying == {p \in Publishers : round[p].pc \in {"loaded", "sent"}}

(* After its deletion the message has no body, so that nobody reads it again, and what
   is published comes out of the rounds that had read it. *)
Bodiless == deletion # NoDeletion => hash.status \notin {"new", "Scheduled"} /\ hash.body = FALSE
Budget ==
    ~resent /\ deletion # NoDeletion =>
        Len(published) - deletion.published + Cardinality(Flying) <= deletion.flying
DeletionType == deletion \in [flying : Int, published : Int]
Ended == Bodiless /\ Budget /\ DeletionType

(* Fewer rounds: the set of those under way is finite and its size is monotonic. *)
LEMMA FlyingFinite ==
    /\ IsFiniteSet(Flying) /\ Cardinality(Flying) \in Nat
    /\ \A S : S \subseteq Flying => IsFiniteSet(S) /\ Cardinality(S) \in Nat
                                    /\ Cardinality(S) <= Cardinality(Flying)
<1>1. IsFiniteSet(Flying) /\ Cardinality(Flying) \in Nat
  <2>1. Flying \subseteq Publishers
    BY DEF Flying
  <2>2. QED
    BY <2>1, PublishersFinite, FS_Subset, FS_CardinalityType
<1>2. ASSUME NEW S, S \subseteq Flying
      PROVE  /\ IsFiniteSet(S) /\ Cardinality(S) \in Nat
             /\ Cardinality(S) <= Cardinality(Flying)
  BY <1>1, <1>2, FS_Subset, FS_CardinalityType
<1>3. QED
  BY <1>1, <1>2

(* No script writes the body of the message. *)
LEMMA BodilessStep == Shape /\ Fresh /\ Bodiless /\ [Next]_vars => Bodiless'
<1> SUFFICES ASSUME Shape, Fresh, Bodiless, [Next]_vars PROVE Bodiless'
  OBVIOUS
<1> USE DEF message, history
<1>1. CASE DeleteMessage
  BY <1>1 DEF DeleteMessage, Missing, Bodiless
<1>2. CASE Produce
  BY <1>2 DEF Produce, Fresh, Bodiless
<1>3. ASSUME NEW p \in Publishers, PublishScheduled(p) \/ Resend(p) PROVE Bodiless'
  <2>1. PICK r : r = round[p]
    OBVIOUS
  <2>2. RoundOK(r) /\ r.pc = "sent" /\ PublishScheduledScript(r) /\ deletion' = deletion
    BY <1>3, <2>1 DEF Shape, RoundType, PublishScheduled, Resend
  <2>3. /\ hash'.body = hash.body
        /\ hash'.status \in {hash.status, "Pending", "DeadLettered"}
    BY <2>2, ScriptEffect DEF Shape
  <2>4. QED
    BY <2>2, <2>3 DEF Bodiless
<1>4. CASE Quiet /\ ~DeleteMessage
  BY <1>4 DEF Quiet, vars, Tick, ChangeQueue, FetchDue, LoadMessage, EnqueueScheduled, SendFails,
     TakeOver, Overlap, Bodiless
<1>5. QED
  BY <1>1, <1>2, <1>3, <1>4, Split

(* A script that publishes ends a round that had read the message. *)
LEMMA BudgetStep == Shape /\ Ended /\ [Next]_vars => Budget' /\ DeletionType'
<1> SUFFICES ASSUME Shape, Ended, [Next]_vars PROVE Budget' /\ DeletionType'
  OBVIOUS
<1> USE DEF message, history
<1>d. DOMAIN round = Publishers
  BY DEF Shape, RoundType
<1>l. Len(published) \in Nat /\ DeletionType
  BY SMTT(30) DEF Shape, TimeType, Ended
<1>1. CASE DeleteMessage
  <2>1. /\ deletion' = [flying |-> Cardinality(Flying), published |-> Len(published)]
        /\ published' = published /\ Flying' = Flying
    BY <1>1 DEF DeleteMessage, Flying
  <2>2. deletion'.flying = Cardinality(Flying) /\ deletion'.published = Len(published)
    BY <2>1
  <2>3. QED
    BY <1>l, <2>1, <2>2, FlyingFinite, SMTT(30) DEF Budget, DeletionType
<1>2. ASSUME ~DeleteMessage PROVE deletion' = deletion
  BY <1>2 DEF Next, Round, vars, Tick, Produce, ChangeQueue, FetchDue, LoadMessage, EnqueueScheduled,
     PublishScheduled, Resend, SendFails, TakeOver, Overlap
<1>3. ASSUME ~DeleteMessage, ~resent', deletion' # NoDeletion
      PROVE  Len(published') - deletion.published + Cardinality(Flying') <= deletion.flying
  <2>1. ~resent /\ deletion # NoDeletion
    BY <1>2, <1>3, SMTT(30) DEF Next, Round, vars, Tick, Produce, ChangeQueue, FetchDue, LoadMessage,
       EnqueueScheduled, PublishScheduled, Resend, SendFails, TakeOver, Overlap
  <2>2. /\ hash.status # "new" /\ hash.body = FALSE
        /\ Len(published) - deletion.published + Cardinality(Flying) <= deletion.flying
    BY <2>1 DEF Ended, Bodiless, Budget
  <2>3. deletion.published \in Int /\ deletion.flying \in Int
    BY <1>l DEF DeletionType
  <2>4. ASSUME NEW p \in Publishers, PublishScheduled(p)
        PROVE  Len(published') - deletion.published + Cardinality(Flying') <= deletion.flying
    <3>1. PICK r : r = round[p]
      OBVIOUS
    <3>2. RoundOK(r) /\ r.pc = "sent" /\ PublishScheduledScript(r)
      BY <2>4, <3>1 DEF Shape, RoundType, PublishScheduled
    <3>3. published' = published \/ (published' = Append(published, r.at) /\ r.at \in Nat)
      BY <3>2, ScriptEffect DEF Shape
    <3>4. Len(published') \in {Len(published), Len(published) + 1}
      BY <3>3, SMTT(30) DEF Shape, TimeType
    <3>5. p \in Flying /\ Flying' = Flying \ {p}
      BY <1>d, <2>4, <3>1, <3>2 DEF Flying, PublishScheduled, Idle
    <3>6. Cardinality(Flying') = Cardinality(Flying) - 1
      BY <3>5, FlyingFinite, FS_RemoveElement
    <3>7. QED
      BY <1>l, <2>2, <2>3, <3>4, <3>6, FlyingFinite, SMTT(30)
  <2>5. ASSUME published' = published, Flying' \subseteq Flying
        PROVE  Len(published') - deletion.published + Cardinality(Flying') <= deletion.flying
    <3>1. Cardinality(Flying') \in Nat /\ Cardinality(Flying') <= Cardinality(Flying)
      BY <2>5, FlyingFinite
    <3>2. QED
      BY <1>l, <2>2, <2>3, <2>5, <3>1, FlyingFinite, SMTT(30)
  <2>6. ASSUME NEW p \in Publishers, FetchDue(p) \/ LoadMessage(p) \/ EnqueueScheduled(p)
        PROVE  published' = published /\ Flying' \subseteq Flying
    <3>1. published' = published /\ \A q \in Publishers : q # p => round'[q] = round[q]
      BY <2>6, RoundStep
    <3>2. round'[p].pc \in {"loaded", "sent"} => round[p].pc = "loaded"
      BY <1>d, <2>2, <2>6, SMTT(30) DEF FetchDue, LoadMessage, EnqueueScheduled, Idle
    <3>3. QED
      BY <3>1, <3>2 DEF Flying
  <2>7. ASSUME NEW p \in Publishers, SendFails(p) \/ TakeOver(p) \/ Overlap(p)
        PROVE  published' = published /\ Flying' \subseteq Flying
    BY <1>d, <2>7, SMTT(30) DEF SendFails, TakeOver, Overlap, Idle, Flying
  <2>8. CASE Tick \/ ChangeQueue \/ UNCHANGED vars
    BY <2>5, <2>8 DEF Tick, ChangeQueue, vars, Flying
  <2>9. ~Produce /\ \A p \in Publishers : ~Resend(p)
    BY <1>3, <2>2 DEF Produce, Resend
  <2>10. QED
    BY <1>3, <2>4, <2>5, <2>6, <2>7, <2>8, <2>9 DEF Next, Round
<1>4. QED
  BY <1>1, <1>2, <1>3, <1>l DEF Budget, DeletionType

(* Once a scheduled message is deleted, at most one copy per round that had read it is
   still published, unless a script is executed twice. *)
THEOREM DeletedStopsHolds == Spec => []DeletedStops
<1>1. Init => Ended
  BY SMTT(30) DEF Init, Ended, Bodiless, Budget, DeletionType, NoDeletion
<1>2. Shape /\ Fresh /\ Ended /\ [Next]_vars => Ended'
  BY BodilessStep, BudgetStep DEF Ended
<1>3. Shape /\ Ended => DeletedStops
  <2> SUFFICES ASSUME Shape, Ended, ~resent, deletion # NoDeletion
               PROVE  Len(published) - deletion.published <= deletion.flying
    BY DEF DeletedStops
  <2>1. /\ Len(published) \in Nat /\ deletion.published \in Int /\ deletion.flying \in Int
        /\ Len(published) - deletion.published + Cardinality(Flying) <= deletion.flying
    BY SMTT(30) DEF Shape, TimeType, Ended, DeletionType, Budget
  <2>2. QED
    BY <2>1, FlyingFinite, SMTT(30)
<1>4. QED
  BY <1>1, <1>2, <1>3, FreshHolds, PTL DEF Spec
-----------------------------------------------------------------------------
(* Rounds of one publisher: only a running publisher is in a round, and without an
   overlap a single one runs. *)
Serial ==
    ~overlapped =>
        /\ \E w : workers = {w}
        /\ \A p \in Publishers : round[p].pc # "idle" => p \in workers

(* What a round knows of the message: that has its hash as long as it is scheduled,
   unless it was deleted since, and the other way round. *)
Aware(r) ==
    /\ r.pc # "idle" /\ hash.body => score > 0
    /\ r.pc \in {"loaded", "sent"} /\ score > 0 => hash.body
    /\ r.pc = "sent" /\ r.repeating => r.next > 0
Counts == counter = IF score > 0 /\ hash.body THEN 1 ELSE 0
Counted ==
    Undisturbed =>
        /\ Counts
        /\ hash.status = "Scheduled" => hash.body
        /\ \A p \in Publishers : Aware(round[p])

(* Without an overlap a change of worker ends the rounds of the former one. *)
LEMMA SerialStep == Shape /\ Serial /\ [Next]_vars => Serial'
<1> SUFFICES ASSUME Shape, Serial, [Next]_vars, ~overlapped'
             PROVE  /\ \E w : workers' = {w}
                    /\ \A p \in Publishers : round'[p].pc # "idle" => p \in workers'
  BY DEF Serial
<1> USE DEF message, history
<1>d. DOMAIN round = Publishers
  BY DEF Shape, RoundType
<1>o. ~overlapped
  BY DEF Next, Round, vars, Tick, Produce, DeleteMessage, ChangeQueue, FetchDue, LoadMessage,
     EnqueueScheduled, PublishScheduled, Resend, SendFails, TakeOver, Overlap
<1>s. /\ \E w : workers = {w}
      /\ \A p \in Publishers : round[p].pc # "idle" => p \in workers
  BY <1>o DEF Serial
<1>1. ASSUME NEW p \in Publishers, FetchDue(p) \/ LoadMessage(p) \/ EnqueueScheduled(p)
      PROVE  Serial'
  <2>1. workers' = workers /\ \A q \in Publishers : q # p => round'[q] = round[q]
    BY <1>1, RoundStep
  <2>2. p \in workers
    BY <1>1, <1>s DEF FetchDue, LoadMessage, EnqueueScheduled
  <2>3. QED
    BY <1>s, <2>1, <2>2 DEF Serial
<1>2. ASSUME NEW p \in Publishers, PublishScheduled(p) \/ Resend(p) \/ SendFails(p) PROVE Serial'
  BY <1>d, <1>s, <1>2 DEF PublishScheduled, Resend, SendFails, Idle, Serial
<1>3. ASSUME NEW p \in Publishers, TakeOver(p) \/ Overlap(p) PROVE Serial'
  BY <1>3, SMTT(30) DEF TakeOver, Overlap, Idle, Serial
<1>4. CASE Tick \/ Produce \/ DeleteMessage \/ ChangeQueue \/ UNCHANGED vars
  BY <1>s, <1>4 DEF Tick, Produce, DeleteMessage, ChangeQueue, vars
<1>5. QED
  BY <1>1, <1>2, <1>3, <1>4 DEF Next, Round, Serial

(* The script of the only round under way. *)
LEMMA ScriptCounts ==
    ASSUME Shape, Counts, hash.status = "Scheduled" => hash.body,
           NEW r, RoundOK(r), r.pc = "sent", Aware(r), PublishScheduledScript(r)
    PROVE  Counts' /\ (hash'.status = "Scheduled" => hash'.body)
<1>1. hash'.body = hash.body /\ hash'.status \in {hash.status, "Pending", "DeadLettered"}
  BY ScriptEffect DEF Shape
<1>2. \/ UNCHANGED <<score, counter>>
      \/ score > 0 /\ score' = 0 /\ counter' = counter - 1
      \/ r.repeating /\ score' = r.next /\ counter' = counter
  BY DEF PublishScheduledScript, Republish, MoveSimple
<1>3. CASE UNCHANGED <<score, counter>>
  BY <1>1, <1>3 DEF Counts
<1>4. CASE score > 0 /\ score' = 0 /\ counter' = counter - 1
  <2>1. counter = 1
    BY <1>4 DEF Counts, Aware
  <2>2. QED
    BY <1>1, <1>4, <2>1, SMTT(30) DEF Counts
<1>5. CASE r.repeating /\ score' = r.next /\ counter' = counter
  <2>1. score' > 0 /\ (hash.body => score > 0)
    BY <1>5 DEF Aware
  <2>2. QED
    BY <1>1, <1>5, <2>1 DEF Counts
<1>6. QED
  BY <1>1, <1>2, <1>3, <1>4, <1>5

(* The counter follows the scheduled set step by step. *)
LEMMA CountedStep == Shape /\ Fresh /\ Serial /\ Counted /\ [Next]_vars => Counted'
<1> SUFFICES ASSUME Shape, Fresh, Serial, Counted, [Next]_vars, Undisturbed' PROVE Counted'
  BY DEF Counted
<1> USE DEF message, history
<1>d. DOMAIN round = Publishers
  BY DEF Shape, RoundType
<1>o. Undisturbed
  BY SMTT(30) DEF Undisturbed, Next, Round, vars, Tick, Produce, DeleteMessage, ChangeQueue, FetchDue,
     LoadMessage, EnqueueScheduled, PublishScheduled, Resend, SendFails, TakeOver, Overlap
<1>c. /\ Counts
      /\ hash.status = "Scheduled" => hash.body
      /\ \A p \in Publishers : Aware(round[p])
  BY <1>o DEF Counted
<1>1. CASE Produce
  <2>1. score = 0 /\ counter = 0 /\ \A p \in Publishers : round'[p] = Idle
    BY <1>1 DEF Fresh, Produce
  <2>2. /\ hash'.body = TRUE
        /\ \/ score' > 0 /\ counter' = counter + 1
           \/ score' = score /\ counter' = counter
    BY <1>1, ProduceEffect
  <2>3. Counts'
    BY <2>1, <2>2, SMTT(30) DEF Counts
  <2>4. \A p \in Publishers : Aware(round[p])'
    BY <2>1, SMTT(30) DEF Aware, Idle
  <2>5. QED
    BY <2>2, <2>3, <2>4 DEF Counted
<1>2. CASE DeleteMessage
  <2>1. score > 0 /\ score' = 0 /\ counter' = counter - 1 /\ hash'.body = FALSE
        /\ hash'.status = "none" /\ round' = round /\ hash.status = "Scheduled"
    BY <1>2 DEF DeleteMessage, Missing
  <2>2. counter = 1
    BY <1>c, <2>1 DEF Counts
  <2>3. Counts'
    BY <2>1, <2>2, SMTT(30) DEF Counts
  <2>4. \A p \in Publishers : Aware(round[p])'
    BY <1>c, <2>1, SMTT(30) DEF Aware
  <2>5. QED
    BY <2>1, <2>3, <2>4 DEF Counted
<1>3. ASSUME NEW p \in Publishers, PublishScheduled(p) PROVE Counted'
  <2>1. PICK r : r = round[p]
    OBVIOUS
  <2>2. RoundOK(r) /\ r.pc = "sent" /\ PublishScheduledScript(r) /\ Aware(r)
    BY <1>3, <1>c, <2>1 DEF Shape, RoundType, PublishScheduled
  <2>3. Counts' /\ (hash'.status = "Scheduled" => hash'.body)
    BY <1>c, <2>2, ScriptCounts
  <2>4. \A q \in Publishers : q # p => round[q].pc = "idle"
    BY <1>o, <2>1, <2>2 DEF Serial, Undisturbed
  <2>5. \A q \in Publishers : round'[q] = Idle
    BY <1>3, <1>d, <2>4 DEF PublishScheduled, Shape, RoundType, RoundOK
  <2>6. \A q \in Publishers : Aware(round[q])'
    BY <2>5, SMTT(30) DEF Aware, Idle
  <2>7. QED
    BY <2>3, <2>6 DEF Counted
<1>4. ASSUME NEW p \in Publishers, FetchDue(p) \/ LoadMessage(p) \/ EnqueueScheduled(p)
      PROVE  Counted'
  <2>1. UNCHANGED <<hash, score, counter>> /\ \A q \in Publishers : q # p => round'[q] = round[q]
    BY <1>4, RoundStep
  <2>2. Aware(round[p])'
    <3>1. Aware(round[p])
      BY <1>c
    <3>2. CASE FetchDue(p)
      BY <1>d, <3>2, SMTT(30) DEF FetchDue, Aware
    <3>3. CASE LoadMessage(p)
      BY <1>d, <3>1, <3>3 DEF LoadMessage, Aware, Idle
    <3>4. CASE EnqueueScheduled(p)
      BY <1>d, <3>1, <3>4 DEF EnqueueScheduled, Aware
    <3>5. QED
      BY <1>4, <3>2, <3>3, <3>4
  <2>3. \A q \in Publishers : Aware(round[q])'
    BY <1>c, <2>1, <2>2 DEF Aware
  <2>4. QED
    BY <1>c, <2>1, <2>3 DEF Counted, Counts
<1>5. ASSUME NEW p \in Publishers, SendFails(p) \/ TakeOver(p) \/ Overlap(p) PROVE Counted'
  <2>1. UNCHANGED <<hash, score, counter>>
    BY <1>5 DEF SendFails, TakeOver, Overlap
  <2>2. \A q \in Publishers : round'[q] \in {round[q], Idle}
    BY <1>5, <1>d DEF SendFails, TakeOver, Overlap
  <2>3. \A q \in Publishers : Aware(round[q])'
    BY <1>c, <2>1, <2>2, SMTT(30) DEF Aware, Idle
  <2>4. QED
    BY <1>c, <2>1, <2>3 DEF Counted, Counts
<1>6. CASE Tick \/ ChangeQueue \/ UNCHANGED vars
  <2>1. UNCHANGED <<hash, score, counter, round>>
    BY <1>6 DEF Tick, ChangeQueue, vars
  <2>2. QED
    BY <1>c, <2>1 DEF Counted, Counts, Aware
<1>7. ~ \E p \in Publishers : Resend(p)
  BY DEF Resend, Undisturbed
<1>8. QED
  BY <1>1, <1>2, <1>3, <1>4, <1>5, <1>6, <1>7 DEF Next, Round

(* At the start there is nothing to count. *)
LEMMA CountedInit == Init => Serial /\ Counted
<1> SUFFICES ASSUME Init PROVE Serial /\ Counted
  OBVIOUS
<1>1. Serial
  BY DEF Init, Serial, Idle
<1>2. hash.status = "new" /\ ~(score > 0) /\ Counts
  BY SMTT(30) DEF Init, Missing, Counts
<1>3. \A p \in Publishers : Aware(round[p])
  BY DEF Init, Missing, Aware, Idle
<1>4. QED
  BY <1>1, <1>2, <1>3 DEF Counted

(* With one publisher at a time and no script executed twice, the scheduled counter of
   the queue agrees with the scheduled set, however often the message is deleted, taken
   over or dead-lettered in the middle of a round. *)
THEOREM CounterAgreesHolds == Spec => []CounterAgrees
<1>1. Init => Serial /\ Counted
  BY CountedInit
<1>2. Counted => CounterAgrees
  BY DEF Counted, Counts, CounterAgrees
<1>3. QED
  BY <1>1, <1>2, SerialStep, CountedStep, FreshHolds, PTL DEF Spec
-----------------------------------------------------------------------------
(* A message with repeats, without delay and CRON: its count tells how often it has
   been published. *)
Several == plan.delay = 0 /\ plan.cron = NoCron /\ plan.repeat > 0 /\ plan.period # NoPeriod
Progress(r) ==
    /\ r.pc = "loaded" => /\ r.state.delay = 0 /\ r.state.count \in 1..plan.repeat
                          /\ Len(published) = r.state.count - 1
    /\ r.pc = "sent" => IF r.repeating
                        THEN /\ r.state.count \in 1..plan.repeat
                             /\ Len(published) = r.state.count - 2
                        ELSE Len(published) = plan.repeat - 1
Finished == hash.status = "Pending" => hash.body /\ ~(score > 0) /\ Len(published) = plan.repeat
Underway == hash.body /\ score > 0 => /\ hash.count \in 1..plan.repeat
                                     /\ Len(published) = hash.count - 1
Repeated ==
    Undisturbed /\ Several =>
        /\ Len(published) <= plan.repeat /\ Finished /\ Underway
        /\ \A p \in Publishers : Progress(round[p])

(* The next occurrence of such a message: one after the other up to the last. *)
LEMMA Occurrence ==
    ASSUME Shape, Several, NEW s \in States, s.delay = 0, NEW t \in Nat \ {0}
    PROVE  IF s.count < plan.repeat
           THEN /\ NextScheduledTimestamp(s, t).at > 0
                /\ NextScheduledTimestamp(s, t).state = [s EXCEPT !.count = @ + 1]
           ELSE /\ NextScheduledTimestamp(s, t).at = 0
                /\ NextScheduledTimestamp(s, t).state = s
<1>1. NextTick(t) = 0 /\ plan.period > 0 /\ plan.period \in Nat
  BY SMTT(30) DEF Shape, PlanType, Plans, Several, NoCron, BadCron, NextTick
<1>2. CASE s.count < plan.repeat
  <2>1. RepeatTimestamp(s, t) > 0
    BY <1>1, <1>2, SMTT(30) DEF Several, RepeatTimestamp
  <2>2. QED
    BY <1>1, <1>2, <2>1, SMTT(30) DEF NextScheduledTimestamp
<1>3. CASE ~(s.count < plan.repeat)
  <2>1. RepeatTimestamp(s, t) = 0
    BY <1>3 DEF RepeatTimestamp
  <2>2. QED
    BY <1>1, <1>3, <2>1, SMTT(30) DEF NextScheduledTimestamp
<1>4. QED
  BY <1>2, <1>3

(* The script of the only round under way. *)
LEMMA ScriptRepeats ==
    ASSUME Shape, Several, Len(published) <= plan.repeat, Finished, Underway,
           NEW r, RoundOK(r), r.pc = "sent", Aware(r), Progress(r), PublishScheduledScript(r),
           plan' = plan
    PROVE  Len(published') <= plan.repeat /\ Finished' /\ Underway'
<1>1. /\ hash'.body = hash.body
      /\ hash \in Hashes /\ published \in Seq(Nat) /\ Len(published) \in Nat /\ plan.repeat \in Nat
      /\ r.at \in Nat /\ r.state \in States
  BY ScriptEffect, SMTT(30) DEF Shape, HashType, TimeType, PlanType, Plans, RoundOK
<1>2. Len(Append(published, r.at)) = Len(published) + 1
  BY <1>1, SMTT(30)
<1>3. CASE UNCHANGED <<score, hash, published>>
  BY <1>3 DEF Finished, Underway
<1>4. CASE r.repeating /\ /\ score' = r.next /\ hash' = Touched(r.state, hash.status)
                          /\ published' = Append(published, r.at)
  <2>1. /\ hash'.status = hash.status /\ hash'.count = r.state.count
    BY <1>1, <1>4 DEF Touched, Hashes
  <2>2. r.state.count \in 1..plan.repeat /\ Len(published) = r.state.count - 2
    BY <1>4 DEF Progress
  <2>3. hash.status # "Pending"
    BY DEF Finished, Aware
  <2>4. QED
    BY <1>1, <1>2, <1>4, <2>1, <2>2, <2>3, SMTT(30) DEF Finished, Underway
<1>5. CASE score > 0 /\ score' = 0 /\ published' = published
           /\ hash' = [hash EXCEPT !.status = "DeadLettered"]
  <2>1. hash'.status = "DeadLettered"
    BY <1>1, <1>5 DEF Hashes
  <2>2. QED
    BY <1>1, <1>5, <2>1, SMTT(30) DEF Finished, Underway
<1>6. CASE ~r.repeating /\ score > 0 /\ score' = 0 /\ published' = Append(published, r.at)
  <2>1. hash.body /\ Len(published) = plan.repeat - 1
    BY <1>6 DEF Aware, Progress
  <2>2. Len(published') = plan.repeat
    BY <1>1, <1>2, <1>6, <2>1, SMTT(30)
  <2>3. QED
    BY <1>1, <1>6, <2>1, <2>2, SMTT(30) DEF Finished, Underway
<1>7. QED
  BY <1>3, <1>4, <1>5, <1>6 DEF PublishScheduledScript, Republish, MoveSimple

(* Every publication advances the count by one. *)
LEMMA RepeatedStep ==
    Shape /\ Fresh /\ Serial /\ Counted /\ Repeated /\ [Next]_vars => Repeated'
<1> SUFFICES ASSUME Shape, Fresh, Serial, Counted, Repeated, [Next]_vars, Undisturbed', Several'
             PROVE  Repeated'
  BY DEF Repeated
<1> USE DEF message, history
<1>d. DOMAIN round = Publishers
  BY DEF Shape, RoundType
<1>p. plan' = plan /\ Several /\ plan.repeat \in Nat
  BY PlanStep DEF Several, Shape, PlanType, Plans
<1>o. Undisturbed
  BY SMTT(30) DEF Undisturbed, Next, Round, vars, Tick, Produce, DeleteMessage, ChangeQueue, FetchDue,
     LoadMessage, EnqueueScheduled, PublishScheduled, Resend, SendFails, TakeOver, Overlap
<1>c. \A p \in Publishers : Aware(round[p])
  BY <1>o DEF Counted
<1>r. /\ Len(published) <= plan.repeat /\ Finished /\ Underway
      /\ \A p \in Publishers : Progress(round[p])
  BY <1>o, <1>p DEF Repeated
<1>1. CASE Produce
  <2>1. published = <<>> /\ \A p \in Publishers : round'[p] = Idle
    BY <1>1 DEF Fresh, Produce
  <2>2. NewState \in States /\ NewState.delay = 0 /\ NewState.count = 0
    BY <1>p DEF Shape, NewState, PlanType, Plans, States, Several
  <2>3. /\ NextScheduledTimestamp(NewState, now).at > 0
        /\ NextScheduledTimestamp(NewState, now).state = [NewState EXCEPT !.count = @ + 1]
    BY <1>p, <2>2, Occurrence DEF Shape, TimeType, Several
  <2>4. NextScheduledTimestamp(NewState, now).state.count = 1
    BY <2>2, <2>3, SMTT(30) DEF States
  <2>5. hash'.count = 1 /\ hash'.status = "Scheduled" /\ published' = published
    BY <1>1, <2>3, <2>4 DEF Produce, Shape, HashType, Hashes
  <2>6. Len(published') = 0
    BY <2>1, <2>5
  <2>7. \A p \in Publishers : Progress(round[p])'
    BY <2>1, SMTT(30) DEF Progress, Idle
  <2>8. QED
    BY <1>p, <2>5, <2>6, <2>7, SMTT(30) DEF Repeated, Finished, Underway, Several
<1>2. CASE DeleteMessage
  <2>1. /\ score' = 0 /\ hash'.status = "none" /\ round' = round /\ published' = published
    BY <1>2 DEF DeleteMessage, Missing
  <2>2. \A p \in Publishers : Progress(round[p])'
    BY <1>p, <1>r, <2>1 DEF Progress
  <2>3. QED
    BY <1>p, <1>r, <2>1, <2>2, SMTT(30) DEF Repeated, Finished, Underway
<1>3. ASSUME NEW p \in Publishers, PublishScheduled(p) PROVE Repeated'
  <2>1. PICK r : r = round[p]
    OBVIOUS
  <2>2. RoundOK(r) /\ r.pc = "sent" /\ PublishScheduledScript(r) /\ Aware(r) /\ Progress(r)
    BY <1>3, <1>c, <1>r, <2>1 DEF Shape, RoundType, PublishScheduled
  <2>3. Len(published') <= plan.repeat /\ Finished' /\ Underway'
    BY <1>p, <1>r, <2>2, ScriptRepeats
  <2>4. \A q \in Publishers : q # p => round[q].pc = "idle"
    BY <1>o, <2>1, <2>2 DEF Serial, Undisturbed
  <2>5. \A q \in Publishers : round'[q] = Idle
    BY <1>3, <1>d, <2>4 DEF PublishScheduled, Shape, RoundType, RoundOK
  <2>6. \A q \in Publishers : Progress(round[q])'
    BY <2>5, SMTT(30) DEF Progress, Idle
  <2>7. QED
    BY <1>p, <2>3, <2>6 DEF Repeated
<1>4. ASSUME NEW p \in Publishers, FetchDue(p) \/ LoadMessage(p) \/ EnqueueScheduled(p)
      PROVE  Repeated'
  <2>1. /\ UNCHANGED <<hash, score, published>>
        /\ \A q \in Publishers : q # p => round'[q] = round[q]
    BY <1>4, RoundStep
  <2>2. Progress(round[p])'
    <3>1. CASE FetchDue(p)
      BY <1>d, <3>1 DEF FetchDue, Progress
    <3>2. CASE LoadMessage(p) /\ hash.body
      <4>1. round'[p] = [pc |-> "loaded", state |-> DecodeState] /\ score > 0
        BY <1>c, <1>d, <3>2 DEF LoadMessage, Aware
      <4>2. DecodeState.delay = 0 /\ DecodeState.count = hash.count
        BY <1>p DEF DecodeState, Several
      <4>3. hash.count \in 1..plan.repeat /\ Len(published) = hash.count - 1
        BY <1>r, <3>2, <4>1 DEF Underway
      <4>4. round'[p].pc = "loaded" /\ round'[p].state = DecodeState
        BY <4>1, SMTT(30)
      <4>5. QED
        BY <1>p, <2>1, <4>2, <4>3, <4>4 DEF Progress
    <3>3. CASE LoadMessage(p) /\ ~hash.body
      BY <1>d, <3>3 DEF LoadMessage, Progress, Idle
    <3>4. CASE EnqueueScheduled(p)
      <4> DEFINE s == round[p].state  next == NextScheduledTimestamp(s, now)
      <4>1. /\ s \in States /\ s.delay = 0 /\ s.count \in 1..plan.repeat
            /\ Len(published) = s.count - 1
        BY <1>r, <3>4 DEF EnqueueScheduled, Progress, Shape, RoundType, RoundOK
      <4>2. /\ round'[p].pc = "sent" /\ round'[p].state = next.state
            /\ round'[p].repeating <=> next.at > 0 /\ IsPeriodic
        BY <1>d, <3>4 DEF EnqueueScheduled
      <4>3. IF s.count < plan.repeat THEN next.at > 0 /\ next.state = [s EXCEPT !.count = @ + 1]
                                     ELSE next.at = 0 /\ next.state = s
        BY <1>p, <4>1, Occurrence DEF Shape, TimeType
      <4>4. IsPeriodic /\ now \in Nat
        BY <1>p DEF IsPeriodic, Several, Shape, TimeType
      <4> HIDE DEF s, next
      <4>5. CASE s.count < plan.repeat
        <5>1. next.state.count = s.count + 1
          BY <4>1, <4>3, <4>5 DEF States
        <5>2. QED
          BY <1>p, <2>1, <4>1, <4>2, <4>3, <4>4, <4>5, <5>1, SMTT(30) DEF Progress
      <4>6. CASE ~(s.count < plan.repeat)
        <5>1. s.count = plan.repeat /\ ~(next.at > 0)
          BY <1>p, <4>1, <4>3, <4>6, SMTT(30)
        <5>2. QED
          BY <1>p, <2>1, <4>1, <4>2, <5>1 DEF Progress
      <4>7. QED
        BY <4>5, <4>6
    <3>5. QED
      BY <1>4, <3>1, <3>2, <3>3, <3>4
  <2>3. \A q \in Publishers : Progress(round[q])'
    BY <1>p, <1>r, <2>1, <2>2 DEF Progress
  <2>4. QED
    BY <1>p, <1>r, <2>1, <2>3 DEF Repeated, Finished, Underway
<1>5. ASSUME NEW p \in Publishers, SendFails(p) \/ TakeOver(p) \/ Overlap(p) PROVE Repeated'
  <2>1. UNCHANGED <<hash, score, published>>
    BY <1>5 DEF SendFails, TakeOver, Overlap
  <2>2. \A q \in Publishers : round'[q] \in {round[q], Idle}
    BY <1>5, <1>d DEF SendFails, TakeOver, Overlap
  <2>3. \A q \in Publishers : Progress(round[q])'
    BY <1>p, <1>r, <2>1, <2>2, SMTT(30) DEF Progress, Idle
  <2>4. QED
    BY <1>p, <1>r, <2>1, <2>3 DEF Repeated, Finished, Underway
<1>6. CASE Tick \/ ChangeQueue \/ UNCHANGED vars
  <2>1. UNCHANGED <<hash, score, published, round>>
    BY <1>6 DEF Tick, ChangeQueue, vars
  <2>2. QED
    BY <1>p, <1>r, <2>1 DEF Repeated, Finished, Underway, Progress
<1>7. ~ \E p \in Publishers : Resend(p)
  BY DEF Resend, Undisturbed
<1>8. QED
  BY <1>1, <1>2, <1>3, <1>4, <1>5, <1>6, <1>7 DEF Next, Round

(* The messages with a single delivery.  Those with CRON or repeats that never apply
   are published when they are produced. *)
Single == ~IsPeriodic \/ (plan.delay = 0 /\ plan.cron <= 0 /\ ~Several)
AtOnce == IsPeriodic /\ Single => ~(score > 0) /\ \A p \in Publishers : round[p] = Idle
Delivered == Single => Len(published) <= 1 /\ (hash.status = "Pending" => Len(published) = 1)

(* A schedule without occurrence never enters the scheduled set. *)
LEMMA AtOnceStep == Shape /\ Fresh /\ AtOnce /\ [Next]_vars => AtOnce'
<1> SUFFICES ASSUME Shape, Fresh, AtOnce, [Next]_vars, IsPeriodic', Single'
             PROVE  ~(score' > 0) /\ \A p \in Publishers : round'[p] = Idle
  BY DEF AtOnce
<1> USE DEF message
<1>p. IsPeriodic /\ Single
  BY PlanStep DEF IsPeriodic, Single, Several
<1>d. DOMAIN round = Publishers
  BY DEF Shape, RoundType
<1>a. ~(score > 0) /\ \A p \in Publishers : round[p] = Idle /\ round[p].pc = "idle"
  BY <1>p, SMTT(30) DEF AtOnce, Idle
<1>1. CASE Produce
  <2>1. NewState.delay = 0 /\ NewState.fired = FALSE
    BY <1>p DEF NewState, Single
  <2>2. NextTick(now) = 0
    BY <1>p, SMTT(30) DEF Single, NextTick, Shape, PlanType, Plans, BadCron
  <2>3. RepeatTimestamp(NewState, now) = 0
    <3>1. plan.cron # NoCron \/ plan.period = NoPeriod \/ ~(plan.repeat > 0)
      BY <1>p DEF Single, Several
    <3>2. NewState.count = 0 /\ plan.repeat \in Nat
      BY DEF NewState, Shape, PlanType, Plans
    <3>3. QED
      BY <2>1, <3>1, <3>2 DEF RepeatTimestamp
  <2>4. NextScheduledTimestamp(NewState, now).at = 0
    BY <2>1, <2>2, <2>3, SMTT(30) DEF NextScheduledTimestamp
  <2>5. QED
    BY <1>1, <1>a, <2>4, SMTT(30) DEF Produce
<1>2. ~ \E p \in Publishers : Round(p) \/ Resend(p) \/ SendFails(p)
  BY <1>a, SMTT(30) DEF Round, FetchDue, LoadMessage, EnqueueScheduled, PublishScheduled, Resend, SendFails
<1>3. CASE ~Produce
  BY <1>2, <1>3, <1>a DEF Next, vars, Tick, DeleteMessage, ChangeQueue, TakeOver, Overlap
<1>4. QED
  BY <1>1, <1>3

(* A message with a single delivery is Pending once it has been published. *)
LEMMA DeliveredStep == Shape /\ Fresh /\ Once /\ AtOnce /\ Delivered /\ [Next]_vars => Delivered'
<1> SUFFICES ASSUME Shape, Fresh, Once, AtOnce, Delivered, [Next]_vars, Single'
             PROVE  Len(published') <= 1 /\ (hash'.status = "Pending" => Len(published') = 1)
  BY DEF Delivered
<1> USE DEF message
<1>p. Single
  BY PlanStep DEF IsPeriodic, Single, Several
<1>l. Len(published) <= 1 /\ (hash.status = "Pending" => Len(published) = 1)
  BY <1>p DEF Delivered
<1>1. CASE Produce
  <2>1. Len(<<now>>) = 1 /\ Len(<<>>) = 0 /\ published = <<>>
    BY <1>1 DEF Fresh, Produce
  <2>2. \/ published' = published /\ hash'.status = "Scheduled"
        \/ published' = <<now>> /\ hash'.status = "Pending"
    BY <1>1, ProduceEffect
  <2>3. CASE published' = published /\ hash'.status = "Scheduled"
    BY <1>l, <2>3
  <2>4. CASE published' = <<now>> /\ hash'.status = "Pending"
    <3>1. Len(published') = 1
      BY <2>1, <2>4
    <3>2. QED
      BY <3>1, SMTT(30)
  <2>5. QED
    BY <2>2, <2>3, <2>4
<1>2. ASSUME NEW p \in Publishers, PublishScheduled(p) \/ Resend(p)
      PROVE  Len(published') <= 1 /\ (hash'.status = "Pending" => Len(published') = 1)
  <2>1. PICK r : r = round[p]
    OBVIOUS
  <2>2. ~IsPeriodic
    BY <1>p, <1>2, SMTT(30) DEF AtOnce, Idle, PublishScheduled, Resend
  <2>3. ~r.repeating /\ PublishScheduledScript(r) /\ (score > 0 => published = <<>>)
    BY <1>2, <2>1, <2>2 DEF PublishScheduled, Resend, Once
  <2>4. CASE open /\ score > 0 /\ group
    <3>1. published' = Append(<<>>, r.at)
      BY <2>3, <2>4 DEF PublishScheduledScript, MoveSimple
    <3>2. Len(Append(<<>>, r.at)) = 1
      BY SMTT(30)
    <3>3. QED
      BY <3>1, <3>2, SMTT(30)
  <2>5. CASE open /\ score > 0 /\ ~group
    <3>1. published' = published /\ hash' = [hash EXCEPT !.status = "DeadLettered"]
      BY <2>3, <2>5 DEF PublishScheduledScript, MoveSimple
    <3>2. hash'.status = "DeadLettered"
      BY <3>1 DEF Shape, HashType, Hashes
    <3>3. QED
      BY <1>l, <3>1, <3>2
  <2>6. CASE ~(open /\ score > 0)
    BY <1>l, <2>3, <2>6 DEF PublishScheduledScript, MoveSimple
  <2>7. QED
    BY <2>4, <2>5, <2>6
<1>3. CASE DeleteMessage
  BY <1>3, <1>l DEF DeleteMessage, Missing
<1>4. CASE Quiet /\ ~DeleteMessage
  <2>1. UNCHANGED <<hash, published>>
    BY <1>4 DEF Quiet, vars, Tick, ChangeQueue, FetchDue, LoadMessage, EnqueueScheduled, SendFails,
       TakeOver, Overlap
  <2>2. QED
    BY <1>l, <2>1
<1>5. QED
  BY <1>1, <1>2, <1>3, <1>4, Split

(* At the start nothing has been published. *)
LEMMA RepeatedInit == Init => Once /\ AtOnce /\ Repeated
<1> SUFFICES ASSUME Init PROVE Once /\ AtOnce /\ Repeated
  OBVIOUS
<1>1. Once /\ AtOnce
  BY SMTT(30) DEF Init, Once, AtOnce, Idle
<1>2. hash.status = "new" /\ hash.body = FALSE /\ Len(published) = 0
  BY DEF Init, Missing
<1>3. \A p \in Publishers : Progress(round[p])
  BY DEF Init, Progress, Idle
<1>4. plan.repeat \in Nat
  BY ShapeInit DEF Shape, PlanType, Plans
<1>5. QED
  BY <1>1, <1>2, <1>3, <1>4, SMTT(30) DEF Repeated, Finished, Underway

(* NextScheduledTimestamp and the rounds of one publisher at a time deliver a message
   with R repeats exactly R times, and one that has none exactly once, whatever the
   options, the pace of the rounds, the failures and the changes of worker. *)
THEOREM ExactDeliveriesHolds == Spec => []ExactDeliveries
<1>1. Init => Delivered
  BY SMTT(30) DEF Init, Delivered, Missing
<1>2. Init => Once /\ AtOnce /\ Repeated
  BY RepeatedInit
<1>3. Shape /\ Repeated /\ Delivered => ExactDeliveries
  <2> SUFFICES ASSUME Shape, Repeated, Delivered, Undisturbed, plan.cron <= 0,
                      plan.delay = 0 \/ ~IsPeriodic
               PROVE  ExactDeliveries
    BY DEF ExactDeliveries
  <2>1. CASE Several
    BY <2>1 DEF ExactDeliveries, Repeated, Finished, Several
  <2>2. CASE ~Several
    <3>1. Single
      BY <2>2 DEF Single
    <3>2. ~(plan.cron = NoCron /\ plan.repeat > 0 /\ plan.period # NoPeriod)
      BY <2>2 DEF Several, IsPeriodic
    <3>3. QED
      BY <3>1, <3>2 DEF Delivered, ExactDeliveries
  <2>3. QED
    BY <2>1, <2>2
<1>4. Init => Serial /\ Counted
  BY CountedInit
<1>5. QED
  BY <1>1, <1>2, <1>3, <1>4, OnceStep, AtOnceStep, DeliveredStep, SerialStep, CountedStep, RepeatedStep,
     FreshHolds, PTL DEF Spec
-----------------------------------------------------------------------------
(* The distance that a message without CRON keeps, and the last publication. *)
Gap == IF plan.delay > 0 THEN plan.delay ELSE plan.period
Latest == published[Len(published)]

(* Nothing is due, nor under way, before the distance has passed. *)
Waits(r) ==
    /\ Len(published) > 0 =>
           /\ r.pc \in {"fetched", "loaded"} => now >= Latest + Gap
           /\ r.pc = "sent" => r.at >= Latest + Gap
    /\ r.pc = "loaded" => r.state.delay = plan.delay
    /\ r.pc = "sent" /\ r.repeating => r.next >= r.at + Gap
Distant == \A i \in 1..(Len(published) - 1) : published[i + 1] - published[i] >= Gap
Apart ==
    Undisturbed /\ plan.cron = NoCron =>
        /\ Distant
        /\ Len(published) > 0 /\ score > 0 => score >= Latest + Gap
        /\ \A p \in Publishers : Waits(round[p])

(* The next occurrence is a delay or a period away, but for the first repeat. *)
LEMMA OccurrenceGap ==
    ASSUME Shape, plan.cron = NoCron, NEW s \in States, NEW t \in Nat \ {0},
           s.delay = plan.delay, plan.delay = 0 => Several /\ s.count >= 1,
           NextScheduledTimestamp(s, t).at > 0
    PROVE  NextScheduledTimestamp(s, t).at >= t + Gap
<1>1. plan.delay \in Nat /\ plan.repeat \in Nat /\ s.count \in Nat
  BY DEF Shape, PlanType, Plans, States
<1>2. CASE plan.delay > 0
  BY <1>1, <1>2, SMTT(30) DEF NextScheduledTimestamp, Gap
<1>3. CASE ~(plan.delay > 0)
  <2>1. plan.delay = 0 /\ Several /\ s.count >= 1 /\ Gap = plan.period
    BY <1>1, <1>3, SMTT(30) DEF Gap
  <2>2. NextTick(t) = 0 /\ plan.period > 0 /\ plan.period \in Nat
    BY <2>1, SMTT(30) DEF Shape, PlanType, Plans, Several, NoCron, BadCron, NextTick
  <2>3. RepeatTimestamp(s, t) \in {0, t + plan.period}
    BY <1>1, <2>1, SMTT(30) DEF RepeatTimestamp
  <2>4. NextScheduledTimestamp(s, t).at \in {0, RepeatTimestamp(s, t)}
    BY <1>3, <2>2, SMTT(30) DEF NextScheduledTimestamp
  <2>5. QED
    BY <2>1, <2>2, <2>3, <2>4, SMTT(30)
<1>4. QED
  BY <1>2, <1>3

(* What is published keeps the distance from the last publication. *)
LEMMA ScriptDistant ==
    ASSUME Shape, Distant, NEW r, RoundOK(r), r.pc = "sent", Waits(r),
           PublishScheduledScript(r), plan' = plan,
           Len(published) > 0 /\ score > 0 => score >= Latest + Gap
    PROVE  Distant' /\ (Len(published') > 0 /\ score' > 0 => score' >= Latest' + Gap')
<1>1. Gap' = Gap /\ Gap \in Int /\ published \in Seq(Nat) /\ r.at \in Nat
  BY SMTT(30) DEF Gap, Shape, PlanType, Plans, TimeType, RoundOK, NoPeriod
<1>2. \/ UNCHANGED <<score, published>>
      \/ published' = published /\ score' = 0
      \/ published' = Append(published, r.at) /\ score' = 0
      \/ published' = Append(published, r.at) /\ score' = r.next /\ r.repeating
  BY DEF PublishScheduledScript, Republish, MoveSimple
<1>3. CASE published' = published
  BY <1>1, <1>2, <1>3, SMTT(30) DEF Distant, Latest
<1>4. CASE published' = Append(published, r.at)
  <2> DEFINE n == Len(published)
  <2>1. /\ n \in Nat /\ Len(published') = n + 1 /\ published'[n + 1] = r.at
        /\ \A i \in 1..n : published'[i] = published[i] /\ published[i] \in Nat
    BY <1>1, <1>4, SMTT(30)
  <2>2. Latest' = r.at
    BY <2>1 DEF Latest
  <2>3. ASSUME NEW i \in 1..n PROVE published'[i + 1] - published'[i] >= Gap
    <3>1. CASE i = n
      <4>1. n > 0 /\ r.at >= published[n] + Gap
        BY <2>1, <3>1, SMTT(30) DEF Waits, Latest
      <4>2. QED
        BY <1>1, <2>1, <3>1, <4>1, SMTT(30)
    <3>2. CASE i # n
      <4>1. i \in 1..(n - 1) /\ i + 1 \in 1..n
        BY <2>1, <3>2, SMTT(30)
      <4>2. published[i + 1] - published[i] >= Gap
        BY <4>1 DEF Distant
      <4>3. QED
        BY <2>1, <4>1, <4>2
    <3>3. QED
      BY <3>1, <3>2
  <2>4. (n + 1) - 1 = n
    BY <2>1, SMTT(30)
  <2>5. Distant'
    BY <1>1, <2>1, <2>3, <2>4 DEF Distant
  <2>6. score' > 0 => score' >= r.at + Gap
    <3>1. CASE score' = 0
      BY <3>1, SMTT(30)
    <3>2. CASE score' = r.next /\ r.repeating
      BY <3>2 DEF Waits
    <3>3. CASE UNCHANGED <<score, published>> \/ (published' = published /\ score' = 0)
      <4>1. Len(published') = n
        BY <3>3
      <4>2. QED
        BY <2>1, <4>1, SMTT(30)
    <3>4. QED
      BY <1>2, <3>1, <3>2, <3>3
  <2>7. QED
    BY <1>1, <2>2, <2>5, <2>6
<1>5. QED
  BY <1>2, <1>3, <1>4

(* Rounds and time pass: no step shortens the distance. *)
LEMMA ApartStep ==
    Shape /\ Fresh /\ Serial /\ Once /\ AtOnce /\ Repeated /\ Apart /\ [Next]_vars => Apart'
<1> SUFFICES ASSUME Shape, Fresh, Serial, Once, AtOnce, Repeated, Apart, [Next]_vars,
                    Undisturbed', plan'.cron = NoCron
             PROVE  Apart'
  BY DEF Apart
<1> USE DEF message, history
<1>d. DOMAIN round = Publishers
  BY DEF Shape, RoundType
<1>p. plan' = plan /\ plan.cron = NoCron /\ Gap' = Gap
  BY PlanStep DEF Gap
<1>o. Undisturbed
  BY SMTT(30) DEF Undisturbed, Next, Round, vars, Tick, Produce, DeleteMessage, ChangeQueue, FetchDue,
     LoadMessage, EnqueueScheduled, PublishScheduled, Resend, SendFails, TakeOver, Overlap
<1>t. Gap \in Int /\ now \in Nat \ {0} /\ published \in Seq(Nat) /\ Len(published) \in Nat
  BY SMTT(30) DEF Gap, Shape, PlanType, Plans, TimeType, NoPeriod
<1>a. /\ Distant
      /\ Len(published) > 0 /\ score > 0 => score >= Latest + Gap
      /\ \A p \in Publishers : Waits(round[p])
  BY <1>o, <1>p DEF Apart
<1>i. ASSUME NEW r, r = Idle PROVE Waits(r)'
  BY <1>i, SMTT(30) DEF Waits, Idle
<1>1. CASE Produce
  <2>1. published = <<>> /\ \A p \in Publishers : round'[p] = Idle
    BY <1>1 DEF Fresh, Produce
  <2>2. \/ published' = published
        \/ score' = score /\ published' = <<now>> /\ score = 0
    BY <1>1, ProduceEffect DEF Fresh, Produce
  <2>3. Len(published') = 0 \/ (Len(published') = 1 /\ ~(score' > 0))
    <3>1. Len(<<>>) = 0 /\ Len(<<now>>) = 1
      OBVIOUS
    <3>2. QED
      BY <2>1, <2>2, <3>1, SMTT(30)
  <2>4. Distant' /\ ~(Len(published') > 0 /\ score' > 0)
    BY <2>3, SMTT(30) DEF Distant
  <2>5. \A p \in Publishers : Waits(round[p])'
    BY <2>1, <1>i
  <2>6. QED
    BY <2>4, <2>5 DEF Apart
<1>2. CASE DeleteMessage
  <2>1. score' = 0 /\ UNCHANGED <<round, published, now>>
    BY <1>2 DEF DeleteMessage
  <2>2. Distant' /\ \A p \in Publishers : Waits(round[p])'
    BY <1>a, <1>p, <2>1 DEF Distant, Waits, Latest
  <2>3. QED
    BY <2>1, <2>2, SMTT(30) DEF Apart
<1>3. ASSUME NEW p \in Publishers, PublishScheduled(p) PROVE Apart'
  <2>1. PICK r : r = round[p]
    OBVIOUS
  <2>2. RoundOK(r) /\ r.pc = "sent" /\ PublishScheduledScript(r) /\ Waits(r)
    BY <1>3, <1>a, <2>1 DEF Shape, RoundType, PublishScheduled
  <2>3. Distant' /\ (Len(published') > 0 /\ score' > 0 => score' >= Latest' + Gap')
    BY <1>a, <1>p, <2>2, ScriptDistant
  <2>4. \A q \in Publishers : q # p => round[q].pc = "idle"
    BY <1>o, <2>1, <2>2 DEF Serial, Undisturbed
  <2>5. \A q \in Publishers : round'[q] = Idle
    BY <1>3, <1>d, <2>4 DEF PublishScheduled, Shape, RoundType, RoundOK
  <2>6. \A q \in Publishers : Waits(round[q])'
    BY <2>5, <1>i
  <2>7. QED
    BY <2>3, <2>6 DEF Apart
<1>4. ASSUME NEW p \in Publishers, FetchDue(p) \/ LoadMessage(p) \/ EnqueueScheduled(p)
      PROVE  Apart'
  <2>1. /\ UNCHANGED <<score, published, now>>
        /\ \A q \in Publishers : q # p => round'[q] = round[q]
    BY <1>4, RoundStep DEF FetchDue, LoadMessage, EnqueueScheduled
  <2>w. Waits(round[p]) /\ Latest' = Latest
    BY <1>a, <2>1 DEF Latest
  <2>2. Waits(round[p])'
    <3>1. CASE FetchDue(p)
      <4>1. round'[p] = [pc |-> "fetched"] /\ score \in 1..now
        BY <1>d, <3>1 DEF FetchDue
      <4>2. round'[p].pc = "fetched"
        BY <4>1, SMTT(30)
      <4>3. Len(published) > 0 => now >= Latest + Gap
        <5>1. Len(published) > 0 => Latest \in Nat
          BY <1>t, SMTT(30) DEF Latest
        <5>2. QED
          BY <1>a, <1>t, <4>1, <5>1, SMTT(30)
      <4>4. QED
        BY <1>p, <2>1, <2>w, <4>2, <4>3 DEF Waits
    <3>2. CASE LoadMessage(p) /\ hash.body
      <4>1. round'[p] = [pc |-> "loaded", state |-> DecodeState] /\ round[p].pc = "fetched"
        BY <1>d, <3>2 DEF LoadMessage
      <4>2. DecodeState.delay = plan.delay
        BY DEF DecodeState
      <4>3. round'[p].pc = "loaded" /\ round'[p].state = DecodeState
        BY <4>1, SMTT(30)
      <4>4. QED
        BY <1>p, <2>1, <2>w, <4>1, <4>2, <4>3 DEF Waits
    <3>3. CASE LoadMessage(p) /\ ~hash.body
      BY <1>d, <1>i, <3>3 DEF LoadMessage
    <3>4. CASE EnqueueScheduled(p)
      <4> DEFINE s == round[p].state  next == NextScheduledTimestamp(s, now)
      <4>1. round[p].pc = "loaded" /\ s \in States /\ s.delay = plan.delay
        BY <2>w, <3>4 DEF EnqueueScheduled, Waits, Shape, RoundType, RoundOK
      <4>2. /\ round'[p].pc = "sent" /\ round'[p].at = now /\ round'[p].next = next.at
            /\ round'[p].repeating <=> next.at > 0 /\ IsPeriodic
        BY <1>d, <3>4 DEF EnqueueScheduled
      <4>3. ASSUME IsPeriodic, plan.delay = 0 PROVE Several /\ s.count >= 1
        <5>1. Idle.pc = "idle"
          BY DEF Idle
        <5>2. Several
          <6>1. plan.cron <= 0
            BY <1>p, SMTT(30) DEF NoCron
          <6>2. QED
            BY <4>1, <4>3, <5>1, <6>1 DEF AtOnce, Single
        <5>3. s.count \in 1..plan.repeat
          BY <1>o, <4>1, <5>2 DEF Repeated, Progress
        <5>4. QED
          BY <5>2, <5>3, SMTT(30) DEF Shape, PlanType, Plans
      <4>4. IsPeriodic /\ next.at > 0 => next.at >= now + Gap
        BY <1>p, <1>t, <4>1, <4>3, OccurrenceGap
      <4> HIDE DEF s, next
      <4>5. QED
        BY <1>p, <2>1, <2>w, <4>1, <4>2, <4>4 DEF Waits
    <3>5. QED
      BY <1>4, <3>1, <3>2, <3>3, <3>4
  <2>3. \A q \in Publishers : Waits(round[q])'
    BY <1>p, <1>a, <2>1, <2>2, <2>w DEF Waits
  <2>4. QED
    BY <1>p, <1>a, <2>1, <2>3, <2>w DEF Apart, Distant
<1>5. ASSUME NEW p \in Publishers, SendFails(p) \/ TakeOver(p) \/ Overlap(p) PROVE Apart'
  <2>1. UNCHANGED <<now, score, published>>
    BY <1>5 DEF SendFails, TakeOver, Overlap
  <2>2. \A q \in Publishers : round'[q] \in {round[q], Idle}
    BY <1>5, <1>d DEF SendFails, TakeOver, Overlap
  <2>3. \A q \in Publishers : round'[q] = round[q] => Waits(round[q])'
    BY <1>p, <1>a, <2>1 DEF Waits, Latest
  <2>4. \A q \in Publishers : Waits(round[q])'
    BY <2>2, <2>3, <1>i
  <2>5. QED
    BY <1>p, <1>a, <2>1, <2>4 DEF Apart, Distant, Latest
<1>6. CASE Tick \/ ChangeQueue \/ UNCHANGED vars
  <2>1. UNCHANGED <<score, published, round>> /\ now' \in {now, now + 1}
    BY <1>6 DEF Tick, ChangeQueue, vars
  <2>2. Len(published) > 0 => Latest \in Nat
    BY <1>t, SMTT(30) DEF Latest
  <2>3. Len(published) > 0 /\ now >= Latest + Gap => now' >= Latest + Gap
    BY <1>t, <2>1, <2>2, SMTT(30)
  <2>4. \A q \in Publishers : Waits(round[q])'
    BY <1>p, <1>a, <2>1, <2>3 DEF Waits, Latest
  <2>5. QED
    BY <1>p, <1>a, <2>1, <2>4 DEF Apart, Distant, Latest
<1>7. ~ \E p \in Publishers : Resend(p)
  BY DEF Resend, Undisturbed
<1>8. QED
  BY <1>1, <1>2, <1>3, <1>4, <1>5, <1>6, <1>7 DEF Next, Round

(* With one publisher at a time and no script executed twice, two publications of a
   message without CRON are a delay or a period apart, however late the rounds come
   (NextScheduledTimestamp counts from the time of the round, not from the score). *)
THEOREM SpacedHolds == Spec => []Spaced
<1>1. Init => Once /\ AtOnce /\ Repeated /\ Serial /\ Counted
  BY RepeatedInit, CountedInit
<1>2. Init => Apart
  <2> SUFFICES ASSUME Init PROVE Apart
    OBVIOUS
  <2>1. Len(published) = 0 /\ \A p \in Publishers : round[p].pc = "idle"
    BY DEF Init, Idle
  <2>2. QED
    BY <2>1, SMTT(30) DEF Apart, Distant, Waits
<1>3. Apart => Spaced
  BY DEF Apart, Distant, Spaced, Gap
<1>4. QED
  BY <1>1, <1>2, <1>3, OnceStep, AtOnceStep, SerialStep, CountedStep, RepeatedStep, ApartStep,
     FreshHolds, PTL DEF Spec
-----------------------------------------------------------------------------
(* Ticks.  A time belongs to the tick before it; later times to no earlier tick. *)
LEMMA TickOrder ==
    ASSUME NEW c \in Nat \ {0}, NEW a \in Nat, NEW b \in Nat, a <= b
    PROVE  a \div c \in Nat /\ a \div c <= b \div c
<1>1. /\ a \div c \in Int /\ c * (a \div c) <= a /\ a < c * (a \div c) + c
      /\ b \div c \in Int /\ c * (b \div c) <= b /\ b < c * (b \div c) + c
  BY SMTT(30)
<1> DEFINE i == a \div c  j == b \div c
<1> HIDE DEF i, j
<1>2. i \in Int /\ j \in Int /\ c * i < c * j + c
  BY <1>1, SMTT(30) DEF i, j
<1>3. i <= j
  BY <1>2, SMTT(30)
<1>4. i >= 0
  BY <1>1, SMTT(30) DEF i
<1>5. QED
  BY <1>2, <1>3, <1>4, SMTT(30) DEF i, j

(* The next tick is later, and another one. *)
LEMMA TickAfter ==
    ASSUME NEW c \in Nat \ {0}, NEW t \in Nat, NEW u, u = (t \div c + 1) * c
    PROVE  u \in Nat /\ u > t /\ u \div c # t \div c
<1> DEFINE i == t \div c
<1>1. i \in Nat /\ t < c * i + c
  BY TickOrder, SMTT(30)
<1> HIDE DEF i
<1>2. u \in Nat /\ u = c * i + c
  BY <1>1, SMTT(30) DEF i
<1>3. u < c * (u \div c) + c
  BY <1>2, SMTT(30)
<1>4. QED
  BY <1>1, <1>2, <1>3, SMTT(30) DEF i

(* How often a message with a tick every c was published at tick w, and a time that
   nothing published is later than. *)
Ticks(pub, c, w) == {i \in 1..Len(pub) : pub[i] \div c = w}
Crowd(pub, c, w) == Cardinality(Ticks(pub, c, w))
Past(pub, t) == \A i \in 1..Len(pub) : pub[i] <= t

LEMMA CrowdFinite ==
    ASSUME NEW pub \in Seq(Nat), NEW c, NEW w
    PROVE  IsFiniteSet(Ticks(pub, c, w)) /\ Crowd(pub, c, w) \in Nat
<1>1. IsFiniteSet(1..Len(pub))
  <2>1. Len(pub) \in Int /\ 1 \in Int
    BY SMTT(30)
  <2>2. QED
    BY <2>1, FS_Interval
<1>2. IsFiniteSet(Ticks(pub, c, w))
  <2>1. Ticks(pub, c, w) \subseteq 1..Len(pub)
    BY DEF Ticks
  <2>2. QED
    BY <1>1, <2>1, FS_Subset
<1>3. QED
  BY <1>2, FS_CardinalityType DEF Crowd

(* Nothing was published at a tick that comes after all publications. *)
LEMMA CrowdNone ==
    ASSUME NEW pub \in Seq(Nat), NEW c \in Nat \ {0}, NEW t \in Nat, NEW u \in Nat,
           Past(pub, t), t <= u, t \div c # u \div c
    PROVE  Crowd(pub, c, u \div c) = 0
<1>1. ASSUME NEW i \in 1..Len(pub) PROVE pub[i] \div c # u \div c
  <2>1. pub[i] \in Nat /\ pub[i] <= t
    BY SMTT(30) DEF Past
  <2>2. pub[i] \div c \in Nat /\ pub[i] \div c <= t \div c
    BY <2>1, TickOrder
  <2>3. t \div c \in Nat /\ t \div c <= u \div c
    BY TickOrder
  <2>4. u \div c \in Nat
    <3>1. u <= u
      BY SMTT(30)
    <3>2. QED
      BY <3>1, TickOrder
  <2> DEFINE a == pub[i] \div c  b == t \div c  d == u \div c
  <2>5. a \in Nat /\ b \in Nat /\ d \in Nat /\ a <= b /\ b <= d /\ b # d
    BY <2>2, <2>3, <2>4
  <2> HIDE DEF a, b, d
  <2>6. a # d
    BY <2>5, SMTT(30)
  <2>7. QED
    BY <2>6 DEF a, d
<1>2. Ticks(pub, c, u \div c) = {}
  BY <1>1 DEF Ticks
<1>3. QED
  BY <1>2, FS_EmptySet DEF Crowd

(* Time passes: what is past stays past, ... *)
LEMMA PastLater ==
    ASSUME NEW pub \in Seq(Nat), NEW t \in Nat, NEW u \in Nat, Past(pub, t), t <= u
    PROVE  Past(pub, u)
<1> SUFFICES ASSUME NEW i \in 1..Len(pub) PROVE pub[i] <= u
  BY DEF Past
<1>1. pub[i] <= t /\ pub[i] \in Nat
  BY SMTT(30) DEF Past
<1>2. QED
  BY <1>1, SMTT(30)

(* ... and a counter that covers the tick of t covers that of u. *)
LEMMA CrowdLater ==
    ASSUME NEW pub \in Seq(Nat), NEW c \in Nat \ {0}, NEW t \in Nat, NEW u \in Nat,
           Past(pub, t), t <= u, NEW n \in Nat, Crowd(pub, c, t \div c) <= n
    PROVE  Crowd(pub, c, u \div c) <= n
<1>1. CASE t \div c = u \div c
  BY <1>1
<1>2. CASE t \div c # u \div c
  <2>1. Crowd(pub, c, u \div c) = 0
    BY <1>2, CrowdNone
  <2>2. QED
    BY <2>1, SMTT(30)
<1>3. QED
  BY <1>1, <1>2

(* A publication counts for its own tick only. *)
LEMMA CrowdGrows ==
    ASSUME NEW pub \in Seq(Nat), NEW c, NEW t \in Nat, NEW w
    PROVE  /\ w = t \div c => Crowd(Append(pub, t), c, w) = Crowd(pub, c, w) + 1
           /\ w # t \div c => Crowd(Append(pub, t), c, w) = Crowd(pub, c, w)
<1> DEFINE n == Len(pub)
           more == Append(pub, t)
<1>1. /\ n \in Nat /\ Len(more) = n + 1 /\ more[n + 1] = t
      /\ \A i \in 1..n : more[i] = pub[i]
  BY SMTT(30)
<1>2. 1..(n + 1) = (1..n) \cup {n + 1} /\ n + 1 \notin 1..n
  BY <1>1, SMTT(30)
<1> HIDE DEF n, more
<1>3. n + 1 \notin Ticks(pub, c, w)
  BY <1>2 DEF Ticks, n
<1>4. CASE w = t \div c
  <2>1. Ticks(more, c, w) = Ticks(pub, c, w) \cup {n + 1}
    BY <1>1, <1>2, <1>4 DEF Ticks, n
  <2>2. QED
    BY <1>3, <1>4, <2>1, CrowdFinite, FS_AddElement DEF Crowd, more
<1>5. CASE w # t \div c
  <2>1. Ticks(more, c, w) = Ticks(pub, c, w)
    BY <1>1, <1>2, <1>5 DEF Ticks, n
  <2>2. QED
    BY <1>5, <2>1 DEF Crowd, more
<1>6. QED
  BY <1>4, <1>5

(* How often the message was published at the tick of t. *)
SoFar(t) == Crowd(published, plan.cron, t \div plan.cron)

(* The counter of repeats covers what was published at the tick of the round, and
   the next publication too if that is at the same tick. *)
Ticking(r) ==
    /\ r.pc = "fetched" => Past(published, now) /\ (score > 0 => score <= now)
    /\ r.pc = "loaded" =>
           /\ Past(published, now) /\ SoFar(now) <= r.state.count
           /\ r.state.delay = 0 /\ r.state.count <= plan.repeat
    /\ r.pc = "sent" =>
           /\ Past(published, r.at) /\ SoFar(r.at) <= plan.repeat
           /\ r.repeating /\ r.next \in Nat /\ r.next > r.at /\ r.state.count <= plan.repeat
           /\ r.next \div plan.cron = r.at \div plan.cron => SoFar(r.at) + 1 <= r.state.count
Covered ==
    /\ score > 0 => score \in Nat /\ Past(published, score)
    /\ score > 0 /\ hash.body => hash.count <= plan.repeat /\ SoFar(score) <= hash.count
Uncrowded == \A w \in Nat : Crowd(published, plan.cron, w) <= 1 + plan.repeat
PerTick ==
    Undisturbed /\ plan.cron > 0 /\ plan.delay = 0 =>
        Uncrowded /\ Covered /\ \A p \in Publishers : Ticking(round[p])

(* The next occurrence is a repeat, which is counted, or at a later tick. *)
LEMMA OccurrenceTick ==
    ASSUME Shape, plan.cron > 0, NEW s \in States, s.delay = 0, s.count <= plan.repeat,
           NEW t \in Nat \ {0}
    PROVE  LET next == NextScheduledTimestamp(s, t)
           IN  /\ next.at \in Nat /\ next.at > t /\ next.state.count <= plan.repeat
               /\ next.at \div plan.cron = t \div plan.cron => next.state.count = s.count + 1
               /\ ~s.fired => next.state.count = 0
<1> DEFINE next == NextScheduledTimestamp(s, t)
           tick == NextTick(t)
           repeat == RepeatTimestamp(s, t)
<1>1. plan.cron \in Nat \ {0} /\ plan.repeat \in Nat /\ s.count \in Nat /\ s.fired \in BOOLEAN
  BY SMTT(30) DEF Shape, PlanType, Plans, States, BadCron
<1>2. plan.period \in Nat \ {0} \/ plan.period = NoPeriod
  BY DEF Shape, PlanType, Plans
<1>3. tick \in Nat /\ tick > t /\ tick \div plan.cron # t \div plan.cron
  <2>1. tick = (t \div plan.cron + 1) * plan.cron
    BY DEF NextTick
  <2>2. QED
    BY <1>1, <2>1, TickAfter
<1>4. \/ repeat = 0
      \/ repeat \in Nat /\ repeat > t /\ s.count < plan.repeat /\ s.fired
  BY <1>1, <1>2, SMTT(30) DEF RepeatTimestamp, NoCron, NoPeriod
<1> HIDE DEF tick, repeat
<1>5. \/ repeat > 0 /\ next.at = repeat /\ next.state = [s EXCEPT !.count = @ + 1]
      \/ next.at = tick /\ next.state = [s EXCEPT !.count = 0, !.fired = TRUE]
  <2>1. tick > 0 /\ ~(s.delay > 0)
    BY <1>3, SMTT(30)
  <2>2. QED
    BY <2>1, SMTT(30) DEF NextScheduledTimestamp, tick, repeat
<1> HIDE DEF next
<1>6. CASE repeat > 0 /\ next.at = repeat /\ next.state = [s EXCEPT !.count = @ + 1]
  <2>1. next.state.count = s.count + 1
    BY <1>6 DEF States
  <2>2. QED
    BY <1>1, <1>4, <1>6, <2>1, SMTT(30) DEF next
<1>7. CASE next.at = tick /\ next.state = [s EXCEPT !.count = 0, !.fired = TRUE]
  <2>1. next.state.count = 0
    BY <1>7 DEF States
  <2>2. QED
    BY <1>1, <1>3, <1>7, <2>1, SMTT(30) DEF next
<1>8. QED
  BY <1>5, <1>6, <1>7

(* The script publishes for the tick of the round and sets the score and the counter
   of the next occurrence. *)
LEMMA ScriptTicks ==
    ASSUME Shape, plan.cron > 0, Uncrowded, Covered, plan' = plan,
           NEW r, RoundOK(r), r.pc = "sent", Ticking(r), PublishScheduledScript(r)
    PROVE  Uncrowded' /\ Covered'
<1> DEFINE c == plan.cron
           n == r.next
           a == r.at
           k == r.state.count
<1>1. /\ c \in Nat \ {0} /\ plan.repeat \in Nat /\ published \in Seq(Nat) /\ a \in Nat
      /\ r.state \in States /\ k \in Nat
  BY SMTT(30) DEF Shape, PlanType, Plans, TimeType, RoundOK, States, BadCron
<1>2. /\ Past(published, a) /\ Crowd(published, c, a \div c) <= plan.repeat
      /\ n \in Nat /\ n > a /\ k <= plan.repeat
      /\ n \div c = a \div c => Crowd(published, c, a \div c) + 1 <= k
  BY DEF Ticking, SoFar
<1>3. \/ UNCHANGED <<score, hash, published>>
      \/ score' = 0 /\ published' = published
      \/ /\ score' = n /\ published' = Append(published, a)
         /\ hash' = Touched(r.state, hash.status)
  BY DEF Ticking, PublishScheduledScript, Republish
<1>4. CASE UNCHANGED <<score, hash, published>>
  BY <1>4 DEF Uncrowded, Covered, SoFar
<1>5. CASE score' = 0 /\ published' = published
  <2>1. ~(score' > 0)
    BY <1>5, SMTT(30)
  <2>2. QED
    BY <1>5, <2>1 DEF Uncrowded, Covered
<1>6. CASE /\ score' = n /\ published' = Append(published, a)
           /\ hash' = Touched(r.state, hash.status)
  <2>1. hash'.count = k
    BY <1>6 DEF Touched, Shape, HashType, Hashes
  <2> DEFINE more == published'
  <2> HIDE DEF c, n, a, k
  <2>a. a \in Nat /\ n \in Nat /\ a < n
    BY <1>1, <1>2, SMTT(30)
  <2>m. more = Append(published, a) /\ published \in Seq(Nat)
    BY <1>1, <1>6
  <2> HIDE DEF more
  <2>2. Past(more, n)
    <3>1. Len(published) \in Nat /\ Len(more) = Len(published) + 1
      BY <2>m, SMTT(30)
    <3>2. ASSUME NEW i \in 1..Len(more) PROVE more[i] <= n
      <4>1. CASE i \in 1..Len(published)
        <5>1. more[i] = published[i] /\ published[i] \in Nat
          BY <2>m, <4>1, SMTT(30)
        <5>2. published[i] <= a
          BY <1>2, <4>1 DEF Past
        <5>3. QED
          BY <2>a, <5>1, <5>2, SMTT(30)
      <4>2. CASE i = Len(published) + 1
        <5>1. more[i] = a
          BY <2>m, <4>2, SMTT(30)
        <5>2. QED
          BY <2>a, <5>1, SMTT(30)
      <4>3. QED
        BY <3>1, <4>1, <4>2, SMTT(30)
    <3>3. QED
      BY <3>2 DEF Past
  <2>3. ASSUME NEW w
        PROVE  /\ w = a \div c => Crowd(more, c, w) = Crowd(published, c, w) + 1
               /\ w # a \div c => Crowd(more, c, w) = Crowd(published, c, w)
    <3>1. /\ w = a \div c =>
                Crowd(Append(published, a), c, w) = Crowd(published, c, w) + 1
          /\ w # a \div c => Crowd(Append(published, a), c, w) = Crowd(published, c, w)
      BY <2>a, <2>m, CrowdGrows
    <3>2. QED
      BY <2>m, <3>1
  <2>4. ASSUME NEW w PROVE Crowd(published, c, w) \in Nat
    BY <1>1, CrowdFinite
  <2>5. ASSUME NEW w \in Nat PROVE Crowd(more, c, w) <= 1 + plan.repeat
    <3>1. CASE w = a \div c
      <4>1. Crowd(more, c, w) = Crowd(published, c, w) + 1 /\ Crowd(published, c, w) <= plan.repeat
        BY <1>2, <2>3, <3>1
      <4>2. QED
        BY <1>1, <2>4, <4>1, SMTT(30)
    <3>2. CASE w # a \div c
      BY <2>3, <3>2 DEF Uncrowded, c
    <3>3. QED
      BY <3>1, <3>2
  <2>6. Crowd(more, c, n \div c) <= k
    <3>1. CASE n \div c = a \div c
      BY <1>2, <2>3, <3>1
    <3>2. CASE n \div c # a \div c
      <4>1. a <= n
        BY <2>a, SMTT(30)
      <4>2. Crowd(published, c, n \div c) = 0
        BY <1>1, <1>2, <3>2, <4>1, CrowdNone
      <4>3. Crowd(more, c, n \div c) = 0
        BY <2>3, <3>2, <4>2
      <4>4. QED
        BY <1>1, <4>3, SMTT(30)
    <3>3. QED
      BY <3>1, <3>2
  <2>7. plan'.cron = c /\ plan'.repeat = plan.repeat /\ published' = more
    BY DEF c, more
  <2>8. Uncrowded'
    BY <2>5, <2>7 DEF Uncrowded
  <2>9. Covered'
    BY <1>2, <1>6, <2>1, <2>2, <2>6, <2>7 DEF Covered, SoFar
  <2>10. QED
    BY <2>8, <2>9
<1>7. QED
  BY <1>3, <1>4, <1>5, <1>6

(* No step publishes more at a tick than the counter of repeats covers. *)
LEMMA PerTickStep ==
    Shape /\ Fresh /\ Serial /\ Counted /\ PerTick /\ [Next]_vars => PerTick'
<1> SUFFICES ASSUME Shape, Fresh, Serial, Counted, PerTick, [Next]_vars,
                    Undisturbed', plan'.cron > 0, plan'.delay = 0
             PROVE  PerTick'
  BY DEF PerTick
<1> USE DEF message, history
<1>d. DOMAIN round = Publishers
  BY DEF Shape, RoundType
<1>p. plan' = plan /\ plan.cron > 0 /\ plan.delay = 0
  BY PlanStep
<1>o. Undisturbed
  BY SMTT(30) DEF Undisturbed, Next, Round, vars, Tick, Produce, DeleteMessage, ChangeQueue, FetchDue,
     LoadMessage, EnqueueScheduled, PublishScheduled, Resend, SendFails, TakeOver, Overlap
<1>t. /\ now \in Nat \ {0} /\ now \in Nat /\ published \in Seq(Nat) /\ hash.count \in Nat
      /\ plan.cron \in Nat \ {0} /\ plan.repeat \in Nat
  BY <1>p, SMTT(30) DEF Shape, PlanType, Plans, HashType, Hashes, TimeType, BadCron
<1>a. Uncrowded /\ Covered /\ \A p \in Publishers : Ticking(round[p])
  BY <1>o, <1>p DEF PerTick
<1>i. ASSUME NEW r, r = Idle PROVE Ticking(r)'
  BY <1>i, SMTT(30) DEF Ticking, Idle
<1>u. ASSUME published' = published PROVE Uncrowded'
  BY <1>a, <1>p, <1>u DEF Uncrowded
<1>c. ASSUME UNCHANGED <<published, score, hash>> PROVE Covered'
  BY <1>a, <1>p, <1>c DEF Covered, SoFar
<1>1. CASE Produce
  <2> DEFINE next == NextScheduledTimestamp(NewState, now)
  <2>1. published = <<>> /\ \A p \in Publishers : round'[p] = Idle
    BY <1>1 DEF Fresh, Produce
  <2>2. NewState \in States /\ NewState.delay = 0 /\ NewState.count = 0 /\ ~NewState.fired
    BY <1>p DEF NewState, States, Shape, PlanType, Plans
  <2>3. next.at \in Nat /\ next.at > now /\ next.state.count = 0
    <3>1. NewState.count <= plan.repeat
      BY <1>t, <2>2, SMTT(30)
    <3>2. QED
      BY <1>p, <1>t, <2>2, <3>1, OccurrenceTick
  <2>4. next.at > 0
    BY <1>t, <2>3, SMTT(30)
  <2> HIDE DEF next
  <2>5. score' = next.at /\ published' = published /\ hash'.count = next.state.count
    BY <1>1, <2>4 DEF Produce, next, Shape, HashType, Hashes
  <2>6. ASSUME NEW w PROVE Crowd(published, plan.cron, w) = 0
    <3>1. Len(published) = 0
      BY <2>1
    <3>2. Ticks(published, plan.cron, w) = {}
      BY <3>1, SMTT(30) DEF Ticks
    <3>3. QED
      BY <3>2, FS_EmptySet DEF Crowd
  <2>7. Past(published, next.at)
    <3>1. Len(published) = 0
      BY <2>1
    <3>2. QED
      BY <3>1, SMTT(30) DEF Past
  <2>8. 0 <= 0 /\ 0 <= plan.repeat
    BY <1>t, SMTT(30)
  <2>9. Covered'
    BY <1>p, <2>3, <2>5, <2>6, <2>7, <2>8 DEF Covered, SoFar
  <2>10. QED
    BY <1>i, <1>u, <2>1, <2>5, <2>9 DEF PerTick
<1>2. CASE DeleteMessage
  <2>1. score' = 0 /\ UNCHANGED <<round, published, now>>
    BY <1>2 DEF DeleteMessage
  <2>2. ~(score' > 0)
    BY <2>1, SMTT(30)
  <2>3. \A p \in Publishers : Ticking(round[p])'
    BY <1>a, <1>p, <2>1, <2>2 DEF Ticking, SoFar
  <2>4. QED
    BY <1>u, <2>1, <2>2, <2>3 DEF PerTick, Covered
<1>3. ASSUME NEW p \in Publishers, PublishScheduled(p) PROVE PerTick'
  <2>1. PICK r : r = round[p]
    OBVIOUS
  <2>2. RoundOK(r) /\ r.pc = "sent" /\ PublishScheduledScript(r) /\ Ticking(r)
    BY <1>3, <1>a, <2>1 DEF Shape, RoundType, PublishScheduled
  <2>3. Uncrowded' /\ Covered'
    BY <1>a, <1>p, <2>2, ScriptTicks
  <2>4. \A q \in Publishers : q # p => round[q].pc = "idle"
    BY <1>o, <2>1, <2>2 DEF Serial, Undisturbed
  <2>5. \A q \in Publishers : round'[q] = Idle
    BY <1>3, <1>d, <2>4 DEF PublishScheduled, Shape, RoundType, RoundOK
  <2>6. QED
    BY <1>i, <2>3, <2>5 DEF PerTick
<1>4. ASSUME NEW p \in Publishers, FetchDue(p) \/ LoadMessage(p) \/ EnqueueScheduled(p)
      PROVE  PerTick'
  <2>1. /\ UNCHANGED <<score, hash, published, now>>
        /\ \A q \in Publishers : q # p => round'[q] = round[q]
    BY <1>4, RoundStep DEF FetchDue, LoadMessage, EnqueueScheduled
  <2>s. score > 0 => score \in Nat /\ Past(published, score)
    BY <1>a DEF Covered
  <2>2. Ticking(round[p])'
    <3>1. CASE FetchDue(p)
      <4>1. round'[p] = [pc |-> "fetched"] /\ score \in 1..now
        BY <1>d, <3>1 DEF FetchDue
      <4>2. round'[p].pc = "fetched"
        BY <4>1, SMTT(30)
      <4>3. score > 0 /\ score <= now
        BY <1>t, <4>1, SMTT(30)
      <4>4. Past(published, now)
        BY <1>t, <2>s, <4>3, PastLater
      <4>5. QED
        BY <2>1, <4>2, <4>3, <4>4 DEF Ticking
    <3>2. CASE LoadMessage(p) /\ hash.body
      <4>1. round'[p] = [pc |-> "loaded", state |-> DecodeState] /\ round[p].pc = "fetched"
        BY <1>d, <3>2 DEF LoadMessage
      <4>2. DecodeState.delay = 0 /\ DecodeState.count = hash.count
        BY <1>p DEF DecodeState
      <4>3. round'[p].pc = "loaded" /\ round'[p].state = DecodeState
        BY <4>1, SMTT(30)
      <4>4. score > 0
        BY <1>o, <3>2, <4>1 DEF Counted, Aware
      <4>5. score <= now /\ Past(published, now)
        BY <1>a, <4>1, <4>4 DEF Ticking
      <4>6. hash.count <= plan.repeat /\ Crowd(published, plan.cron, score \div plan.cron) <= hash.count
        BY <1>a, <3>2, <4>4 DEF Covered, SoFar
      <4>7. Crowd(published, plan.cron, now \div plan.cron) <= hash.count
        BY <1>t, <2>s, <4>4, <4>5, <4>6, CrowdLater
      <4>8. QED
        BY <1>p, <2>1, <4>2, <4>3, <4>5, <4>6, <4>7 DEF Ticking, SoFar
    <3>3. CASE LoadMessage(p) /\ ~hash.body
      BY <1>d, <1>i, <3>3 DEF LoadMessage
    <3>4. CASE EnqueueScheduled(p)
      <4> DEFINE s == round[p].state
                 next == NextScheduledTimestamp(s, now)
      <4>1. round[p].pc = "loaded" /\ s \in States
        BY <3>4 DEF EnqueueScheduled, Shape, RoundType, RoundOK
      <4>2. /\ Past(published, now) /\ SoFar(now) <= s.count
            /\ s.delay = 0 /\ s.count <= plan.repeat
        BY <1>a, <4>1 DEF Ticking
      <4>3. /\ next.at \in Nat /\ next.at > now /\ next.state.count <= plan.repeat
            /\ next.at \div plan.cron = now \div plan.cron => next.state.count = s.count + 1
        BY <1>p, <1>t, <4>1, <4>2, OccurrenceTick
      <4>4. next.at > 0 /\ IsPeriodic
        BY <1>p, <1>t, <4>3, SMTT(30) DEF IsPeriodic, NoCron
      <4>5. /\ round'[p].pc = "sent" /\ round'[p].at = now /\ round'[p].next = next.at
            /\ round'[p].state = next.state
            /\ round'[p].repeating <=> next.at > 0 /\ IsPeriodic
        BY <1>d, <3>4 DEF EnqueueScheduled
      <4>6. SoFar(now) \in Nat /\ s.count \in Nat
        BY <1>t, <4>1, CrowdFinite DEF SoFar, States
      <4> HIDE DEF s, next
      <4>7. SoFar(now) <= plan.repeat /\ SoFar(now) + 1 <= s.count + 1
        BY <1>t, <4>2, <4>6, SMTT(30)
      <4>8. QED
        BY <1>p, <2>1, <4>2, <4>3, <4>4, <4>5, <4>7 DEF Ticking, SoFar
    <3>5. QED
      BY <1>4, <3>1, <3>2, <3>3, <3>4
  <2>3. \A q \in Publishers : q # p => Ticking(round[q])'
    BY <1>p, <1>a, <2>1 DEF Ticking, SoFar
  <2>4. QED
    BY <1>u, <1>c, <2>1, <2>2, <2>3 DEF PerTick
<1>5. ASSUME NEW p \in Publishers, SendFails(p) \/ TakeOver(p) \/ Overlap(p) PROVE PerTick'
  <2>1. UNCHANGED <<now, score, hash, published>>
    BY <1>5 DEF SendFails, TakeOver, Overlap
  <2>2. \A q \in Publishers : round'[q] \in {round[q], Idle}
    BY <1>5, <1>d DEF SendFails, TakeOver, Overlap
  <2>3. \A q \in Publishers : round'[q] = round[q] => Ticking(round[q])'
    BY <1>p, <1>a, <2>1 DEF Ticking, SoFar
  <2>4. \A q \in Publishers : Ticking(round[q])'
    BY <2>2, <2>3, <1>i
  <2>5. QED
    BY <1>u, <1>c, <2>1, <2>4 DEF PerTick
<1>6. CASE Tick \/ ChangeQueue \/ UNCHANGED vars
  <2>1. UNCHANGED <<score, hash, published, round>> /\ now' \in {now, now + 1}
    BY <1>6 DEF Tick, ChangeQueue, vars
  <2>2. now' \in Nat /\ now <= now'
    BY <1>t, <2>1, SMTT(30)
  <2>3. ASSUME NEW q \in Publishers PROVE Ticking(round[q])'
    <3>1. Ticking(round[q]) /\ RoundOK(round[q])
      BY <1>a DEF Shape, RoundType
    <3>2. CASE round[q].pc = "fetched"
      <4>1. Past(published, now')
        BY <1>t, <2>2, <3>1, <3>2, PastLater DEF Ticking
      <4>2. score > 0 => score <= now'
        <5>1. score > 0 => score \in Nat /\ score <= now
          BY <1>a, <3>1, <3>2 DEF Ticking, Covered
        <5>2. QED
          BY <1>t, <2>2, <5>1, SMTT(30)
      <4>3. QED
        BY <2>1, <3>2, <4>1, <4>2 DEF Ticking
    <3>3. CASE round[q].pc = "loaded"
      <4>1. round[q].state.count \in Nat
        BY <3>1, <3>3 DEF RoundOK, States
      <4>2. /\ Past(published, now)
            /\ Crowd(published, plan.cron, now \div plan.cron) <= round[q].state.count
        BY <3>1, <3>3 DEF Ticking, SoFar
      <4>3. Past(published, now')
        BY <1>t, <2>2, <4>2, PastLater
      <4>4. Crowd(published, plan.cron, now' \div plan.cron) <= round[q].state.count
        <5>1. PICK k \in Nat, u \in Nat : k = round[q].state.count /\ u = now'
          BY <2>2, <4>1
        <5>2. now \in Nat /\ published \in Seq(Nat) /\ plan.cron \in Nat \ {0} /\ now <= u
          BY <1>t, <2>2, <5>1
        <5>3. Past(published, now) /\ Crowd(published, plan.cron, now \div plan.cron) <= k
          BY <4>2, <5>1
        <5>4. Crowd(published, plan.cron, u \div plan.cron) <= k
          BY <5>2, <5>3, CrowdLater
        <5>5. QED
          BY <5>1, <5>4
      <4>5. QED
        BY <1>p, <2>1, <3>1, <3>3, <4>3, <4>4 DEF Ticking, SoFar
    <3>4. CASE round[q].pc \notin {"fetched", "loaded"}
      BY <1>p, <2>1, <3>1, <3>4 DEF Ticking, SoFar
    <3>5. QED
      BY <3>2, <3>3, <3>4
  <2>4. QED
    BY <1>u, <1>c, <2>1, <2>3 DEF PerTick
<1>7. ~ \E p \in Publishers : Resend(p)
  BY DEF Resend, Undisturbed
<1>8. QED
  BY <1>1, <1>2, <1>3, <1>4, <1>5, <1>6, <1>7 DEF Next, Round

(* With one publisher at a time and no script executed twice, a message with CRON and
   without delay is published at most once per tick and once more per repeat, however
   late the rounds come: NextScheduledTimestamp starts the repeats again only together
   with a later tick. *)
THEOREM OnePerTickHolds == Spec => []OnePerTick
<1>1. Init => PerTick
  <2> SUFFICES ASSUME Init, plan.cron > 0 PROVE PerTick
    BY DEF PerTick
  <2>1. Len(published) = 0 /\ score = 0 /\ \A p \in Publishers : round[p].pc = "idle"
    BY DEF Init, Idle
  <2>2. Covered /\ \A p \in Publishers : Ticking(round[p])
    BY <2>1, SMTT(30) DEF Covered, Ticking
  <2>3. ASSUME NEW w PROVE Crowd(published, plan.cron, w) = 0
    <3>1. Ticks(published, plan.cron, w) = {}
      BY <2>1, SMTT(30) DEF Ticks
    <3>2. QED
      BY <3>1, FS_EmptySet DEF Crowd
  <2>4. 0 <= 1 + plan.repeat
    BY ShapeInit, SMTT(30) DEF Shape, PlanType, Plans
  <2>5. QED
    BY <2>2, <2>3, <2>4 DEF PerTick, Uncrowded
<1>2. PerTick => OnePerTick
  <2> SUFFICES ASSUME PerTick, Undisturbed, plan.cron > 0, plan.delay = 0,
                      NEW w \in 0..MaxTime
               PROVE  Crowd(published, plan.cron, w) <= 1 + plan.repeat
    BY DEF OnePerTick, Crowd, Ticks
  <2>1. w \in Nat
    BY SMTT(30)
  <2>2. QED
    BY <2>1 DEF PerTick, Uncrowded
<1>3. QED
  BY <1>1, <1>2, CountedInit, SerialStep, CountedStep, PerTickStep, FreshHolds, PTL DEF Spec
===========================================================================
