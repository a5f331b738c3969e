----------------------- MODULE ConfigurationProofs -----------------------
(***************************************************************************)
(* What save-config.lua and the epochs guarantee, for any number of        *)
(* processes, saves, flushes and failed commands.                          *)
(***************************************************************************)
EXTENDS Configuration, TLAPS

USE ZenonT(30)

Events == [c : Copies, epoch : Nat]
Ops == [call : Calls, step : Steps, c : Copies]

(* Publishing and delivering events keeps the channels well typed, and puts no
   event there but the published one. *)
LEMMA AppendElements ==
    ASSUME NEW s \in Seq(Events), NEW e \in Events
    PROVE  /\ Append(s, e) \in Seq(Events)
           /\ \A i \in 1..Len(Append(s, e)) :
                 Append(s, e)[i] = e \/ \E j \in 1..Len(s) : Append(s, e)[i] = s[j]
<1>1. /\ Append(s, e) \in Seq(Events) /\ Len(Append(s, e)) = Len(s) + 1 /\ Len(s) \in Nat
      /\ Append(s, e)[Len(s) + 1] = e
      /\ \A i \in 1..Len(s) : Append(s, e)[i] = s[i]
  BY SMTT(30)
<1>2. QED
  BY <1>1, SMTT(30)

(* What is left of a queue of events was in it. *)
LEMMA TailElements ==
    ASSUME NEW s \in Seq(Events), s # <<>>
    PROVE  /\ Tail(s) \in Seq(Events) /\ Head(s) \in Events
           /\ Head(s) = s[1] /\ 1 \in 1..Len(s)
           /\ \A i \in 1..Len(Tail(s)) : \E j \in 1..Len(s) : Tail(s)[i] = s[j]
<1>1. /\ Tail(s) \in Seq(Events) /\ Head(s) \in Events /\ Len(s) \in Nat /\ Len(s) > 0
      /\ Head(s) = s[1] /\ Len(Tail(s)) = Len(s) - 1
      /\ \A i \in 1..(Len(s) - 1) : Tail(s)[i] = s[i + 1]
  BY SMTT(30)
<1>2. ASSUME NEW i \in 1..Len(Tail(s)) PROVE i + 1 \in 1..Len(s) /\ Tail(s)[i] = s[i + 1]
  BY <1>1, SMTT(30)
<1>3. QED
  BY <1>1, <1>2, SMTT(30)

(* The empty copy, event and call have the types of the others. *)
LEMMA BlankTypes == NoCopy \in Copies /\ NoEvent \in Events /\ NoCall \in Ops
BY ConfigurationAssumption DEF NoCopy, NoEvent, NoCall, NoEpoch, Copies, Events, Calls, Steps, Ops

(* The types of what the proofs are about, in four parts. *)
CoreType ==
    /\ record \in [data : Values, version : Nat]
    /\ epoch \in Nat /\ gen \in Nat /\ born \in Seq(Nat)
    /\ instance \in [Processes -> Copies] /\ mEpoch \in [Processes -> Nat]
    /\ draft \in [Processes -> Copies]
OpType == op \in [Processes -> Ops]
FlagType == subscribed \in [Processes -> BOOLEAN] /\ dirty \in [Processes -> BOOLEAN]
EventType == wire \in [Processes -> Seq(Events)] /\ handling \in [Processes -> Events]
Shape == CoreType /\ OpType /\ FlagType /\ EventType

(* The version and the values that the script writes. *)
LEMMA ScriptTypes ==
    ASSUME Shape, NEW p \in Processes
    PROVE  /\ NewVersion(record.version) \in Nat /\ NewVersion(record.version) > record.version
           /\ RecordCopy \in Copies
           /\ [data |-> op[p].c.data, version |-> NewVersion(record.version), gen |-> gen] \in Copies
           /\ op[p].c.data \in Values
<1>1. record.version \in Nat /\ record.data \in Values /\ gen \in Nat
  BY DEF Shape, CoreType
<1>2. op[p].c \in Copies
  BY DEF Shape, OpType, Ops
<1>3. NewVersion(record.version) \in Nat /\ NewVersion(record.version) > record.version
  BY <1>1, SMTT(30) DEF NewVersion
<1>4. QED
  BY <1>1, <1>2, <1>3 DEF RecordCopy, Copies

(* Every step keeps the flags, the rest, and the events in their types. *)
LEMMA FlagTypeStep == FlagType /\ [Next]_vars => FlagType'
<1> SUFFICES ASSUME FlagType, [Next]_vars PROVE FlagType'
  OBVIOUS
<1> USE DEF manager, application
<1>1. CASE UNCHANGED vars \/ Flush
  BY <1>1 DEF FlagType, vars, Flush
<1>2. ASSUME NEW p \in Processes,
             \/ ManagerInit(p) \/ Reload(p) \/ Save(p) \/ Reset(p) \/ Close(p)
             \/ \E d \in Values : Edit(p, d)
      PROVE  FlagType'
  BY <1>2 DEF FlagType, ManagerInit, Reload, Save, Reset, Close, Edit, SetCurrentConfig
<1>3. ASSUME NEW p \in Processes, Load(p) \/ AdoptEpoch(p) \/ PersistEpoch(p) \/ HandleUpdated(p)
      PROVE  FlagType'
  BY <1>3 DEF FlagType, Load, AdoptEpoch, PersistEpoch, HandleUpdated, SetCurrentConfig, CreateDefaults
<1>4. ASSUME NEW p \in Processes, \/ Subscribe(p) \/ SaveScript(p) \/ PublishUpdated(p)
                                   \/ Dispatch(p) \/ ReloadGoroutine(p)
      PROVE  FlagType'
  BY <1>4 DEF FlagType, Subscribe, SaveScript, PublishUpdated, Dispatch, ReloadGoroutine
<1>5. QED
  BY <1>1, <1>2, <1>3, <1>4 DEF Next, Progress

(* The calls in progress keep their type. *)
LEMMA OpTypeStep == Shape /\ [Next]_vars => OpType'
<1> SUFFICES ASSUME Shape, [Next]_vars PROVE OpType'
  OBVIOUS
<1> USE DEF manager
<1>1. CoreType /\ OpType
  BY DEF Shape
<1>t. ASSUME NEW p \in Processes
      PROVE  op[p].c \in Copies /\ op[p].call \in Calls /\ draft[p] \in Copies
  BY <1>1 DEF CoreType, OpType, Ops
<1>2. ASSUME NEW p \in Processes, NEW call \in Calls, NEW step \in Steps, NEW c \in Copies,
             Call(p, call, step, c)
      PROVE  OpType'
  BY <1>1, <1>2 DEF Call, OpType, Ops
<1>3. ASSUME NEW p \in Processes, Return(p) PROVE OpType'
  BY <1>1, <1>3, BlankTypes DEF Return, OpType
<1>4. CASE UNCHANGED op
  BY <1>1, <1>4 DEF OpType
<1>5. ASSUME NEW p \in Processes, ManagerInit(p) \/ Reload(p) \/ ReloadGoroutine(p) PROVE OpType'
  BY <1>2, <1>4, <1>5, BlankTypes DEF ManagerInit, Reload, ReloadGoroutine, Calls, Steps
<1>6. ASSUME NEW p \in Processes, Save(p) \/ Reset(p) PROVE OpType'
  <2>1. [instance[p] EXCEPT !.data = Default] \in Copies
    BY <1>1, ConfigurationAssumption DEF CoreType, Copies
  <2>2. QED
    BY <1>2, <1>6, <1>t, <2>1 DEF Save, Reset, Calls, Steps
<1>7. ASSUME NEW p \in Processes, Load(p) PROVE OpType'
  <2>1. [data |-> record.data, gen |-> gen, version |-> record.version] \in Copies
    BY <1>1 DEF CoreType, Copies
  <2>2. QED
    BY <1>2, <1>3, <1>7, <1>t, <2>1, BlankTypes DEF Load, Loaded, Goto, CreateDefaults, Steps
<1>8. ASSUME NEW p \in Processes, AdoptEpoch(p) \/ PersistEpoch(p) PROVE OpType'
  BY <1>2, <1>3, <1>8, <1>t, BlankTypes DEF AdoptEpoch, PersistEpoch, Loaded, Goto, Steps
<1>9. ASSUME NEW p \in Processes, SaveScript(p) PROVE OpType'
  BY <1>2, <1>3, <1>9, <1>t, ScriptTypes DEF SaveScript, Goto, Steps
<1>10. ASSUME NEW p \in Processes, Subscribe(p) \/ PublishUpdated(p) PROVE OpType'
  BY <1>3, <1>10 DEF Subscribe, PublishUpdated
<1>11. CASE \/ UNCHANGED vars \/ Flush
            \/ \E p \in Processes : \/ Close(p) \/ Dispatch(p) \/ HandleUpdated(p)
                                     \/ \E d \in Values : Edit(p, d)
  BY <1>4, <1>11 DEF vars, Flush, Close, Dispatch, HandleUpdated, Edit
<1>12. QED
  BY <1>5, <1>6, <1>7, <1>8, <1>9, <1>10, <1>11 DEF Next, Progress

(* So do the record in Redis and what the managers hold. *)
LEMMA CoreTypeStep == Shape /\ [Next]_vars => CoreType'
<1> SUFFICES ASSUME Shape, [Next]_vars PROVE CoreType'
  OBVIOUS
<1> USE DEF redis, manager, application, bus, bounds
<1>c. CoreType /\ OpType /\ EventType
  BY DEF Shape
<1>t. ASSUME NEW p \in Processes
      PROVE  /\ op[p].c \in Copies /\ op[p].call \in Calls
             /\ instance[p] \in Copies /\ draft[p] \in Copies /\ handling[p].c \in Copies
             /\ op[p].c.version \in Nat /\ mEpoch[p] \in Nat
  BY <1>c DEF CoreType, OpType, EventType, Events, Ops, Copies
<1>b. NoCopy \in Copies
  BY BlankTypes
<1>0. CASE UNCHANGED vars
  BY <1>0, <1>c DEF CoreType, vars
<1>1. ASSUME NEW p \in Processes, ManagerInit(p) \/ Reload(p) \/ ReloadGoroutine(p)
      PROVE  CoreType'
  BY <1>1, <1>b, <1>c DEF ManagerInit, Reload, ReloadGoroutine, Disturb, CoreType
<1>2. ASSUME NEW p \in Processes, Save(p) \/ Reset(p) PROVE CoreType'
  <2>1. [instance[p] EXCEPT !.data = Default] \in Copies
    BY <1>t, ConfigurationAssumption DEF Copies
  <2>2. QED
    BY <1>2, <1>b, <1>c, <1>t, <2>1 DEF Save, Reset, CoreType
<1>3. ASSUME NEW p \in Processes, Close(p) PROVE CoreType'
  BY <1>3, <1>b, <1>c DEF Close, SetCurrentConfig, Disturb, CoreType
<1>4. ASSUME NEW p \in Processes, NEW d \in Values, Edit(p, d) PROVE CoreType'
  <2>1. [instance[p] EXCEPT !.data = d] \in Copies
    BY <1>t DEF Copies
  <2>2. QED
    BY <1>4, <1>c, <2>1 DEF Edit, CoreType
<1>5. ASSUME NEW p \in Processes, Load(p) PROVE CoreType'
  <2>1. [data |-> record.data, gen |-> gen, version |-> record.version] \in Copies
    BY <1>c DEF CoreType, Copies
  <2>2. Append(born, gen) \in Seq(Nat) /\ Len(born) + 1 \in Nat
    BY <1>c, SMTT(30) DEF CoreType
  <2>3. /\ born' = born \/ born' = Append(born, gen)
        /\ \E e \in Nat : mEpoch' = [mEpoch EXCEPT ![p] = e]
        /\ instance' = instance \/ \E c \in Copies : instance' = [instance EXCEPT ![p] = c]
        /\ UNCHANGED <<record, epoch, gen, draft>>
    BY <1>5, <1>c, <2>1, <2>2 DEF Load, SetCurrentConfig, NewEpoch, CreateDefaults, CoreType
  <2>4. QED
    BY <1>c, <2>2, <2>3 DEF CoreType
<1>6. ASSUME NEW p \in Processes, AdoptEpoch(p) \/ PersistEpoch(p) PROVE CoreType'
  BY <1>6, <1>b, <1>c, <1>t DEF AdoptEpoch, PersistEpoch, SetCurrentConfig, NoFailure, Fail, Disturb, CoreType
<1>7. ASSUME NEW p \in Processes, Subscribe(p) PROVE CoreType'
  BY <1>7, <1>b, <1>c DEF Subscribe, CoreType
<1>8. ASSUME NEW p \in Processes, SaveScript(p) PROVE CoreType'
  BY <1>8, <1>b, <1>c, <1>t, ScriptTypes, SMTT(30) DEF SaveScript, NoFailure, Fail, Disturb, CoreType
<1>9. ASSUME NEW p \in Processes, PublishUpdated(p) PROVE CoreType'
  BY <1>9, <1>b, <1>c, <1>t DEF PublishUpdated, NoFailure, Fail, Disturb, CoreType
<1>10. ASSUME NEW p \in Processes, Dispatch(p) PROVE CoreType'
  BY <1>10, <1>c DEF Dispatch, CoreType
<1>11. ASSUME NEW p \in Processes, HandleUpdated(p) PROVE CoreType'
  BY <1>11, <1>c, <1>t DEF HandleUpdated, SetCurrentConfig, CoreType
<1>12. CASE Flush
  BY <1>12, <1>c, ConfigurationAssumption, SMTT(30) DEF Flush, Disturb, NoEpoch, CoreType
<1>13. QED
  BY <1>0, <1>1, <1>2, <1>3, <1>4, <1>5, <1>6, <1>7, <1>8, <1>9, <1>10, <1>11, <1>12
     DEF Next, Progress

(* So do the events on their way. *)
LEMMA EventTypeStep == Shape /\ [Next]_vars => EventType'
<1> SUFFICES ASSUME Shape, [Next]_vars PROVE EventType'
  OBVIOUS
<1>1. CoreType /\ OpType /\ EventType
  BY DEF Shape
<1>2. CASE UNCHANGED bus
  BY <1>1, <1>2 DEF bus, EventType
<1>3. ASSUME NEW p \in Processes, PublishUpdated(p) PROVE EventType'
  <2>1. [c |-> op[p].c, epoch |-> mEpoch[p]] \in Events
    BY <1>1 DEF CoreType, OpType, Ops, Events
  <2>2. \A q \in Processes : Append(wire[q], [c |-> op[p].c, epoch |-> mEpoch[p]]) \in Seq(Events)
    BY <1>1, <2>1, AppendElements DEF EventType
  <2>3. QED
    BY <1>1, <1>3, <2>2 DEF PublishUpdated, EventType
<1>4. ASSUME NEW p \in Processes, Dispatch(p) PROVE EventType'
  <2>1. Tail(wire[p]) \in Seq(Events) /\ Head(wire[p]) \in Events /\ NoEvent \in Events
    BY <1>1, <1>4, TailElements, BlankTypes DEF Dispatch, EventType
  <2>2. QED
    BY <1>1, <1>4, <2>1 DEF Dispatch, EventType
<1>5. ASSUME NEW p \in Processes, HandleUpdated(p) PROVE EventType'
  BY <1>1, <1>5, BlankTypes DEF HandleUpdated, EventType
<1>6. CASE \/ UNCHANGED vars \/ Flush
           \/ \E p \in Processes :
                 \/ ManagerInit(p) \/ Reload(p) \/ Save(p) \/ Reset(p) \/ Close(p)
                 \/ Load(p) \/ AdoptEpoch(p) \/ Subscribe(p) \/ SaveScript(p) \/ PersistEpoch(p)
                 \/ ReloadGoroutine(p) \/ \E d \in Values : Edit(p, d)
  BY <1>2, <1>6 DEF vars, Flush, ManagerInit, Reload, Save, Reset, Close, Load, AdoptEpoch,
     Subscribe, SaveScript, PersistEpoch, ReloadGoroutine, Edit
<1>7. QED
  BY <1>3, <1>4, <1>5, <1>6 DEF Next, Progress

(* Every step keeps the types. *)
LEMMA ShapeStep == Shape /\ [Next]_vars => Shape'
BY FlagTypeStep, OpTypeStep, CoreTypeStep, EventTypeStep DEF Shape

(* The types hold at the start. *)
LEMMA ShapeInit == Init => Shape
BY BlankTypes, ConfigurationAssumption, SMTT(30) DEF Init, Shape, CoreType, OpType, FlagType, EventType, NoEpoch
---------------------------------------------------------------------------
(* The copies that somebody may still use, and how they spread. *)

Held(x) ==
    \/ x = RecordCopy
    \/ \E p \in Processes :
          \/ ~dirty[p] /\ x = instance[p]
          \/ op[p].step \in {"adopt", "hset", "publish"} /\ x = op[p].c
          \/ x = handling[p].c
          \/ \E i \in 1..Len(wire[p]) : x = wire[p][i].c

(* Held says of one copy what AllCopies collects. *)
LEMMA HeldCopies == \A x : x \in AllCopies <=> Held(x)
BY SMTT(30) DEF AllCopies, InstanceCopies, CallCopies, EventCopies, Held

(* A copy is new only if it was just stored, or stands for none. *)
LEMMA HeldStep ==
    ASSUME Shape, [Next]_vars, NEW x, Held(x)'
    PROVE  Held(x) \/ x = RecordCopy' \/ x = NoCopy
<1> DEFINE Goal == Held(x) \/ x = RecordCopy' \/ x = NoCopy
<1> USE DEF redis, manager, application, bus
<1>t. CoreType /\ OpType /\ FlagType /\ EventType
  BY DEF Shape
(* What p holds after a step that keeps it, or keeps less. *)
<1>k. ASSUME NEW q \in Processes, UNCHANGED <<dirty, instance>>, ~dirty'[q], x = instance'[q]
      PROVE  Goal
  BY <1>k DEF Held
<1>o. ASSUME NEW q \in Processes, op'[q] = op[q], op'[q].step \in {"adopt", "hset", "publish"},
             x = op'[q].c
      PROVE  Goal
  BY <1>o DEF Held
<1>e. ASSUME NEW q \in Processes, UNCHANGED bus,
             x = handling'[q].c \/ \E i \in 1..Len(wire'[q]) : x = wire'[q][i].c
      PROVE  Goal
  BY <1>e DEF Held
<1> USE DEF Held
<1>0. CASE UNCHANGED vars
  BY <1>0, <1>k, <1>o, <1>e DEF vars
<1>1. ASSUME NEW p \in Processes, \/ ManagerInit(p) \/ Reload(p) \/ ReloadGoroutine(p)
                                   \/ Save(p) \/ Reset(p) \/ Subscribe(p)
      PROVE  Goal
  <2>1. /\ UNCHANGED <<dirty, instance, bus, record, gen>>
        /\ \A q \in Processes : op'[q] = op[q] \/ op'[q].step \in {"load", "script", "idle"}
    BY <1>1, <1>t, SMTT(30) DEF ManagerInit, Reload, ReloadGoroutine, Save, Reset, Subscribe, Call, Return,
       NoCall, OpType
  <2>2. QED
    BY <1>k, <1>o, <1>e, <2>1
<1>2. ASSUME NEW p \in Processes, \/ Close(p) \/ Load(p) \/ AdoptEpoch(p) \/ PersistEpoch(p)
      PROVE  Goal
  <2>1. /\ UNCHANGED <<bus, record, gen>>
        /\ \A q \in Processes :
              \/ dirty'[q] = dirty[q] /\ instance'[q] = instance[q]
              \/ instance'[q] \in {NoCopy, RecordCopy}
              \/ op[q].step \in {"adopt", "hset"} /\ instance'[q] = op[q].c
    BY <1>2, <1>t, SMTT(30) DEF Close, Load, AdoptEpoch, PersistEpoch, SetCurrentConfig, CreateDefaults,
       RecordCopy, CoreType, FlagType
  <2>2. \A q \in Processes :
           \/ op'[q] = op[q] \/ op'[q].step \in {"script", "subscribe", "idle"}
           \/ op'[q].step = "adopt" /\ op'[q].c = RecordCopy
           \/ op[q].step = "hset" /\ op'[q].c = op[q].c
    <3>1. CASE Close(p) \/ Load(p)
      BY <1>t, <3>1, SMTT(30) DEF Close, Load, CreateDefaults, Loaded, Goto, Call, Return, NoCall, RecordCopy,
         OpType
    <3>2. CASE AdoptEpoch(p) \/ PersistEpoch(p)
      BY <1>t, <3>2, SMTT(30) DEF AdoptEpoch, PersistEpoch, Loaded, Goto, Call, Return, NoCall, OpType
    <3>3. QED
      BY <1>2, <3>1, <3>2
  <2>3. RecordCopy' = RecordCopy
    BY <2>1 DEF RecordCopy
  <2>4. QED
    BY <1>e, <2>1, <2>2, <2>3
<1>3. ASSUME NEW p \in Processes, NEW d \in Values, Edit(p, d) PROVE Goal
  <2>1. /\ UNCHANGED <<bus, record, gen, op>>
        /\ \A q \in Processes : \/ dirty'[q] = TRUE
                                \/ dirty'[q] = dirty[q] /\ instance'[q] = instance[q]
    BY <1>3, <1>t DEF Edit, CoreType, FlagType
  <2>2. QED
    BY <1>e, <1>o, <2>1
<1>4. ASSUME NEW p \in Processes, SaveScript(p) PROVE Goal
  <2>1. /\ UNCHANGED <<bus, dirty, instance, gen>>
        /\ \A q \in Processes :
              \/ op'[q] = op[q] \/ op'[q].step = "idle" \/ op'[q].c = RecordCopy'
    BY <1>4, <1>t, SMTT(30) DEF SaveScript, Goto, Call, Return, NoCall, RecordCopy, OpType
  <2>2. QED
    BY <1>e, <1>k, <1>o, <2>1
<1>5. ASSUME NEW p \in Processes, PublishUpdated(p) PROVE Goal
  <2> DEFINE e == [c |-> op[p].c, epoch |-> mEpoch[p]]
  <2>1. /\ UNCHANGED <<dirty, instance, handling, record, gen>> /\ op[p].step = "publish"
        /\ \A q \in Processes : op'[q] = op[q] \/ op'[q].step = "idle"
        /\ \A q \in Processes : wire'[q] = wire[q] \/ wire'[q] = Append(wire[q], e)
    BY <1>5, <1>t DEF PublishUpdated, Return, NoCall, OpType, EventType
  <2>2. e \in Events /\ e.c = op[p].c
    BY <1>t DEF CoreType, OpType, Ops, Events
  <2>3. ASSUME NEW q \in Processes, NEW i \in 1..Len(wire'[q]), x = wire'[q][i].c PROVE Goal
    <3>1. CASE wire'[q] = wire[q]
      BY <2>3, <3>1
    <3>2. CASE wire'[q] = Append(wire[q], e)
      <4>1. wire'[q][i] = e \/ \E j \in 1..Len(wire[q]) : wire'[q][i] = wire[q][j]
        BY <1>t, <2>2, <2>3, <3>2, AppendElements, SMTT(30) DEF EventType
      <4>2. QED
        BY <2>1, <2>2, <2>3, <4>1
    <3>3. QED
      BY <2>1, <3>1, <3>2
  <2>4. RecordCopy' = RecordCopy
    BY <2>1 DEF RecordCopy
  <2> HIDE DEF e
  <2>5. QED
    BY <1>k, <1>o, <2>1, <2>3, <2>4
<1>6. ASSUME NEW p \in Processes, Dispatch(p) PROVE Goal
  <2>1. /\ UNCHANGED <<dirty, instance, op, record, gen>> /\ wire[p] \in Seq(Events) /\ wire[p] # <<>>
        /\ \A q \in Processes : wire'[q] = wire[q] \/ (q = p /\ wire'[q] = Tail(wire[p]))
        /\ \A q \in Processes : \/ handling'[q] = handling[q] \/ handling'[q] = NoEvent
                                \/ q = p /\ handling'[q] = Head(wire[p])
    BY <1>6, <1>t DEF Dispatch, EventType
  <2>2. /\ Head(wire[p]) = wire[p][1] /\ 1 \in 1..Len(wire[p])
        /\ \A i \in 1..Len(Tail(wire[p])) : \E j \in 1..Len(wire[p]) : Tail(wire[p])[i] = wire[p][j]
    BY <2>1, TailElements
  <2>3. NoEvent.c = NoCopy /\ RecordCopy' = RecordCopy
    BY <2>1 DEF NoEvent, RecordCopy
  <2>4. ASSUME NEW q \in Processes, NEW i \in 1..Len(wire'[q]), x = wire'[q][i].c PROVE Goal
    <3>1. CASE wire'[q] = wire[q]
      BY <2>4, <3>1
    <3>2. CASE q = p /\ wire'[q] = Tail(wire[p])
      <4>1. PICK j \in 1..Len(wire[p]) : wire'[q][i] = wire[p][j]
        BY <2>2, <2>4, <3>2
      <4>2. QED
        BY <2>4, <4>1
    <3>3. QED
      BY <2>1, <3>1, <3>2
  <2>5. ASSUME NEW q \in Processes, x = handling'[q].c PROVE Goal
    BY <2>1, <2>2, <2>3, <2>5
  <2>6. QED
    BY <1>k, <1>o, <2>1, <2>3, <2>4, <2>5
<1>7. ASSUME NEW p \in Processes, HandleUpdated(p) PROVE Goal
  <2>1. /\ UNCHANGED <<op, record, gen, wire>>
        /\ \A q \in Processes : handling'[q] = handling[q] \/ handling'[q] = NoEvent
        /\ \A q \in Processes :
              \/ dirty'[q] = dirty[q] /\ instance'[q] = instance[q]
              \/ instance'[q] = handling[q].c
    BY <1>7, <1>t, SMTT(30) DEF HandleUpdated, SetCurrentConfig, CoreType, FlagType, EventType
  <2>2. NoEvent.c = NoCopy /\ RecordCopy' = RecordCopy
    BY <2>1 DEF NoEvent, RecordCopy
  <2>3. QED
    BY <1>o, <2>1, <2>2
<1>8. CASE Flush
  <2>1. UNCHANGED <<dirty, instance, op, bus>>
    BY <1>8 DEF Flush
  <2>2. QED
    BY <1>k, <1>o, <1>e, <2>1
<1>9. QED
  BY <1>0, <1>1, <1>2, <1>3, <1>4, <1>5, <1>6, <1>7, <1>8 DEF Next, Progress

(* The record keeps its version, gets a higher one, or is flushed. *)
LEMMA RecordStep ==
    ASSUME Shape, [Next]_vars
    PROVE  \/ record' = record /\ gen' = gen
           \/ gen' = gen /\ record'.version > record.version
           \/ gen' = gen + 1 /\ record' = [data |-> Default, version |-> 0]
<1> USE DEF redis
<1>1. CASE \E p \in Processes : SaveScript(p)
  BY <1>1, ScriptTypes, SMTT(30) DEF SaveScript
<1>2. CASE Flush
  BY <1>2 DEF Flush
<1>3. CASE ~(\E p \in Processes : SaveScript(p)) /\ ~Flush
  BY <1>3 DEF Next, Progress, vars, ManagerInit, Reload, Save, Reset, Close, Load, AdoptEpoch,
     Subscribe, PersistEpoch, ReloadGoroutine, Edit, PublishUpdated, Dispatch, HandleUpdated
<1>4. QED
  BY <1>1, <1>2, <1>3

(* No copy is from the future, only the blank ones have version 0, and those of
   one generation and version are equal. *)
Stamped(x) ==
    /\ x \in Copies
    /\ x.gen <= gen
    /\ x.gen = gen => x.version <= record.version
    /\ x.version = 0 => x.data = Default
Agree(x, y) == x.version = y.version /\ x.gen = y.gen => x.data = y.data
Coherent ==
    /\ \A x : Held(x) => Stamped(x)
    /\ \A x, y : Held(x) /\ Held(y) => Agree(x, y)

(* A step that keeps copies and saves coherent: case by case. *)
LEMMA CoherentStep ==
    ASSUME Shape, Shape', Coherent, [Next]_vars
    PROVE  Coherent'
<1>t. /\ gen \in Nat /\ gen' \in Nat /\ record.version \in Nat /\ record'.version \in Nat
      /\ record'.data \in Values /\ Default \in Values
  BY ConfigurationAssumption DEF Shape, CoreType
<1>n. NoCopy = [data |-> Default, version |-> 0, gen |-> 0] /\ NoCopy \in Copies
  BY BlankTypes DEF NoCopy
<1>r. /\ RecordCopy' \in Copies /\ RecordCopy'.version = record'.version
      /\ RecordCopy'.gen = gen' /\ RecordCopy'.data = record'.data
      /\ RecordCopy.version = record.version /\ RecordCopy.gen = gen
      /\ RecordCopy.data = record.data /\ Stamped(RecordCopy) /\ Held(RecordCopy)
  BY <1>t DEF RecordCopy, Copies, Coherent, Held
<1>c. \A x \in Copies : x.version \in Nat /\ x.gen \in Nat
  BY DEF Copies
<1>1. ASSUME NEW x, Held(x)' PROVE Stamped(x)'
  <2>1. CASE Held(x)
    <3>1. Stamped(x)
      BY <2>1 DEF Coherent
    <3>2. QED
      BY <1>c, <1>t, <3>1, RecordStep, SMTT(30) DEF Stamped
  <2>2. CASE x = NoCopy
    BY <1>n, <1>t, <2>2, SMTT(30) DEF Stamped
  <2>3. CASE x = RecordCopy'
    BY <1>r, <1>t, <2>3, RecordStep, SMTT(30) DEF Stamped
  <2>4. QED
    BY <1>1, <2>1, <2>2, <2>3, HeldStep
<1>2. ASSUME NEW x, NEW y, Held(x), Held(y)' PROVE Agree(x, y)
  <2>1. Stamped(x)
    BY <1>2 DEF Coherent
  <2>2. CASE Held(y)
    BY <1>2, <2>2 DEF Coherent
  <2>3. CASE y = NoCopy
    BY <1>n, <2>1, <2>3 DEF Agree, Stamped
  <2>4. CASE y = RecordCopy'
    <3>1. CASE record' = record /\ gen' = gen
      <4>1. y = RecordCopy
        BY <2>4, <3>1 DEF RecordCopy
      <4>2. QED
        BY <1>2, <1>r, <4>1 DEF Coherent
    <3>2. CASE gen' = gen /\ record'.version > record.version
      BY <1>c, <1>r, <1>t, <2>1, <2>4, <3>2, SMTT(30) DEF Agree, Stamped
    <3>3. CASE gen' = gen + 1
      BY <1>c, <1>r, <1>t, <2>1, <2>4, <3>3, SMTT(30) DEF Agree, Stamped
    <3>4. QED
      BY <3>1, <3>2, <3>3, RecordStep
  <2>5. QED
    BY <1>2, <2>2, <2>3, <2>4, HeldStep
<1>3. ASSUME NEW x, NEW y, Held(x)', Held(y)' PROVE Agree(x, y)
  <2>1. CASE Held(x)
    BY <1>2, <1>3, <2>1
  <2>2. CASE Held(y)
    BY <1>2, <1>3, <2>2 DEF Agree
  <2>3. CASE x = NoCopy
    BY <1>1, <1>3, <1>n, <2>3 DEF Agree, Stamped
  <2>4. CASE y = NoCopy
    BY <1>1, <1>3, <1>n, <2>4 DEF Agree, Stamped
  <2>5. CASE x = RecordCopy' /\ y = RecordCopy'
    BY <2>5 DEF Agree
  <2>6. QED
    BY <1>3, <2>1, <2>2, <2>3, <2>4, <2>5, HeldStep
<1>4. QED
  BY <1>1, <1>3 DEF Coherent, Agree

(* Nobody holds a copy at the start. *)
LEMMA CoherentInit == Init => Coherent
<1> SUFFICES ASSUME Init PROVE Coherent
  OBVIOUS
<1>1. \A x : Held(x) => x = NoCopy
  BY SMTT(30) DEF Init, Held, RecordCopy, NoCopy, NoCall, NoEvent
<1>2. Stamped(NoCopy)
  BY BlankTypes, SMTT(30) DEF Init, Stamped, NoCopy
<1>3. QED
  BY <1>1, <1>2 DEF Coherent, Agree

(* The first inductive invariant. *)
LEMMA CoherentHolds == Spec => [](Shape /\ Coherent)
<1>1. Init => Shape /\ Coherent
  BY ShapeInit, CoherentInit
<1>2. Shape /\ Coherent /\ [Next]_vars => Shape' /\ Coherent'
  BY ShapeStep, CoherentStep
<1>3. QED
  BY <1>1, <1>2, PTL DEF Spec

(* A version number of the configuration stands for one content, for any number
   of processes that save, reset, reload and fail concurrently: every copy comes
   from the record, and the script gives every record it writes a new number. *)
THEOREM OneContentPerVersionHolds == Spec => []OneContentPerVersion
<1>1. Coherent => OneContentPerVersion
  BY HeldCopies DEF Coherent, Agree, OneContentPerVersion
<1>2. QED
  BY <1>1, CoherentHolds, PTL

(* No process is ahead of Redis: nothing is installed or announced that the script
   has not stored. *)
THEOREM NobodyIsAheadHolds == Spec => []NobodyIsAhead
<1>1. Coherent => NobodyIsAhead
  BY HeldCopies DEF Coherent, Stamped, NobodyIsAhead
<1>2. QED
  BY <1>1, CoherentHolds, PTL
---------------------------------------------------------------------------
(* A call other than Init runs in an initialized process, and what a call is
   about to install was stored. *)
CallOK(p) ==
    /\ op[p].call \in {"Reload", "Save"} => Initialized(p)
    /\ op[p].call = "none" <=> op[p].step = "idle"
    /\ op[p].step \in {"adopt", "hset", "publish"} => op[p].c.version > 0
    /\ Initialized(p) => instance[p].version > 0
CallsOK == \A p \in Processes : CallOK(p)

(* A call that is under way keeps what it has established. *)
LEMMA CallStep ==
    ASSUME Shape, CallsOK, [Next]_vars
    PROVE  CallsOK'
<1> SUFFICES ASSUME NEW q \in Processes PROVE CallOK(q)'
  BY DEF CallsOK
<1> USE DEF manager, application
<1>t. /\ op \in [Processes -> Ops] /\ instance \in [Processes -> Copies]
      /\ record.version \in Nat /\ CallOK(q)
      /\ handling \in [Processes -> Events]
  BY DEF Shape, OpType, CoreType, EventType, CallsOK
<1>n. NoCopy.version = 0 /\ \A x \in Copies : x.version \in Nat
  BY DEF NoCopy, Copies
<1>0. CASE op'[q] = op[q] /\ instance'[q] = instance[q]
  BY <1>0, <1>t DEF CallOK, Initialized
<1>i. CASE op'[q] = NoCall /\ instance'[q] = instance[q]
  BY <1>i, <1>t, SMTT(30) DEF CallOK, Initialized, NoCall
<1>1. ASSUME NEW p \in Processes, \/ ManagerInit(p) \/ Reload(p) \/ ReloadGoroutine(p)
                                   \/ Save(p) \/ Reset(p)
      PROVE  CallOK(q)'
  <2>1. /\ UNCHANGED instance
        /\ \/ op'[q] = op[q]
           \/ op'[q].call = "Init" /\ op'[q].step = "load"
           \/ Initialized(q) /\ op'[q].call # "none" /\ op'[q].step \in {"load", "script"}
    BY <1>1, <1>t, SMTT(30) DEF ManagerInit, Reload, ReloadGoroutine, Save, Reset, Call
  <2>2. QED
    BY <1>t, <2>1 DEF CallOK, Initialized
<1>2. ASSUME NEW p \in Processes, Load(p) PROVE CallOK(q)'
  <2>1. CASE p = q
    <3>1. op[q].call # "none"
      BY <1>2, <1>t, <2>1 DEF Load, CallOK
    <3>2. \/ instance'[q] = instance[q] \/ instance'[q].version > 0
      BY <1>2, <1>t, <2>1, SMTT(30) DEF Load, SetCurrentConfig, CreateDefaults
    <3>3. \/ op'[q] = NoCall
          \/ /\ op'[q].call = op[q].call /\ op'[q].step \in {"adopt", "script", "subscribe"}
             /\ op'[q].step = "adopt" => op'[q].c.version > 0
      BY <1>2, <1>t, <2>1, SMTT(30) DEF Load, CreateDefaults, Loaded, Goto, Call, Return
    <3>4. QED
      BY <1>n, <1>t, <3>1, <3>2, <3>3, SMTT(30) DEF CallOK, Initialized, NoCall
  <2>2. CASE p # q
    BY <1>0, <1>2, <1>t, <2>2 DEF Load, SetCurrentConfig, CreateDefaults, Loaded, Goto, Call, Return
  <2>3. QED
    BY <2>1, <2>2
<1>3. ASSUME NEW p \in Processes, AdoptEpoch(p) \/ PersistEpoch(p) PROVE CallOK(q)'
  <2>1. CASE p = q
    <3>1. op[q].call # "none" /\ op[q].c.version > 0 /\ op[q].c \in Copies
      BY <1>3, <1>t, <2>1 DEF AdoptEpoch, PersistEpoch, CallOK, Ops
    <3>2. \/ instance'[q] = instance[q] \/ instance'[q].version > 0
      BY <1>3, <1>t, <2>1, <3>1 DEF AdoptEpoch, PersistEpoch, SetCurrentConfig
    <3>3. \/ op'[q] = NoCall
          \/ /\ op'[q].call = op[q].call /\ op'[q].step \in {"publish", "subscribe"}
             /\ op'[q].step = "publish" => op'[q].c = op[q].c
      BY <1>3, <1>t, <2>1, SMTT(30) DEF AdoptEpoch, PersistEpoch, Loaded, Goto, Call, Return
    <3>4. QED
      BY <1>n, <1>t, <3>1, <3>2, <3>3, SMTT(30) DEF CallOK, Initialized, NoCall
  <2>2. CASE p # q
    BY <1>0, <1>3, <1>t, <2>2 DEF AdoptEpoch, PersistEpoch, SetCurrentConfig, Loaded, Goto, Call, Return
  <2>3. QED
    BY <2>1, <2>2
<1>4. ASSUME NEW p \in Processes, SaveScript(p) PROVE CallOK(q)'
  <2>1. /\ UNCHANGED instance
        /\ \/ op'[q] = op[q] \/ op'[q] = NoCall
           \/ /\ op[q].step = "script" /\ op'[q].call = op[q].call /\ op'[q].step = "hset"
              /\ op'[q].c.version = NewVersion(record.version)
    BY <1>4, <1>t, SMTT(30) DEF SaveScript, Goto, Call, Return
  <2>2. NewVersion(record.version) > 0
    BY <1>t, SMTT(30) DEF NewVersion
  <2>3. QED
    BY <1>t, <2>1, <2>2, SMTT(30) DEF CallOK, Initialized, NoCall
<1>5. ASSUME NEW p \in Processes, Subscribe(p) \/ PublishUpdated(p) PROVE CallOK(q)'
  BY <1>0, <1>i, <1>5, <1>t DEF Subscribe, PublishUpdated, Return
<1>6. ASSUME NEW p \in Processes, NEW d \in Values, Edit(p, d) PROVE CallOK(q)'
  <2>1. /\ op' = op
        /\ \/ instance'[q] = instance[q]
           \/ Initialized(q) /\ instance'[q].version = instance[q].version
    BY <1>6, <1>t DEF Edit, Copies
  <2>2. QED
    BY <1>n, <1>t, <2>1, SMTT(30) DEF CallOK, Initialized
<1>7. ASSUME NEW p \in Processes, HandleUpdated(p) PROVE CallOK(q)'
  <2>1. /\ op' = op
        /\ \/ instance'[q] = instance[q]
           \/ /\ Initialized(q) /\ instance'[q].version > instance[q].version
              /\ instance'[q] = handling[q].c
    BY <1>7, <1>t DEF HandleUpdated, SetCurrentConfig
  <2>2. instance[q].version \in Nat /\ handling[q].c.version \in Nat
    BY <1>t DEF Events, Copies
  <2>3. instance'[q] = instance[q] \/ (Initialized(q) /\ instance'[q].version > 0)
    BY <2>1, <2>2, SMTT(30)
  <2>4. QED
    BY <1>n, <1>t, <2>1, <2>3, SMTT(30) DEF CallOK, Initialized
<1>8. ASSUME NEW p \in Processes, Close(p) PROVE CallOK(q)'
  <2>1. /\ op' = op
        /\ instance'[q] = instance[q] \/ (instance'[q] = NoCopy /\ op[q].step = "idle")
    BY <1>8, <1>t DEF Close, Free, SetCurrentConfig
  <2>2. QED
    BY <1>n, <1>t, <2>1 DEF CallOK, Initialized
<1>9. CASE UNCHANGED vars \/ Flush \/ \E p \in Processes : Dispatch(p)
  BY <1>0, <1>9 DEF vars, Flush, Dispatch
<1>10. QED
  BY <1>1, <1>2, <1>3, <1>4, <1>5, <1>6, <1>7, <1>8, <1>9 DEF Next, Progress

(* No call is under way at the start. *)
LEMMA CallsInit == Init => CallsOK
<1> SUFFICES ASSUME Init, NEW p \in Processes PROVE CallOK(p)
  BY DEF CallsOK
<1>1. op[p] = NoCall /\ instance[p] = NoCopy
  BY DEF Init
<1>2. QED
  BY <1>1, SMTT(30) DEF CallOK, Initialized, NoCall

(* The second inductive invariant. *)
LEMMA CallsHold == Spec => [](Shape /\ CallsOK)
<1>1. Init => Shape /\ CallsOK
  BY ShapeInit, CallsInit
<1>2. Shape /\ CallsOK /\ [Next]_vars => Shape' /\ CallsOK'
  BY ShapeStep, CallStep
<1>3. QED
  BY <1>1, <1>2, PTL DEF Spec

(* Nothing but Init brings back the configuration of a closed process, whatever
   events and Reload goroutines are still on their way: the calls that install one
   began while m.instance was set, and Close waits for m.mu. *)
THEOREM ClosedUntilInitHolds == Spec => ClosedUntilInit
<1> DEFINE Opens == \A p \in Processes : ~Initialized(p) /\ Initialized(p)' => op[p].call = "Init"
<1>1. ASSUME Shape, CallsOK, [Next]_vars PROVE Opens
  <2> SUFFICES ASSUME NEW q \in Processes, ~Initialized(q), Initialized(q)', op[q].call # "Init"
               PROVE  FALSE
    OBVIOUS
  <2> USE <1>1 DEF manager, application
  <2>1. /\ instance \in [Processes -> Copies] /\ instance[q] # instance'[q]
        /\ op[q].step = "idle"
    BY DEF Shape, CoreType, OpType, Ops, Calls, CallsOK, CallOK, Initialized
  <2>2. ASSUME NEW p \in Processes, \/ Load(p) \/ AdoptEpoch(p) \/ PersistEpoch(p)
        PROVE  FALSE
    BY <2>1, <2>2 DEF Load, AdoptEpoch, PersistEpoch, SetCurrentConfig, CreateDefaults
  <2>3. ASSUME NEW p \in Processes, Close(p) \/ HandleUpdated(p) \/ \E d \in Values : Edit(p, d)
        PROVE  FALSE
    BY <2>1, <2>3 DEF Close, HandleUpdated, Edit, SetCurrentConfig, Initialized
  <2>4. QED
    BY <2>1, <2>2, <2>3 DEF Next, Progress, vars, Flush, ManagerInit, Reload, Save, Reset, Subscribe,
       SaveScript, PublishUpdated, Dispatch, ReloadGoroutine
<1>2. QED
  BY <1>1, CallsHold, PTL DEF Spec, ClosedUntilInit
---------------------------------------------------------------------------
(* The epoch i was drawn in generation g or before. *)
Drawn(i, g) == i <= Len(born) /\ (i > 0 => born[i] <= g)

(* An epoch is published only with configurations of its own generation or a later
   one, and a call installs nothing older than what the process has. *)
DatedOf(p) ==
    /\ mEpoch[p] <= Len(born)
    /\ Initialized(p) \/ op[p].step \in {"script", "adopt", "hset", "publish"} => mEpoch[p] > 0
    /\ instance[p].gen <= gen
    /\ op[p].step \in {"adopt", "hset", "publish"} =>
          instance[p].gen <= op[p].c.gen /\ op[p].c.gen <= gen
    /\ op[p].step \in {"hset", "publish"} => Drawn(mEpoch[p], op[p].c.gen)
DatedEvent(e) == Drawn(e.epoch, e.c.gen) /\ e.c.gen <= gen
DatedBase == epoch <= Len(born) /\ \A i \in 1..Len(born) : born[i] <= gen
Dated ==
    /\ DatedBase
    /\ \A p \in Processes :
          /\ DatedOf(p)
          /\ DatedEvent(handling[p])
          /\ \A i \in 1..Len(wire[p]) : DatedEvent(wire[p][i])

(* Epochs are only added, and time passes. *)
LEMMA BornStep ==
    ASSUME Shape, DatedBase, [Next]_vars
    PROVE  /\ Len(born) \in Nat /\ Len(born') \in Nat /\ Len(born') >= Len(born)
           /\ gen \in Nat /\ gen' \in Nat /\ gen' >= gen
           /\ \A i \in 1..Len(born) : born'[i] = born[i] /\ born[i] \in Nat
           /\ \A i \in 1..Len(born') : born'[i] <= gen'
<1>t. born \in Seq(Nat) /\ gen \in Nat
  BY DEF Shape, CoreType
<1>1. (born' = born \/ born' = Append(born, gen)) /\ (gen' = gen \/ (gen' = gen + 1 /\ born' = born))
  BY DEF Next, Progress, vars, redis, ManagerInit, Reload, Save, Reset, Close, Edit, Load, NewEpoch,
     CreateDefaults, AdoptEpoch, Subscribe, SaveScript, PersistEpoch, PublishUpdated, Dispatch,
     HandleUpdated, ReloadGoroutine, Flush
<1>2. CASE born' = born
  BY <1>t, <1>1, <1>2, SMTT(30) DEF DatedBase
<1>3. CASE born' = Append(born, gen) /\ gen' = gen
  <2>1. /\ Len(born) \in Nat /\ Len(born') = Len(born) + 1 /\ born'[Len(born) + 1] = gen
        /\ \A i \in 1..Len(born) : born'[i] = born[i] /\ born[i] \in Nat
    BY <1>t, <1>3, SMTT(30)
  <2>2. QED
    BY <1>t, <1>3, <2>1, SMTT(30) DEF DatedBase
<1>4. QED
  BY <1>1, <1>2, <1>3

(* An epoch once drawn stays drawn. *)
LEMMA DrawnStep ==
    ASSUME Shape, DatedBase, [Next]_vars, NEW i \in Nat, NEW g \in Nat, Drawn(i, g)
    PROVE  Drawn(i, g)'
BY BornStep, SMTT(30) DEF Drawn

(* An event keeps its date. *)
LEMMA DatedEventStep ==
    ASSUME Shape, DatedBase, [Next]_vars, NEW e \in Events, DatedEvent(e)
    PROVE  DatedEvent(e)'
<1>1. e.epoch \in Nat /\ e.c.gen \in Nat
  BY DEF Events, Copies
<1>2. QED
  BY <1>1, BornStep, DrawnStep, SMTT(30) DEF DatedEvent

(* The record in Redis keeps its date. *)
LEMMA DatedBaseStep ==
    ASSUME Shape, Dated, [Next]_vars
    PROVE  DatedBase'
<1>t. Len(born) \in Nat /\ epoch \in Nat /\ mEpoch \in [Processes -> Nat] /\ DatedBase
  BY BornStep DEF Shape, CoreType, Dated
<1>1. epoch' = epoch \/ epoch' = 0 \/ \E p \in Processes : epoch' = mEpoch[p]
  BY DEF Next, Progress, vars, redis, ManagerInit, Reload, Save, Reset, Close, Edit, Load, AdoptEpoch,
     Subscribe, SaveScript, PersistEpoch, PublishUpdated, Dispatch, HandleUpdated, ReloadGoroutine,
     Flush, NoEpoch
<1>2. epoch' <= Len(born)
  BY <1>t, <1>1, SMTT(30) DEF Dated, DatedBase, DatedOf
<1>3. QED
  BY <1>t, <1>1, <1>2, BornStep, SMTT(30) DEF DatedBase

(* A manager keeps the date of what it holds. *)
LEMMA DatedOfStep ==
    ASSUME Shape, Shape', Dated, [Next]_vars, NEW q \in Processes
    PROVE  DatedOf(q)'
<1> USE DEF manager, application
<1>t. /\ op \in [Processes -> Ops] /\ instance \in [Processes -> Copies]
      /\ mEpoch \in [Processes -> Nat] /\ mEpoch'[q] \in Nat /\ epoch \in Nat
      /\ handling \in [Processes -> Events]
      /\ DatedOf(q) /\ DatedEvent(handling[q]) /\ DatedBase
  BY DEF Shape, OpType, CoreType, EventType, Dated
<1>b. /\ Len(born) \in Nat /\ Len(born') \in Nat /\ Len(born') >= Len(born)
      /\ gen \in Nat /\ gen' \in Nat /\ gen' >= gen
  BY <1>t, BornStep
<1>n. /\ instance[q].gen \in Nat /\ op[q].c.gen \in Nat /\ mEpoch[q] \in Nat /\ NoCopy.gen = 0
      /\ handling[q].c.gen \in Nat /\ instance'[q].gen \in Nat
  BY <1>t DEF Shape, CoreType, NoCopy, Copies, Ops, Events
<1>d. \A i, g \in Nat : Drawn(i, g) => Drawn(i, g)'
  BY <1>t, DrawnStep
(* Steps that leave the call of q alone, end it, or start one. *)
<1>0. CASE /\ mEpoch'[q] = mEpoch[q] /\ op'[q] = op[q]
           /\ \/ instance'[q].gen = instance[q].gen /\ (Initialized(q)' => Initialized(q))
              \/ op[q].step = "idle" /\ instance'[q].gen <= gen /\ (Initialized(q)' => Initialized(q))
  <2>1. Drawn(mEpoch[q], op[q].c.gen) => Drawn(mEpoch[q], op[q].c.gen)'
    BY <1>0, <1>d, <1>n DEF Drawn
  <2>2. Initialized(q)' \/ op'[q].step \in {"script", "adopt", "hset", "publish"} => mEpoch'[q] > 0
    BY <1>0, <1>t DEF DatedOf
  <2>3. mEpoch'[q] <= Len(born') /\ instance'[q].gen <= gen'
    BY <1>0, <1>b, <1>n, <1>t, SMTT(30) DEF DatedOf
  <2>4. /\ op'[q].step \in {"adopt", "hset", "publish"} =>
              instance'[q].gen <= op'[q].c.gen /\ op'[q].c.gen <= gen'
        /\ op'[q].step \in {"hset", "publish"} => Drawn(mEpoch[q], op[q].c.gen)'
    BY <1>0, <1>b, <1>n, <1>t, <2>1, SMTT(30) DEF DatedOf
  <2>5. QED
    BY <2>2, <2>3, <2>4 DEF DatedOf
<1>i. CASE /\ mEpoch'[q] = mEpoch[q] /\ instance'[q] = instance[q]
           /\ op'[q].step \in {"idle", "load", "subscribe"} \/ (op'[q].step = "script" /\ Initialized(q))
  BY <1>i, <1>b, <1>n, <1>t, SMTT(30) DEF DatedOf, Initialized
<1>1. ASSUME NEW p \in Processes, \/ ManagerInit(p) \/ Reload(p) \/ ReloadGoroutine(p) \/ Save(p)
                                   \/ Reset(p) \/ Subscribe(p) \/ PublishUpdated(p)
      PROVE  DatedOf(q)'
  <2>1. /\ UNCHANGED <<instance, mEpoch>>
        /\ \/ op'[q] = op[q] \/ op'[q].step \in {"idle", "load"}
           \/ op'[q].step = "script" /\ Initialized(q)
    BY <1>1, <1>t, SMTT(30) DEF ManagerInit, Reload, ReloadGoroutine, Save, Reset, Subscribe, PublishUpdated,
       Call, Return, NoCall
  <2>2. QED
    BY <1>0, <1>i, <2>1 DEF Initialized
<1>2. ASSUME NEW p \in Processes, Load(p) PROVE DatedOf(q)'
  <2>1. CASE p # q
    BY <1>0, <1>2, <1>t, <2>1 DEF Load, SetCurrentConfig, NewEpoch, CreateDefaults, Loaded, Goto, Call,
       Return, Initialized
  <2>2. CASE p = q
    <3>1. CASE /\ mEpoch'[q] = epoch /\ epoch # 0 /\ instance'[q].gen = gen /\ gen' = gen
               /\ op'[q].step \in {"idle", "subscribe"}
      BY <1>b, <1>t, <3>1, SMTT(30) DEF DatedOf, DatedBase
    <3>2. CASE /\ mEpoch'[q] = Len(born) + 1 /\ Len(born') = Len(born) + 1 /\ gen' = gen
               /\ instance'[q] = instance[q]
               /\ op'[q].step = "script" \/ (op'[q].step = "adopt" /\ op'[q].c.gen = gen)
      BY <1>b, <1>n, <1>t, <3>2, SMTT(30) DEF DatedOf, Initialized
    <3>3. NewEpoch(q) => Len(born') = Len(born) + 1 /\ mEpoch'[q] = Len(born) + 1
      BY <1>t, SMTT(30) DEF NewEpoch, Shape, CoreType
    <3>4. QED
      BY <1>2, <1>t, <2>2, <3>1, <3>2, <3>3, SMTT(30) DEF Load, SetCurrentConfig, CreateDefaults, Loaded, Goto,
         Call, Return, NoCall, NoEpoch, redis
  <2>3. QED
    BY <2>1, <2>2
<1>3. ASSUME NEW p \in Processes, AdoptEpoch(p) \/ PersistEpoch(p) PROVE DatedOf(q)'
  <2>1. CASE p # q
    BY <1>0, <1>3, <1>t, <2>1 DEF AdoptEpoch, PersistEpoch, SetCurrentConfig, Loaded, Goto, Call,
       Return, Initialized
  <2>2. CASE p = q
    <3>1. /\ UNCHANGED <<mEpoch, gen>> /\ op[q].step \in {"adopt", "hset"}
          /\ instance'[q] = instance[q] \/ instance'[q] = op[q].c
          /\ \/ op'[q].step \in {"idle", "subscribe"}
             \/ /\ op[q].step = "hset" /\ op'[q].step = "publish" /\ op'[q].c = op[q].c
                /\ instance'[q] = op[q].c
      BY <1>3, <1>t, <2>2, SMTT(30) DEF AdoptEpoch, PersistEpoch, SetCurrentConfig, Loaded, Goto, Call, Return,
         NoCall
    <3>2. CASE op'[q].step \in {"idle", "subscribe"}
      BY <1>b, <1>n, <1>t, <3>1, <3>2, SMTT(30) DEF DatedOf
    <3>3. CASE /\ op[q].step = "hset" /\ op'[q].step = "publish" /\ op'[q].c = op[q].c
               /\ instance'[q] = op[q].c
      <4>1. Drawn(mEpoch[q], op[q].c.gen)'
        BY <1>d, <1>n, <1>t, <3>1, <3>3 DEF DatedOf, Drawn
      <4>2. QED
        BY <1>b, <1>n, <1>t, <3>1, <3>3, <4>1, SMTT(30) DEF DatedOf
    <3>4. QED
      BY <3>1, <3>2, <3>3
  <2>3. QED
    BY <2>1, <2>2
<1>4. ASSUME NEW p \in Processes, SaveScript(p) PROVE DatedOf(q)'
  <2>1. /\ UNCHANGED <<instance, mEpoch, born, gen>>
        /\ \/ op'[q] = op[q] \/ op'[q].step = "idle"
           \/ op[q].step = "script" /\ op'[q].step = "hset" /\ op'[q].c.gen = gen
    BY <1>4, <1>t, SMTT(30) DEF SaveScript, Goto, Call, Return, NoCall
  <2>2. CASE op[q].step = "script" /\ op'[q].step = "hset" /\ op'[q].c.gen = gen
    <3>1. Drawn(mEpoch[q], op[q].c.gen)'
      BY <1>b, <1>n, <1>t, <2>1, <2>2, SMTT(30) DEF DatedOf, DatedBase, Drawn
    <3>2. QED
      BY <1>b, <1>n, <1>t, <2>1, <2>2, <3>1 DEF DatedOf
  <2>3. QED
    BY <1>0, <1>i, <2>1, <2>2 DEF Initialized
<1>5. ASSUME NEW p \in Processes, Close(p) \/ HandleUpdated(p) \/ \E d \in Values : Edit(p, d)
      PROVE  DatedOf(q)'
  <2>1. /\ UNCHANGED <<mEpoch, op>>
        /\ \/ instance'[q] = instance[q]
           \/ op[q].step = "idle" /\ instance'[q] = NoCopy
           \/ op[q].step = "idle" /\ Initialized(q) /\ instance'[q].gen = instance[q].gen
           \/ op[q].step = "idle" /\ Initialized(q) /\ instance'[q] = handling[q].c
    BY <1>5, <1>t, SMTT(30) DEF Close, HandleUpdated, Edit, SetCurrentConfig, Free, Copies
  <2>2. QED
    BY <1>0, <1>b, <1>n, <1>t, <2>1, SMTT(30) DEF DatedOf, DatedEvent, Initialized
<1>6. CASE UNCHANGED vars \/ Flush \/ \E p \in Processes : Dispatch(p)
  BY <1>0, <1>6 DEF vars, Flush, Dispatch, Initialized
<1>7. QED
  BY <1>1, <1>2, <1>3, <1>4, <1>5, <1>6 DEF Next, Progress

(* The events on their way, new ones included, keep theirs. *)
LEMMA DatedEventsStep ==
    ASSUME Shape, Shape', Dated, [Next]_vars, NEW q \in Processes
    PROVE  DatedEvent(handling[q])' /\ \A i \in 1..Len(wire'[q]) : DatedEvent(wire[q][i])'
<1> DEFINE Goal == /\ DatedEvent(handling[q])'
                   /\ \A i \in 1..Len(wire'[q]) : DatedEvent(wire[q][i])'
<1>t. /\ op \in [Processes -> Ops] /\ mEpoch \in [Processes -> Nat] /\ wire \in [Processes -> Seq(Events)]
      /\ handling \in [Processes -> Events] /\ DatedBase
  BY DEF Shape, OpType, CoreType, EventType, Dated
<1>n. NoEvent \in Events /\ DatedEvent(NoEvent)
  BY <1>t, BlankTypes, BornStep, SMTT(30) DEF DatedEvent, Drawn, NoEvent, NoEpoch, NoCopy
<1>d. \A e \in Events : DatedEvent(e) => DatedEvent(e)'
  BY <1>t, DatedEventStep
<1>w. \A i \in 1..Len(wire[q]) : wire[q][i] \in Events /\ DatedEvent(wire[q][i])
  BY <1>t, SMTT(30) DEF Dated
<1>h. handling[q] \in Events /\ DatedEvent(handling[q])
  BY <1>t DEF Dated
<1>0. CASE wire'[q] = wire[q] /\ (handling'[q] = handling[q] \/ handling'[q] = NoEvent)
  BY <1>0, <1>d, <1>h, <1>n, <1>w DEF DatedEvent, Drawn
<1>1. ASSUME NEW p \in Processes, PublishUpdated(p) PROVE Goal
  <2> DEFINE e == [c |-> op[p].c, epoch |-> mEpoch[p]]
  <2>1. op[p].step = "publish" /\ handling' = handling
        /\ (wire'[q] = wire[q] \/ wire'[q] = Append(wire[q], e))
    BY <1>1, <1>t DEF PublishUpdated
  <2>2. e \in Events /\ DatedEvent(e)
    BY <1>t, <2>1 DEF Dated, DatedOf, DatedEvent, Events, Ops
  <2>3. CASE wire'[q] = Append(wire[q], e)
    <3>1. \A i \in 1..Len(wire'[q]) :
             wire'[q][i] = e \/ \E j \in 1..Len(wire[q]) : wire'[q][i] = wire[q][j]
      BY <1>t, <2>2, <2>3, AppendElements, SMTT(30)
    <3>2. \A i \in 1..Len(wire'[q]) : wire'[q][i] \in Events /\ DatedEvent(wire'[q][i])
      BY <1>w, <2>2, <3>1
    <3>3. \A i \in 1..Len(wire'[q]) : DatedEvent(wire[q][i])'
      BY <1>d, <3>2 DEF DatedEvent, Drawn
    <3>4. QED
      BY <1>d, <1>h, <2>1, <3>3 DEF DatedEvent, Drawn
  <2>4. QED
    BY <1>0, <2>1, <2>3
<1>2. ASSUME NEW p \in Processes, Dispatch(p) PROVE Goal
  <2>1. \/ wire'[q] = wire[q] /\ handling'[q] = handling[q]
        \/ /\ wire[q] # <<>> /\ wire'[q] = Tail(wire[q])
           /\ handling'[q] = Head(wire[q]) \/ handling'[q] = NoEvent
    BY <1>2, <1>t DEF Dispatch
  <2>2. CASE /\ wire[q] # <<>> /\ wire'[q] = Tail(wire[q])
             /\ handling'[q] = Head(wire[q]) \/ handling'[q] = NoEvent
    <3>1. /\ Head(wire[q]) = wire[q][1] /\ 1 \in 1..Len(wire[q])
          /\ \A i \in 1..Len(wire'[q]) : \E j \in 1..Len(wire[q]) : wire'[q][i] = wire[q][j]
      BY <1>t, <2>2, TailElements, SMTT(30)
    <3>2. /\ \A i \in 1..Len(wire'[q]) : wire'[q][i] \in Events /\ DatedEvent(wire'[q][i])
          /\ handling'[q] \in Events /\ DatedEvent(handling'[q])
      BY <1>n, <1>w, <2>2, <3>1
    <3>3. QED
      BY <1>d, <3>2 DEF DatedEvent, Drawn
  <2>3. QED
    BY <1>0, <2>1, <2>2
<1>3. CASE ~(\E p \in Processes : PublishUpdated(p) \/ Dispatch(p))
  <2>1. wire' = wire /\ (handling' = handling \/ \E p \in Processes : HandleUpdated(p))
    BY <1>3 DEF Next, Progress, vars, bus, ManagerInit, Reload, Save, Reset, Close, Edit, Load,
       AdoptEpoch, Subscribe, SaveScript, PersistEpoch, HandleUpdated, ReloadGoroutine, Flush
  <2>2. QED
    BY <1>0, <1>t, <2>1 DEF HandleUpdated
<1>4. QED
  BY <1>1, <1>2, <1>3

(* The dates at the start. *)
LEMMA DatedInit == Init => Dated
<1> SUFFICES ASSUME Init PROVE Dated
  OBVIOUS
<1>1. /\ gen = 0 /\ epoch = 0 /\ Len(born) = 0
      /\ \A p \in Processes : /\ mEpoch[p] = 0 /\ instance[p] = NoCopy /\ op[p] = NoCall
                              /\ handling[p] = NoEvent /\ Len(wire[p]) = 0
  BY DEF Init, NoEpoch
<1>2. NoCopy.gen = 0 /\ NoCall.step = "idle" /\ NoEvent.epoch = 0 /\ NoEvent.c = NoCopy
  BY DEF NoCopy, NoCall, NoEvent, NoEpoch
<1>3. QED
  BY <1>1, <1>2, SMTT(30) DEF Dated, DatedBase, DatedOf, DatedEvent, Drawn, Initialized

(* The third inductive invariant. *)
LEMMA DatedHolds == Spec => [](Shape /\ Dated)
<1>1. Init => Shape /\ Dated
  BY ShapeInit, DatedInit
<1>2. ASSUME Shape, Dated, [Next]_vars PROVE Shape' /\ Dated'
  <2>1. Shape'
    BY <1>2, ShapeStep
  <2>2. \A p \in Processes : DatedOf(p)'
    BY <1>2, <2>1, DatedOfStep
  <2>3. \A p \in Processes : DatedEvent(handling[p])' /\ \A i \in 1..Len(wire'[p]) : DatedEvent(wire[p][i])'
    BY <1>2, <2>1, DatedEventsStep
  <2>4. DatedBase'
    BY <1>2, DatedBaseStep
  <2>5. QED
    BY <2>1, <2>2, <2>3, <2>4 DEF Dated
<1>3. QED
  BY <1>1, <1>2, PTL DEF Spec

(* Only a process whose epoch outlived a flush can be taken back before it: every
   other way to replace m.instance reads the record of now, and an event of the
   process's own epoch is no older than that epoch. *)
THEOREM NoWayBackBeforeFlushHolds == Spec => NoWayBackBeforeFlush
<1> DEFINE Kept == \A p \in Processes :
                      /\ Initialized(p)
                      /\ Initialized(p)'
                      /\ instance[p].gen > instance'[p].gen
                      => born[mEpoch[p]] < instance[p].gen
<1>1. ASSUME Shape, Dated, [Next]_vars PROVE Kept
  <2> SUFFICES ASSUME NEW q \in Processes, Initialized(q), Initialized(q)',
                      instance[q].gen > instance'[q].gen
               PROVE  born[mEpoch[q]] < instance[q].gen
    OBVIOUS
  <2> USE <1>1 DEF manager, application
  <2>t. /\ instance \in [Processes -> Copies] /\ handling \in [Processes -> Events]
        /\ op \in [Processes -> Ops] /\ mEpoch[q] \in Nat /\ gen \in Nat
        /\ DatedOf(q) /\ DatedEvent(handling[q]) /\ DatedBase
    BY DEF Shape, CoreType, OpType, EventType, Dated
  <2>n. instance[q].gen \in Nat /\ op[q].c.gen \in Nat /\ handling[q].c.gen \in Nat
    BY <2>t DEF Copies, Ops, Events
  <2>1. /\ instance'[q].gen # instance[q].gen /\ instance'[q] # NoCopy
        /\ instance'[q].gen # gen
        /\ ~(op[q].step \in {"adopt", "hset"} /\ instance'[q] = op[q].c)
    BY <2>n, <2>t, SMTT(30) DEF DatedOf, Initialized
  <2>2. ASSUME NEW p \in Processes, HandleUpdated(p)
        PROVE  instance'[q] = handling[q].c /\ handling[q].epoch = mEpoch[q]
    BY <2>1, <2>2, <2>t DEF HandleUpdated, SetCurrentConfig
  <2>3. \E p \in Processes : HandleUpdated(p)
    <3>1. ASSUME NEW p \in Processes, \/ Load(p) \/ AdoptEpoch(p) \/ PersistEpoch(p) PROVE FALSE
      BY <2>1, <2>t, <3>1, SMTT(30) DEF Load, AdoptEpoch, PersistEpoch, SetCurrentConfig, CreateDefaults
    <3>2. ASSUME NEW p \in Processes, Close(p) \/ \E d \in Values : Edit(p, d) PROVE FALSE
      BY <2>1, <2>t, <3>2, SMTT(30) DEF Close, Edit, SetCurrentConfig, Copies
    <3>3. QED
      BY <2>1, <3>1, <3>2 DEF Next, Progress, vars, Flush, ManagerInit, Reload, Save, Reset,
         Subscribe, SaveScript, PublishUpdated, Dispatch, ReloadGoroutine
  <2>4. /\ mEpoch[q] > 0 /\ mEpoch[q] <= Len(born) /\ born[mEpoch[q]] <= handling[q].c.gen
        /\ handling[q].c.gen < instance[q].gen
    BY <2>2, <2>3, <2>t DEF DatedOf, DatedEvent, Drawn
  <2>5. born[mEpoch[q]] \in Nat
    BY <2>4, <2>t, BornStep, SMTT(30)
  <2>6. QED
    BY <2>4, <2>5, <2>n, SMTT(30)
<1>2. QED
  BY <1>1, DatedHolds, PTL DEF Spec, NoWayBackBeforeFlush
===========================================================================
