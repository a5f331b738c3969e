--------------------------- MODULE Configuration ---------------------------
(***************************************************************************)
(* The configuration record in Redis and the copies that the connected     *)
(* processes keep of it (internal/config), kept in step through            *)
(* configuration.updated events on the system event bus                    *)
(* (internal/eventbus).                                                    *)
(*                                                                         *)
(* A process holds m.mu during a whole call, but a call is several Redis   *)
(* commands and the processes do not share a mutex: every command is a     *)
(* step.  Redis may be flushed, a command may fail, its reply may be lost. *)
(* An event reaches the processes that are subscribed when it is           *)
(* published, in order, and the handler waits for m.mu.                    *)
(***************************************************************************)
EXTENDS Integers, Sequences

CONSTANTS
    Processes,
    Values,             \* contents of a configuration
    Default,            \* DefaultConfig()
    Editors,            \* processes whose application edits and saves
    MaxSaves,           \* bound on the edits to save and the calls of Reset
    MaxDisturbances     \* bound on flushes, failed commands, lost replies and
                        \* calls of Reload and Close

ASSUME ConfigurationAssumption ==
    /\ Default \in Values
    /\ Editors \subseteq Processes
    /\ MaxSaves \in Nat
    /\ MaxDisturbances \in Nat

(* A copy of the configuration.  gen, the number of flushes before it was
   written, is history: the code tells generations apart by the epoch. *)
Copies == [data : Values, version : Nat, gen : Nat]
NoCopy == [data |-> Default, version |-> 0, gen |-> 0]

Calls == {"none", "Init", "Reload", "Save"}
Steps == {"idle", "load", "adopt", "script", "hset", "subscribe", "publish"}
NoCall == [call |-> "none", step |-> "idle", c |-> NoCopy]

NoEpoch == 0        \* the empty string; the UUIDs are 1, 2, ...
NoEvent == [c |-> NoCopy, epoch |-> NoEpoch]

VARIABLES
    record,     \* the hash: its version (0: no such field) and its data
    epoch,      \* its epoch field
    gen,        \* history: how often Redis was flushed
    born,       \* the epochs drawn so far, each with its generation (history)
    instance,   \* m.instance, NoCopy for nil
    mEpoch,     \* m.epoch
    subscribed, \* the handler is registered with the bus
    op,         \* the call that holds m.mu and what it does next
    reloads,    \* Reload goroutines started by the event handler
    draft,      \* what the application got from Get() and edited
    dirty,      \* history: m.instance holds an edit that was not saved
    wire,       \* events on their way to the process
    handling,   \* the event its bus listener is delivering
    saves,      \* edits and calls of Reset so far
    disturbed,  \* disturbances so far, and the failures among them
    failures,
    told        \* history: newest version published to the process

redis == <<record, epoch, gen>>
manager == <<instance, mEpoch, subscribed, op, reloads>>
application == <<draft, dirty>>
bus == <<wire, handling>>
bounds == <<saves, disturbed, failures>>
vars == <<redis, born, manager, application, bus, bounds, told>>

Init ==
    /\ record = [data |-> Default, version |-> 0]
    /\ epoch = NoEpoch
    /\ gen = 0
    /\ born = <<>>
    /\ instance = [p \in Processes |-> NoCopy]
    /\ mEpoch = [p \in Processes |-> NoEpoch]
    /\ subscribed = [p \in Processes |-> FALSE]
    /\ op = [p \in Processes |-> NoCall]
    /\ reloads = [p \in Processes |-> 0]
    /\ draft = [p \in Processes |-> NoCopy]
    /\ dirty = [p \in Processes |-> FALSE]
    /\ wire = [p \in Processes |-> <<>>]
    /\ handling = [p \in Processes |-> NoEvent]
    /\ saves = 0
    /\ disturbed = 0
    /\ failures = 0
    /\ told = [p \in Processes |-> 0]
---------------------------------------------------------------------------
(* m.mu is free; m.instance is not nil. *)
Free(p) == op[p].step = "idle"
Initialized(p) == instance[p] # NoCopy

Call(p, call, step, c) ==
    op' = [op EXCEPT ![p] = [call |-> call, step |-> step, c |-> c]]
Goto(p, step, c) == Call(p, op[p].call, step, c)
Return(p) == op' = [op EXCEPT ![p] = NoCall]

Disturb == disturbed < MaxDisturbances /\ disturbed' = disturbed + 1

(* A command fails, or it does not. *)
Fail == Disturb /\ failures' = failures + 1
NoFailure == UNCHANGED <<disturbed, failures>>

(* setCurrentConfigLocked. *)
SetCurrentConfig(p, c) ==
    /\ instance' = [instance EXCEPT ![p] = c]
    /\ dirty' = [dirty EXCEPT ![p] = FALSE]

(* The end of loadOrCreateLocked: Init goes on to subscribe. *)
Loaded(p) ==
    IF op[p].call = "Init" THEN Goto(p, "subscribe", NoCopy) ELSE Return(p)

(* m.epoch = uuid.New().String() *)
NewEpoch(p) ==
    /\ born' = Append(born, gen)
    /\ mEpoch' = [mEpoch EXCEPT ![p] = Len(born) + 1]

(* createDefaultsLocked up to its first command. *)
CreateDefaults(p) ==
    /\ NewEpoch(p)
    /\ Goto(p, "script", NoCopy)
    /\ UNCHANGED <<instance, dirty>>

ManagerInit(p) ==
    /\ Free(p)
    /\ ~Initialized(p)
    /\ Call(p, "Init", "load", NoCopy)
    /\ UNCHANGED <<redis, born, instance, mEpoch, subscribed, reloads,
                   application, bus, bounds, told>>

(* Reload called by the application. *)
Reload(p) ==
    /\ Disturb
    /\ Free(p)
    /\ Initialized(p)
    /\ Call(p, "Reload", "load", NoCopy)
    /\ UNCHANGED <<redis, born, instance, mEpoch, subscribed, reloads,
                   application, bus, saves, failures, told>>

(* Reload called by the event handler, on a goroutine of its own. *)
ReloadGoroutine(p) ==
    /\ Free(p)
    /\ reloads[p] > 0
    /\ reloads' = [reloads EXCEPT ![p] = @ - 1]
    /\ IF Initialized(p) THEN Call(p, "Reload", "load", NoCopy)
                         ELSE UNCHANGED op
    /\ UNCHANGED <<redis, born, instance, mEpoch, subscribed, application,
                   bus, bounds, told>>

(* LoadHash in loadOrCreateLocked.  An error counts as a missing record, as
   does a hash without data. *)
Load(p) ==
    /\ op[p].step = "load"
    /\ \/ /\ record.version # 0
          /\ epoch # NoEpoch
          /\ mEpoch' = [mEpoch EXCEPT ![p] = epoch]
          /\ SetCurrentConfig(p, [data |-> record.data, gen |-> gen,
                                  version |-> record.version])
          /\ Loaded(p)
          /\ UNCHANGED born /\ NoFailure
       \/ /\ record.version # 0
          /\ epoch = NoEpoch
          /\ NewEpoch(p)
          /\ Goto(p, "adopt", [data |-> record.data, gen |-> gen,
                               version |-> record.version])
          /\ UNCHANGED <<instance, dirty>>
          /\ NoFailure
       \/ record.version = 0 /\ CreateDefaults(p) /\ NoFailure
       \/ record.version # 0 /\ Fail /\ CreateDefaults(p)
    /\ UNCHANGED <<redis, subscribed, reloads, draft, bus, saves, told>>

(* HSET of an epoch for a record that was found without one. *)
AdoptEpoch(p) ==
    /\ op[p].step = "adopt"
    /\ \/ /\ epoch' = mEpoch[p]
          /\ SetCurrentConfig(p, op[p].c)
          /\ Loaded(p)
          /\ NoFailure
       \/ Fail /\ Return(p) /\ UNCHANGED <<epoch, instance, dirty>>
    /\ UNCHANGED <<record, gen, born, mEpoch, subscribed, reloads, draft, bus,
                   saves, told>>

(* subscribeToUpdatesLocked. *)
Subscribe(p) ==
    /\ op[p].step = "subscribe"
    /\ subscribed' = [subscribed EXCEPT ![p] = TRUE]
    /\ told' = [told EXCEPT ![p] = 0]
    /\ Return(p)
    /\ UNCHANGED <<redis, born, instance, mEpoch, reloads, application, bus,
                   bounds>>

(* Get(), and the application edits what it got: the live object. *)
Edit(p, d) ==
    /\ p \in Editors
    /\ Free(p)
    /\ Initialized(p)
    /\ draft[p] = NoCopy
    /\ d # instance[p].data
    /\ saves < MaxSaves
    /\ saves' = saves + 1
    /\ draft' = [draft EXCEPT ![p] = [instance[p] EXCEPT !.data = d]]
    /\ dirty' = [dirty EXCEPT ![p] = TRUE]
    /\ instance' = [instance EXCEPT ![p].data = d]
    /\ UNCHANGED <<redis, born, mEpoch, subscribed, op, reloads, bus, disturbed,
                   failures, told>>

(* Save of the draft. *)
Save(p) ==
    /\ Free(p)
    /\ Initialized(p)
    /\ draft[p] # NoCopy
    /\ Call(p, "Save", "script", draft[p])
    /\ draft' = [draft EXCEPT ![p] = NoCopy]
    /\ UNCHANGED <<redis, born, instance, mEpoch, subscribed, reloads, dirty,
                   bus, bounds, told>>

(* Reset saves the defaults over whatever is there: it has read nothing. *)
Reset(p) ==
    /\ Free(p)
    /\ Initialized(p)
    /\ saves < MaxSaves
    /\ saves' = saves + 1
    /\ Call(p, "Save", "script", [instance[p] EXCEPT !.data = Default])
    /\ UNCHANGED <<redis, born, instance, mEpoch, subscribed, reloads,
                   application, bus, disturbed, failures, told>>

(* The version Save and createDefaultsLocked hand to the script. *)
ExpectedVersion(p) == IF op[p].call = "Save" THEN instance[p].version ELSE 0

(* Mutant of NewVersion: the version is not incremented. *)
SameVersion(old) == IF old = 0 THEN 1 ELSE old

NewVersion(old) == IF old = 0 THEN 1 ELSE old + 1

(* saveLocked, save-config.lua.  The script may run and its reply be lost:
   the call fails although the record changed. *)
SaveScript(p) ==
    /\ op[p].step = "script"
    /\ LET old == record.version
           new == NewVersion(old)
           c == [data |-> op[p].c.data, version |-> new, gen |-> gen]
       IN  \/ /\ old = 0 \/ old = ExpectedVersion(p)
              /\ record' = [data |-> c.data, version |-> new]
              /\ \/ Goto(p, "hset", c) /\ NoFailure
                 \/ Fail /\ Return(p)
           \/ /\ old # 0
              /\ old # ExpectedVersion(p)
              /\ Return(p)
              /\ UNCHANGED record
              /\ NoFailure
    /\ UNCHANGED <<epoch, gen, born, instance, mEpoch, subscribed, reloads,
                   application, bus, saves, told>>

(* persistLocked after the script: HSET of the epoch, in a hash that may be
   gone by now. *)
PersistEpoch(p) ==
    /\ op[p].step = "hset"
    /\ \/ /\ epoch' = mEpoch[p]
          /\ SetCurrentConfig(p, op[p].c)
          /\ IF op[p].call = "Save" THEN Goto(p, "publish", op[p].c)
                                    ELSE Loaded(p)
          /\ NoFailure
       \/ Fail /\ Return(p) /\ UNCHANGED <<epoch, instance, dirty>>
    /\ UNCHANGED <<record, gen, born, mEpoch, subscribed, reloads, draft, bus,
                   saves, told>>

(* PublishUpdated and EventBus.Publish: an error is logged. *)
PublishUpdated(p) ==
    /\ op[p].step = "publish"
    /\ Return(p)
    /\ LET e == [c |-> op[p].c, epoch |-> mEpoch[p]] IN
       \/ /\ wire' = [q \in Processes |->
                        IF subscribed[q] THEN Append(wire[q], e) ELSE wire[q]]
          /\ told' = [q \in Processes |->
                        IF subscribed[q] /\ op[p].c.version > told[q]
                        THEN op[p].c.version ELSE told[q]]
          /\ NoFailure
       \/ Fail /\ UNCHANGED <<wire, told>>
    /\ UNCHANGED <<redis, born, instance, mEpoch, subscribed, reloads,
                   application, handling, saves>>

(* EventBus.dispatch copies the handlers of the channel and calls them. *)
Dispatch(p) ==
    /\ wire[p] # <<>>
    /\ handling[p] = NoEvent
    /\ wire' = [wire EXCEPT ![p] = Tail(@)]
    /\ handling' = [handling EXCEPT ![p] =
                      IF subscribed[p] THEN Head(wire[p]) ELSE NoEvent]
    /\ UNCHANGED <<redis, born, manager, application, bounds, told>>

(* Mutants of HandleUpdated: the epoch is not looked at, or the version. *)
HandleUpdatedAnyEpoch(p) ==
    /\ handling[p] # NoEvent
    /\ Free(p)
    /\ handling' = [handling EXCEPT ![p] = NoEvent]
    /\ IF Initialized(p) /\ handling[p].c.version > instance[p].version
       THEN SetCurrentConfig(p, handling[p].c)
       ELSE UNCHANGED <<instance, dirty>>
    /\ UNCHANGED <<redis, born, mEpoch, subscribed, op, reloads, draft, wire,
                   bounds, told>>

HandleUpdatedDropMismatch(p) ==
    /\ handling[p] # NoEvent
    /\ Free(p)
    /\ handling' = [handling EXCEPT ![p] = NoEvent]
    /\ IF Initialized(p) /\ handling[p].epoch = mEpoch[p]
          /\ handling[p].c.version > instance[p].version
       THEN SetCurrentConfig(p, handling[p].c)
       ELSE UNCHANGED <<instance, dirty>>
    /\ UNCHANGED <<redis, born, mEpoch, subscribed, op, reloads, draft, wire,
                   bounds, told>>

(* The handler of subscribeToUpdatesLocked: an event of another epoch makes
   the process reload, a newer version of its own epoch is taken over. *)
HandleUpdated(p) ==
    /\ handling[p] # NoEvent
    /\ Free(p)
    /\ handling' = [handling EXCEPT ![p] = NoEvent]
    /\ LET e == handling[p]
           mismatch == Initialized(p) /\ e.epoch # mEpoch[p]
       IN  /\ reloads' = IF mismatch THEN [reloads EXCEPT ![p] = @ + 1]
                                     ELSE reloads
           /\ IF Initialized(p) /\ ~mismatch
                 /\ e.c.version > instance[p].version
              THEN SetCurrentConfig(p, e.c)
              ELSE UNCHANGED <<instance, dirty>>
    /\ UNCHANGED <<redis, born, mEpoch, subscribed, op, draft, wire, bounds,
                   told>>

Close(p) ==
    /\ Disturb
    /\ Free(p)
    /\ Initialized(p)
    /\ subscribed' = [subscribed EXCEPT ![p] = FALSE]
    /\ SetCurrentConfig(p, NoCopy)
    /\ UNCHANGED <<redis, born, mEpoch, op, reloads, draft, bus, saves,
                   failures, told>>

(* Somebody flushes Redis. *)
Flush ==
    /\ Disturb
    /\ gen' = gen + 1
    /\ record' = [data |-> Default, version |-> 0]
    /\ epoch' = NoEpoch
    /\ UNCHANGED <<born, manager, application, bus, saves, failures, told>>

(* The commands and the bus listener of p, which go on by themselves. *)
Progress(p) ==
    \/ Load(p) \/ AdoptEpoch(p) \/ Subscribe(p)
    \/ SaveScript(p) \/ PersistEpoch(p) \/ PublishUpdated(p)
    \/ Dispatch(p) \/ HandleUpdated(p) \/ ReloadGoroutine(p)

Next ==
    \/ \E p \in Processes :
        \/ ManagerInit(p) \/ Reload(p) \/ Save(p) \/ Reset(p) \/ Close(p)
        \/ \E d \in Values : Edit(p, d)
        \/ Progress(p)
    \/ Flush

Spec == Init /\ [][Next]_vars
FairSpec == Spec /\ \A p \in Processes : WF_vars(Progress(p))
---------------------------------------------------------------------------
(* All copies of the configuration that somebody may still use: the record,
   the instances without unsaved edits, the events, and what a call is
   about to install. *)
RecordCopy == [data |-> record.data, version |-> record.version, gen |-> gen]
InstanceCopies == {instance[p] : p \in {q \in Processes : ~dirty[q]}}
CallCopies ==
    {op[p].c : p \in {q \in Processes :
                        op[q].step \in {"adopt", "hset", "publish"}}}
EventCopies ==
    {handling[p].c : p \in Processes}
        \cup UNION {{wire[p][i].c : i \in 1..Len(wire[p])} : p \in Processes}
AllCopies == {RecordCopy} \cup InstanceCopies \cup CallCopies \cup EventCopies

(* Since the last flush a version number of the configuration has one
   content: the record, the instances and the events in flight that carry
   the same version say the same, whatever was saved concurrently.  (The
   version check of save-config.lua.) *)
OneContentPerVersion ==
    \A x, y \in AllCopies :
        x.version = y.version /\ x.gen = y.gen => x.data = y.data

(* No process is ahead of Redis: a version of the current generation that a
   process holds or is told of was stored.  (saveLocked runs before
   setCurrentConfigLocked and PublishUpdated.) *)
NobodyIsAhead ==
    \A x \in AllCopies : x.gen = gen => x.version <= record.version

(* A process whose epoch was drawn for the configuration it has never goes
   back to a configuration from before the last flush, however late an event
   arrives: only an epoch that outlived a flush lets one in.  (The epoch test
   of the handler in subscribeToUpdatesLocked.) *)
NoWayBackBeforeFlush ==
    [][\A p \in Processes :
          /\ Initialized(p)
          /\ Initialized(p)'
          /\ instance[p].gen > instance'[p].gen
          => born[mEpoch[p]] < instance[p].gen]_vars

(* Once Close returned, neither an event that was being dispatched nor a
   Reload goroutine brings the configuration of the process back: only Init
   does.  (The m.instance == nil tests.) *)
ClosedUntilInit ==
    [][\A p \in Processes :
          ~Initialized(p) /\ Initialized(p)' => op[p].call = "Init"]_vars

(* An update published while a process is subscribed reaches it: it comes to
   hold that version or a later one, through the event or through the Reload
   that an unknown epoch starts, also if two processes created the record at
   once and drew different epochs.  Without flushes and failures, as long as
   the process stays up. *)
Calm == gen = 0 /\ failures = 0
Lags(p) == subscribed[p] /\ instance[p].version < told[p]
UpdateArrives == \A p \in Processes : []<>~(Calm /\ Lags(p))
===========================================================================
