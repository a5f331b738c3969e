--------------------------- MODULE TopologyProofs ---------------------------
(***************************************************************************)
(* The safety properties of queues, exchanges and routing, for any number  *)
(* of clients, queues, exchanges, keys and patterns, and for keys and      *)
(* patterns of any length.                                                 *)
(*                                                                         *)
(* The invariant has three parts.  OpTyped gives each call its phases and  *)
(* arguments.  Current says what an optimistic transaction may rely on: as *)
(* long as its client is not marked, what it read of the keys it watches   *)
(* is still so.  Routing says how far a producer has got: which queues it  *)
(* has served, which it still will, and by which binding each of them.     *)
(***************************************************************************)
EXTENDS Topology, TLAPS

USE ZenonT(30)

-----------------------------------------------------------------------------
Transactions == {"save", "bind", "unbind", "delete"}

StoreTyped ==
    /\ queues \subseteq Queues
    /\ props \in [Names -> [type : Types \union {None},
                            policy : Policies \union {None}]]
    /\ keys \in [Params -> SUBSET Keys]
    /\ bound \in [Params -> [Keys -> SUBSET Queues]]
    /\ bindings \in [Queues -> SUBSET Params]

\* The phases that a call goes through.
Phased(r) ==
    \/ r = Idle
    \/ r.call \in Transactions /\ r.phase \in {"watch", "exec"}
    \/ r.call = "remove" /\ r.phase \in {"count", "remove"}
    \/ r.call = "namespace" /\ r.phase \in {"queues", "exchanges"}
    \/ r.call = "produce" /\ r.phase \in {"match", "send", "sent"}

\* The fields of a call.
TransactionFields(r) ==
    r = [call |-> r.call, args |-> r.args, phase |-> r.phase, seen |-> r.seen,
         watch |-> r.watch, attempt |-> r.attempt]
RemoveFields(r) ==
    r = [call |-> r.call, p |-> r.p, caller |-> r.caller, todo |-> r.todo,
         watch |-> r.watch, all |-> r.all, phase |-> r.phase]
NamespaceFields(r) ==
    r = [call |-> r.call, phase |-> r.phase, todo |-> r.todo, watch |-> r.watch]
ProduceFields(r) ==
    r = [call |-> r.call, p |-> r.p, m |-> r.m, todo |-> r.todo,
         left |-> r.left, got |-> r.got, phase |-> r.phase, watch |-> r.watch]

Fielded(r) ==
    /\ r.phase = "exec" => TransactionFields(r)
    /\ r.call = "remove" => RemoveFields(r)
    /\ r.call = "namespace" => NamespaceFields(r)
    /\ r.call = "produce" => ProduceFields(r)

\* What the arguments of a transaction are.
Given(call, a) ==
    /\ call = "save" => a.p \in Params /\ a.policy \in Policies
    /\ call \in {"bind", "unbind"} =>
           /\ a.p \in Params /\ a.k \in Keys /\ a.q \in Queues
           /\ a.p[2] = "fanout" => a.k = NoKey
    /\ call = "delete" => a.p \in Params

Supplied(r) ==
    /\ r.call \in Transactions => Given(r.call, r.args)
    /\ r.call = "remove" => r.p \in Params
    /\ r.call = "produce" => r.p \in Params /\ r.m \in Messages

OpTyped ==
    /\ op = [c \in Clients |-> op[c]]
    /\ \A c \in Clients : Phased(op[c]) /\ Fielded(op[c]) /\ Supplied(op[c])

\* What the writes of a transaction rely on, all of it in keys it watches.
Reads(call, a, seen, watch) ==
    /\ call = "save" => KProps(a.p[1]) \in watch /\ ~Exists(a.p[1])
    /\ call = "bind" =>
           /\ KProps(a.p[1]) \in watch
           /\ Exists(a.p[1]) => ValidateType(a.p)
    /\ call = "unbind" =>
           /\ KBound(a.p, a.k) \in watch
           /\ a.q \in bound[a.p][a.k]
           /\ a.k # NoKey => seen.last = (Cardinality(bound[a.p][a.k]) = 1)

\* Unless the client is marked, it is still so.
Current(c) ==
    op[c].phase = "exec" /\ c \notin dirty =>
        Reads(op[c].call, op[c].args, op[c].seen, op[c].watch)

TopologyInv ==
    /\ StoreTyped
    /\ OpTyped
    /\ \A c \in Clients : Current(c)
    /\ KeysExact
    /\ FanoutRecorded

\* What a step may do to the properties of an exchange, ...
Fixing ==
    \A e \in Names :
        props[e] # Absent /\ props'[e] # Absent => props'[e] = props[e]

\* ... and to the queues of a key: it lists the key when it adds a queue.
Listing ==
    \A p \in Params, k \in Keys \ {NoKey} :
        bound'[p][k] \subseteq bound[p][k] \/ k \in keys'[p]

-----------------------------------------------------------------------------
(* Calls and marks.                                                        *)

LEMMA BecomeStep ==
    ASSUME OpTyped, NEW c \in Clients, NEW r, Become(c, r),
           Phased(r), Fielded(r), Supplied(r)
    PROVE  /\ OpTyped'
           /\ op'[c] = r
           /\ \A d \in Clients \ {c} : op'[d] = op[d]
<1>1. /\ op' = [d \in Clients |-> op'[d]] /\ op'[c] = r
      /\ \A d \in Clients \ {c} : op'[d] = op[d]
  BY SMTT(30) DEF OpTyped, Become
<1>2. ASSUME NEW d \in Clients
      PROVE  Phased(op'[d]) /\ Fielded(op'[d]) /\ Supplied(op'[d])
  <2>1. CASE d = c
    BY <1>1, <2>1
  <2>2. CASE d # c
    BY <1>1, <2>2 DEF OpTyped
  <2> QED BY <2>1, <2>2
<1>3. OpTyped'
  <2>1. (\A d \in Clients : Phased(op[d]) /\ Fielded(op[d]) /\ Supplied(op[d]))'
    BY <1>2
  <2> QED BY <1>1, <2>1 DEF OpTyped
<1> QED BY <1>1, <1>3

LEMMA IdleCall == Phased(Idle) /\ Fielded(Idle) /\ Supplied(Idle)
<1>1. Idle.call = "idle" /\ Idle.phase = "idle"
  BY DEF Idle
<1> QED BY <1>1, SMTT(30) DEF Phased, Fielded, Supplied, Transactions

(* A client that stays unmarked watches nothing that the step changed.     *)
LEMMA Unmarked ==
    ASSUME NEW rewritten, Signal(rewritten), NEW d \in Clients,
           op'[d] = op[d], d \notin dirty'
    PROVE  /\ d \notin dirty
           /\ \A e \in Names : KProps(e) \in op[d].watch => props'[e] = props[e]
           /\ \A p \in Params, k \in Keys :
                  KBound(p, k) \in op[d].watch => bound'[p][k] = bound[p][k]
<1>1. d \notin dirty /\ op[d].watch \intersect Modified = {}
  BY DEF Signal
<1>2. ASSUME NEW e \in Names, props'[e] # props[e] PROVE KProps(e) \in Modified
  BY <1>2 DEF Modified
<1>3. ASSUME NEW p \in Params, NEW k \in Keys, bound'[p][k] # bound[p][k]
      PROVE  KBound(p, k) \in Modified
  <2>1. <<p, k>> \in Params \X Keys /\ <<p, k>>[1] = p /\ <<p, k>>[2] = k
    BY SMTT(30)
  <2> DEFINE pk == <<p, k>>
  <2>2. KBound(p, k) = KBound(pk[1], pk[2]) /\ pk \in Params \X Keys
        /\ bound'[pk[1]][pk[2]] # bound[pk[1]][pk[2]]
    BY <1>3, <2>1
  <2> HIDE DEF pk
  <2> QED BY <2>2 DEF Modified
<1> QED BY <1>1, <1>2, <1>3

(* Its transaction may go on relying on what it read.                      *)
LEMMA CurrentStays ==
    ASSUME OpTyped, NEW rewritten, Signal(rewritten), NEW d \in Clients,
           op'[d] = op[d], Current(d)
    PROVE  Current(d)'
<1> SUFFICES ASSUME op[d].phase = "exec", d \notin dirty'
             PROVE  Reads(op[d].call, op[d].args, op[d].seen, op[d].watch)'
  BY DEF Current
<1> DEFINE a == op[d].args
<1>1. /\ d \notin dirty
      /\ \A e \in Names : KProps(e) \in op[d].watch => props'[e] = props[e]
      /\ \A p \in Params, k \in Keys :
             KBound(p, k) \in op[d].watch => bound'[p][k] = bound[p][k]
  BY Unmarked
<1>2. Reads(op[d].call, a, op[d].seen, op[d].watch)
  BY <1>1 DEF Current
<1>3. op[d].call \in Transactions /\ Given(op[d].call, a)
  <2>1. Phased(op[d]) /\ Supplied(op[d])
    BY DEF OpTyped
  <2>2. op[d].call \in Transactions
    BY <2>1, SMTT(30) DEF Phased, Idle
  <2> QED BY <2>1, <2>2 DEF Supplied
<1>4. CASE op[d].call = "save"
  <2>1. a.p[1] \in Names
    BY <1>3, <1>4, SMTT(30) DEF Given, Params
  <2>2. props'[a.p[1]] = props[a.p[1]]
    BY <1>1, <1>2, <1>4, <2>1 DEF Reads
  <2> QED BY <1>2, <1>4, <2>2 DEF Reads, Exists
<1>5. CASE op[d].call = "bind"
  <2>1. a.p[1] \in Names
    BY <1>3, <1>5, SMTT(30) DEF Given, Params
  <2>2. props'[a.p[1]] = props[a.p[1]]
    BY <1>1, <1>2, <1>5, <2>1 DEF Reads
  <2> QED BY <1>2, <1>5, <2>2 DEF Reads, Exists, ValidateType
<1>6. CASE op[d].call = "unbind"
  <2>1. bound'[a.p][a.k] = bound[a.p][a.k]
    BY <1>1, <1>2, <1>3, <1>6 DEF Reads, Given
  <2> QED BY <1>2, <1>6, <2>1 DEF Reads
<1>7. CASE op[d].call = "delete"
  BY <1>7 DEF Reads
<1> QED BY <1>3, <1>4, <1>5, <1>6, <1>7 DEF Transactions

(* A client goes on to a record that is not a transaction to be executed.  *)
LEMMA CallStep ==
    ASSUME TopologyInv, NEW c \in Clients, NEW r, NEW rewritten,
           Become(c, r), Signal(rewritten),
           Phased(r), Fielded(r), Supplied(r), r.phase # "exec"
    PROVE  OpTyped' /\ \A d \in Clients : Current(d)'
<1>1. /\ OpTyped' /\ op'[c] = r
      /\ \A d \in Clients \ {c} : op'[d] = op[d]
  BY BecomeStep DEF TopologyInv
<1>2. Current(c)'
  BY <1>1 DEF Current
<1>3. ASSUME NEW d \in Clients \ {c} PROVE Current(d)'
  BY <1>1, CurrentStays DEF TopologyInv
<1> QED BY <1>1, <1>2, <1>3

(* A step of somebody who is in no call.                                   *)
LEMMA NoCallStep ==
    ASSUME TopologyInv, UNCHANGED op, Signal({})
    PROVE  OpTyped' /\ \A d \in Clients : Current(d)'
<1>1. OpTyped'
  BY DEF TopologyInv, OpTyped
<1>2. ASSUME NEW d \in Clients PROVE Current(d)'
  BY CurrentStays DEF TopologyInv
<1> QED BY <1>1, <1>2

(* A step that leaves the store alone.                                     *)
LEMMA StoreStays ==
    ASSUME TopologyInv, UNCHANGED <<store, lost>>
    PROVE  StoreTyped' /\ KeysExact' /\ FanoutRecorded' /\ Fixing /\ Listing
<1> USE DEF TopologyInv, store
<1>1. StoreTyped'
  BY DEF StoreTyped
<1>2. KeysExact'
  BY DEF KeysExact
<1>3. FanoutRecorded'
  BY DEF FanoutRecorded
<1> QED BY <1>1, <1>2, <1>3 DEF Fixing, Listing

(* A transaction begins, or begins again, with arguments of its kind, and  *)
(* only if what it read allows the writes.                                 *)
LEMMA TransactionStep ==
    ASSUME TopologyInv, NEW c \in Clients, NEW call \in Transactions,
           NEW args, NEW allowed, NEW seen, NEW watch,
           Transaction(c, call, args, allowed, seen, watch),
           Given(call, args), allowed => Reads(call, args, seen, watch)
    PROVE  TopologyInv' /\ Fixing /\ Listing
<1>1. StoreTyped' /\ KeysExact' /\ FanoutRecorded' /\ Fixing /\ Listing
  BY StoreStays DEF Transaction
<1>2. CASE allowed
  <2> DEFINE r == [call |-> call, args |-> args, phase |-> "exec",
                   seen |-> seen, watch |-> watch,
                   attempt |-> IF op[c] = Idle THEN 1 ELSE op[c].attempt]
  <2>1. Become(c, r) /\ Signal({}) /\ UNCHANGED store
    BY <1>2 DEF Transaction
  <2>2. /\ r.call = call /\ r.args = args /\ r.phase = "exec"
        /\ r.seen = seen /\ r.watch = watch
        /\ TransactionFields(r)
    BY DEF TransactionFields
  <2> HIDE DEF r
  <2>3. Phased(r) /\ Fielded(r) /\ Supplied(r)
    BY <2>2, SMTT(30) DEF Phased, Fielded, Supplied, Transactions
  <2>4. /\ OpTyped' /\ op'[c] = r
        /\ \A d \in Clients \ {c} : op'[d] = op[d]
    BY <2>1, <2>3, BecomeStep DEF TopologyInv
  <2>5. Current(c)'
    BY <1>2, <2>1, <2>2, <2>4
       DEF Current, Reads, Exists, ValidateType, store
  <2>6. ASSUME NEW d \in Clients \ {c} PROVE Current(d)'
    BY <2>1, <2>4, CurrentStays DEF TopologyInv
  <2> QED BY <1>1, <2>4, <2>5, <2>6 DEF TopologyInv
<1>3. CASE ~allowed
  <2>1. Become(c, Idle) /\ Signal({})
    BY <1>3 DEF Transaction, Return
  <2>2. Idle.phase # "exec"
    BY DEF Idle
  <2>3. OpTyped' /\ \A d \in Clients : Current(d)'
    BY <2>1, <2>2, IdleCall, CallStep
  <2> QED BY <1>1, <2>3 DEF TopologyInv
<1> QED BY <1>2, <1>3

-----------------------------------------------------------------------------
(* The steps of the calls, one after the other.                            *)

Goal == TopologyInv' /\ Fixing /\ Listing

LEMMA BindStarts ==
    ASSUME TopologyInv, NEW c \in Clients, NEW p \in Params, NEW k \in Keys,
           NEW q \in Queues, NEW watch, p[2] = "fanout" => k = NoKey,
           KProps(p[1]) \in watch,
           Transaction(c, "bind", BindArgs(p, k, q), Bindable(p, k, q), None,
                       watch)
    PROVE  Goal
<1> DEFINE a == BindArgs(p, k, q)
<1>1. a.p = p /\ a.k = k /\ a.q = q
  BY DEF BindArgs
<1>2. Given("bind", a)
  BY <1>1 DEF Given
<1>3. Bindable(p, k, q) => Reads("bind", a, None, watch)
  BY <1>1 DEF Bindable, ValidateQueueBinding, Reads
<1>4. "bind" \in Transactions
  BY DEF Transactions
<1> HIDE DEF a
<1>5. Transaction(c, "bind", a, Bindable(p, k, q), None, watch)
  BY DEF a
<1> QED BY <1>2, <1>3, <1>4, <1>5, TransactionStep DEF Goal

LEMMA UnbindStarts ==
    ASSUME TopologyInv, NEW c \in Clients, NEW p \in Params, NEW k \in Keys,
           NEW q \in Queues, NEW seen, NEW watch,
           p[2] = "fanout" => k = NoKey, KBound(p, k) \in watch,
           k = NoKey \/ seen = UnbindReads(p, k, q),
           Transaction(c, "unbind", BindArgs(p, k, q), Unbindable(p, k, q),
                       seen, watch)
    PROVE  Goal
<1> DEFINE a == BindArgs(p, k, q)
<1>1. a.p = p /\ a.k = k /\ a.q = q
  BY DEF BindArgs
<1>2. Given("unbind", a)
  BY <1>1 DEF Given
<1>3. k # NoKey => seen.last = (Cardinality(bound[p][k]) = 1)
  <2>1. UnbindReads(p, k, q).last = (Cardinality(bound[p][k]) = 1)
    BY DEF UnbindReads
  <2> QED BY <2>1
<1>4. Unbindable(p, k, q) => Reads("unbind", a, seen, watch)
  BY <1>1, <1>3 DEF Unbindable, Reads
<1>5. "unbind" \in Transactions
  BY DEF Transactions
<1> HIDE DEF a
<1>6. Transaction(c, "unbind", a, Unbindable(p, k, q), seen, watch)
  BY DEF a
<1> QED BY <1>2, <1>4, <1>5, <1>6, TransactionStep DEF Goal

LEMMA DeleteStarts ==
    ASSUME TopologyInv, NEW c \in Clients, NEW p \in Params, NEW all,
           Delete(c, p, all)
    PROVE  Goal
<1> DEFINE a == [p |-> p, all |-> all]
<1> DEFINE allowed == ValidateType(p) /\ \A k \in all : bound[p][k] = {}
<1> DEFINE watch == {KKeys(p), KAll} \union {KBound(p, k) : k \in all}
<1>1. "delete" \in Transactions /\ Given("delete", a)
      /\ Reads("delete", a, None, watch)
  BY DEF Transactions, Given, Reads
<1>2. Transaction(c, "delete", a, allowed, None, watch)
  BY DEF Delete
<1> HIDE DEF a, allowed, watch
<1> QED BY <1>1, <1>2, TransactionStep DEF Goal

LEMMA SaveStarts ==
    ASSUME TopologyInv, NEW c \in Clients, NEW p \in Params,
           NEW policy \in Policies, Save(c, p, policy)
    PROVE  Goal
<1> DEFINE a == [p |-> p, policy |-> policy]
<1> DEFINE watch == {KProps(p[1]), KAll}
<1>1. "save" \in Transactions /\ Given("save", a)
      /\ (~Exists(p[1]) => Reads("save", a, None, watch))
  BY DEF Transactions, Given, Reads
<1>2. Transaction(c, "save", a, ~Exists(p[1]), None, watch)
  BY DEF Save
<1> HIDE DEF a, watch
<1> QED BY <1>1, <1>2, TransactionStep DEF Goal

(* A step that changes nothing but the call of its client.                 *)
LEMMA CallOnly ==
    ASSUME TopologyInv, NEW c \in Clients, NEW r, Become(c, r), Signal({}),
           UNCHANGED <<store, lost>>,
           Phased(r), Fielded(r), Supplied(r), r.phase # "exec"
    PROVE  Goal
BY CallStep, StoreStays DEF Goal, TopologyInv

LEMMA ReturnOnly ==
    ASSUME TopologyInv, NEW c \in Clients, Return(c), Signal({}),
           UNCHANGED <<store, lost>>
    PROVE  Goal
<1>1. Idle.phase # "exec"
  BY DEF Idle
<1> QED BY <1>1, IdleCall, CallOnly DEF Return

LEMMA ListsStep ==
    ASSUME TopologyInv, NEW c \in Clients, NEW p \in Params, Lists(c, p)
    PROVE  Goal
<1> DEFINE r == [call |-> "delete", args |-> [p |-> p, all |-> keys[p]],
                 phase |-> "watch", watch |-> {}, attempt |-> 1]
<1>1. r.call = "delete" /\ r.args.p = p /\ r.phase = "watch"
  OBVIOUS
<1>2. Become(c, r) /\ Signal({}) /\ UNCHANGED <<store, lost>>
  BY DEF Lists
<1> HIDE DEF r
<1>3. Phased(r) /\ Fielded(r) /\ Supplied(r)
  BY <1>1, SMTT(30) DEF Phased, Fielded, Supplied, Given, Transactions
<1> QED BY <1>1, <1>2, <1>3, CallOnly

LEMMA ConflictStep ==
    ASSUME TopologyInv, NEW c \in Clients, Conflict(c)
    PROVE  Goal
<1>1. CASE op[c].attempt = MaxAttempts
  BY <1>1, ReturnOnly DEF Conflict
<1>2. CASE op[c].attempt # MaxAttempts
  <2> DEFINE r == [op[c] EXCEPT !.phase = "watch", !.watch = {},
                                !.attempt = @ + 1]
  <2>1. Become(c, r) /\ Signal({}) /\ UNCHANGED <<store, lost>>
        /\ op[c].phase = "exec"
    BY <1>2 DEF Conflict
  <2>2. Phased(op[c]) /\ Fielded(op[c]) /\ Supplied(op[c])
    BY DEF TopologyInv, OpTyped
  <2>3. op[c].call \in Transactions
    BY <2>1, <2>2, SMTT(30) DEF Phased, Idle
  <2>4. r.call = op[c].call /\ r.args = op[c].args /\ r.phase = "watch"
    BY <2>1, <2>2, SMTT(30) DEF Fielded, TransactionFields
  <2> HIDE DEF r
  <2>5. Phased(r) /\ Fielded(r) /\ Supplied(r)
    BY <2>2, <2>3, <2>4, SMTT(30) DEF Phased, Fielded, Supplied, Transactions
  <2> QED BY <2>1, <2>4, <2>5, CallOnly
<1> QED BY <1>1, <1>2

LEMMA DelistingCall ==
    ASSUME NEW p \in Params, NEW caller, NEW todo
    PROVE  LET r == Delisting(p, caller, todo) IN
           Phased(r) /\ Fielded(r) /\ Supplied(r) /\ r.phase # "exec"
<1> DEFINE r == Delisting(p, caller, todo)
<1>1. r.call = "remove" /\ r.phase = "count" /\ r.p = p
      /\ RemoveFields(r)
  BY DEF Delisting, RemoveFields
<1> HIDE DEF r
<1>2. Phased(r) /\ Fielded(r) /\ Supplied(r) /\ r.phase # "exec"
  BY <1>1, SMTT(30) DEF Phased, Fielded, Supplied, Transactions
<1> QED BY <1>2 DEF r

LEMMA RemoveCountStep ==
    ASSUME TopologyInv, NEW c \in Clients, RemoveCount(c)
    PROVE  Goal
<1>1. CASE \E k \in op[c].all : bound[op[c].p][k] # {}
  BY <1>1, ReturnOnly DEF RemoveCount
<1>2. CASE ~(\E k \in op[c].all : bound[op[c].p][k] # {})
  <2> DEFINE r == [op[c] EXCEPT !.phase = "remove"]
  <2>1. Become(c, r) /\ Signal({}) /\ UNCHANGED <<store, lost>>
        /\ op[c].call = "remove"
    BY <1>2 DEF RemoveCount
  <2>2. Fielded(op[c]) /\ Supplied(op[c])
    BY DEF TopologyInv, OpTyped
  <2>3. r.call = "remove" /\ r.p = op[c].p /\ r.phase = "remove"
        /\ RemoveFields(r)
    BY <2>1, <2>2, SMTT(30) DEF Fielded, RemoveFields
  <2> HIDE DEF r
  <2>4. Phased(r) /\ Fielded(r) /\ Supplied(r)
    BY <2>1, <2>2, <2>3, SMTT(30) DEF Phased, Fielded, Supplied, Transactions
  <2> QED BY <2>1, <2>3, <2>4, CallOnly
<1> QED BY <1>1, <1>2

LEMMA NamespaceCall ==
    ASSUME NEW r, r.call = "namespace", r.phase \in {"queues", "exchanges"},
           NamespaceFields(r)
    PROVE  Phased(r) /\ Fielded(r) /\ Supplied(r) /\ r.phase # "exec"
BY SMTT(30) DEF Phased, Fielded, Supplied, Transactions

LEMMA NamespaceOp ==
    ASSUME OpTyped, NEW c \in Clients, op[c].phase \in {"queues", "exchanges"}
    PROVE  /\ op[c].call = "namespace"
           /\ NamespaceFields(op[c])
<1>1. Phased(op[c]) /\ Fielded(op[c])
  BY DEF OpTyped
<1>2. op[c].call = "namespace"
  BY <1>1, SMTT(30) DEF Phased, Idle
<1> QED BY <1>1, <1>2 DEF Fielded

LEMMA NamespaceDeleteStep ==
    ASSUME TopologyInv, NEW c \in Clients, NamespaceDelete(c)
    PROVE  Goal
<1> DEFINE r == [call |-> "namespace", phase |-> "queues", todo |-> queues,
                 watch |-> {}]
<1>1. Become(c, r) /\ Signal({}) /\ UNCHANGED <<store, lost>>
  BY DEF NamespaceDelete
<1>2. Phased(r) /\ Fielded(r) /\ Supplied(r) /\ r.phase # "exec"
  BY NamespaceCall DEF NamespaceFields
<1> HIDE DEF r
<1> QED BY <1>1, <1>2, CallOnly

LEMMA NamespaceRecord ==
    ASSUME NEW o, NamespaceFields(o), NEW phase, NEW todo
    PROVE  [o EXCEPT !.phase = phase, !.todo = todo]
               = [call |-> o.call, phase |-> phase, todo |-> todo,
                  watch |-> o.watch]
<1> DEFINE n == o.call
           s == o.phase
           t == o.todo
           w == o.watch
<1>1. o = [call |-> n, phase |-> s, todo |-> t, watch |-> w]
  BY DEF NamespaceFields
<1> HIDE DEF n, s, t, w
<1>2. [o EXCEPT !.phase = phase]
          = [call |-> n, phase |-> phase, todo |-> t, watch |-> w]
  BY <1>1, SMTT(30)
<1>3. [[call |-> n, phase |-> phase, todo |-> t, watch |-> w] EXCEPT !.todo = todo]
          = [call |-> n, phase |-> phase, todo |-> todo, watch |-> w]
  BY SMTT(30)
<1> QED BY <1>2, <1>3 DEF n, w

LEMMA NamespaceExchangesStep ==
    ASSUME TopologyInv, NEW c \in Clients, NamespaceExchanges(c)
    PROVE  Goal
<1> DEFINE r == [op[c] EXCEPT !.phase = "exchanges", !.todo = listed]
<1>1. Become(c, r) /\ Signal({}) /\ UNCHANGED <<store, lost>>
      /\ op[c].phase = "queues"
  BY DEF NamespaceExchanges
<1>2. op[c].call = "namespace" /\ NamespaceFields(op[c])
  BY <1>1, NamespaceOp DEF TopologyInv
<1>3. r = [call |-> op[c].call, phase |-> "exchanges", todo |-> listed,
           watch |-> op[c].watch]
  BY <1>2, NamespaceRecord
<1> HIDE DEF r
<1>4. r.call = "namespace" /\ r.phase = "exchanges"
      /\ NamespaceFields(r)
  BY <1>2, <1>3 DEF NamespaceFields
<1> QED BY <1>1, <1>4, NamespaceCall, CallOnly

LEMMA NamespaceExchangeStep ==
    ASSUME TopologyInv, NEW c \in Clients, NEW p \in Params,
           NamespaceExchange(c, p)
    PROVE  Goal
<1>1. CASE Exists(p[1])
  <2> DEFINE r == Delisting(p, "namespace", op[c].todo)
  <2>1. Become(c, r) /\ Signal({}) /\ UNCHANGED <<store, lost>>
    BY <1>1 DEF NamespaceExchange
  <2>2. Phased(r) /\ Fielded(r) /\ Supplied(r) /\ r.phase # "exec"
    BY DelistingCall
  <2> HIDE DEF r
  <2> QED BY <2>1, <2>2, CallOnly
<1>2. CASE ~Exists(p[1])
  BY <1>2, ReturnOnly DEF NamespaceExchange
<1> QED BY <1>1, <1>2

LEMMA ManagerDeleteStep ==
    ASSUME TopologyInv, NEW c \in Clients, NEW p \in Params,
           ManagerDelete(c, p)
    PROVE  Goal
<1> DEFINE r == Delisting(p, "user", {})
<1>1. Become(c, r) /\ Signal({}) /\ UNCHANGED <<store, lost>>
  BY DEF ManagerDelete
<1>2. Phased(r) /\ Fielded(r) /\ Supplied(r) /\ r.phase # "exec"
  BY DelistingCall
<1> HIDE DEF r
<1> QED BY <1>1, <1>2, CallOnly

LEMMA ProducingCall ==
    ASSUME NEW r, r.call = "produce", r.phase \in {"match", "send", "sent"},
           r.p \in Params, r.m \in Messages,
           ProduceFields(r)
    PROVE  Phased(r) /\ Fielded(r) /\ Supplied(r) /\ r.phase # "exec"
BY SMTT(30) DEF Phased, Fielded, Supplied, Transactions

LEMMA ProducingOp ==
    ASSUME OpTyped, NEW c \in Clients,
           op[c].phase \in {"match", "send", "sent"} \/ op[c].call = "produce"
    PROVE  /\ op[c].call = "produce"
           /\ op[c].phase \in {"match", "send", "sent"}
           /\ op[c].p \in Params /\ op[c].m \in Messages
           /\ ProduceFields(op[c])
<1>1. Phased(op[c]) /\ Fielded(op[c]) /\ Supplied(op[c])
  BY DEF OpTyped
<1>2. op[c].call = "produce" /\ op[c].phase \in {"match", "send", "sent"}
  BY <1>1, SMTT(30) DEF Phased, Idle, Transactions
<1> QED BY <1>1, <1>2 DEF Fielded, Supplied

LEMMA ProducesStep ==
    ASSUME TopologyInv, NEW c \in Clients, NEW p \in Params,
           NEW m \in Messages, NEW todo, NEW matched,
           NEW phase \in {"match", "send"},
           Produces(c, p, Producing(p, m, todo, matched, phase))
    PROVE  Goal
<1> DEFINE r == Producing(p, m, todo, matched, phase)
<1>1. Become(c, r) /\ Signal({}) /\ UNCHANGED <<store, lost>>
  BY DEF Produces
<1>2. r.call = "produce" /\ r.phase = phase /\ r.p = p /\ r.m = m
      /\ ProduceFields(r)
  BY DEF Producing, ProduceFields
<1> HIDE DEF r
<1>3. Phased(r) /\ Fielded(r) /\ Supplied(r) /\ r.phase # "exec"
  BY <1>2, ProducingCall
<1> QED BY <1>1, <1>3, CallOnly

\* The record of a producer, and what becomes of it.
ProduceRecord(p, m, watch, todo, left, got, phase) ==
    [call |-> "produce", p |-> p, m |-> m, todo |-> todo, left |-> left,
     got |-> got, phase |-> phase, watch |-> watch]
Onward(o, todo, left, got, phase) ==
    ProduceRecord(o.p, o.m, o.watch, todo, left, got, phase)
Matched(o, todo, left, phase) ==
    [o EXCEPT !.todo = todo, !.left = left, !.phase = phase]
Sent(o, left, got, phase) ==
    [o EXCEPT !.left = left, !.got = got, !.phase = phase]

\* One field of it at a time.
WithTodo(o, todo) == [o EXCEPT !.todo = todo]
WithLeft(o, left) == [o EXCEPT !.left = left]
WithGot(o, got) == [o EXCEPT !.got = got]
WithPhase(o, phase) == [o EXCEPT !.phase = phase]

LEMMA FieldByField ==
    ASSUME NEW p, NEW m, NEW w, NEW u, NEW v, NEW x, NEW y, NEW z
    PROVE  /\ WithTodo(ProduceRecord(p, m, w, u, v, x, y), z)
                  = ProduceRecord(p, m, w, z, v, x, y)
           /\ WithLeft(ProduceRecord(p, m, w, u, v, x, y), z)
                  = ProduceRecord(p, m, w, u, z, x, y)
           /\ WithGot(ProduceRecord(p, m, w, u, v, x, y), z)
                  = ProduceRecord(p, m, w, u, v, z, y)
           /\ WithPhase(ProduceRecord(p, m, w, u, v, x, y), z)
                  = ProduceRecord(p, m, w, u, v, x, z)
BY SMTT(30) DEF WithTodo, WithLeft, WithGot, WithPhase, ProduceRecord

LEMMA OnwardRecord ==
    ASSUME NEW o, o.call = "produce", ProduceFields(o)
    PROVE  /\ \A todo, left, phase :
                  Matched(o, todo, left, phase) = Onward(o, todo, left, o.got, phase)
           /\ \A left, got, phase :
                  Sent(o, left, got, phase) = Onward(o, o.todo, left, got, phase)
<1> SUFFICES ASSUME NEW todo, NEW left, NEW got, NEW phase
             PROVE  /\ Matched(o, todo, left, phase)
                           = Onward(o, todo, left, o.got, phase)
                    /\ Sent(o, left, got, phase)
                           = Onward(o, o.todo, left, got, phase)
  BY SMTT(30)
<1>1. o = ProduceRecord(o.p, o.m, o.watch, o.todo, o.left, o.got, o.phase)
  BY DEF ProduceFields, ProduceRecord
<1>2. /\ Matched(o, todo, left, phase)
             = WithPhase(WithLeft(WithTodo(o, todo), left), phase)
      /\ Sent(o, left, got, phase)
             = WithPhase(WithGot(WithLeft(o, left), got), phase)
  BY DEF Matched, Sent, WithTodo, WithLeft, WithGot, WithPhase
<1> DEFINE p == o.p
           m == o.m
           w == o.watch
           t == o.todo
           l == o.left
           g == o.got
           s == o.phase
<1>3. /\ Onward(o, todo, left, o.got, phase)
             = ProduceRecord(p, m, w, todo, left, g, phase)
      /\ Onward(o, o.todo, left, got, phase)
             = ProduceRecord(p, m, w, t, left, got, phase)
      /\ o = ProduceRecord(p, m, w, t, l, g, s)
  BY <1>1 DEF Onward
<1> HIDE DEF p, m, w, t, l, g, s
<1>4. WithPhase(WithLeft(WithTodo(o, todo), left), phase)
          = ProduceRecord(p, m, w, todo, left, g, phase)
  BY <1>3, FieldByField, SMTT(30)
<1>5. WithPhase(WithGot(WithLeft(o, left), got), phase)
          = ProduceRecord(p, m, w, t, left, got, phase)
  BY <1>3, FieldByField, SMTT(30)
<1> QED BY <1>2, <1>3, <1>4, <1>5

LEMMA OnwardCall ==
    ASSUME OpTyped, NEW c \in Clients, op[c].call = "produce",
           NEW todo, NEW left, NEW got, NEW phase \in {"match", "send", "sent"}
    PROVE  LET r == Onward(op[c], todo, left, got, phase) IN
           Phased(r) /\ Fielded(r) /\ Supplied(r) /\ r.phase # "exec"
<1> DEFINE r == Onward(op[c], todo, left, got, phase)
<1>1. op[c].p \in Params /\ op[c].m \in Messages
  BY ProducingOp
<1>2. r.call = "produce" /\ r.phase = phase /\ r.p = op[c].p /\ r.m = op[c].m
      /\ ProduceFields(r)
  BY DEF Onward, ProduceRecord, ProduceFields
<1> HIDE DEF r
<1>3. Phased(r) /\ Fielded(r) /\ Supplied(r) /\ r.phase # "exec"
  BY <1>1, <1>2, ProducingCall
<1> QED BY <1>3 DEF r

(* The queues of one more pattern: the call fails or goes on.              *)
LEMMA MatchedEffect ==
    ASSUME OpTyped, NEW c \in Clients, NEW k, TopicBoundQueues(c, k)
    PROVE  LET left == Seen(op[c].left, bound[op[c].p][k])
               todo == op[c].todo \ {k}
           IN \/ Return(c)
              \/ /\ todo # {} \/ left # Once({})
                 /\ Become(c, Onward(op[c], todo, left, op[c].got,
                               IF todo = {} THEN "send" ELSE "match"))
<1> DEFINE left == Seen(op[c].left, bound[op[c].p][k])
<1> DEFINE todo == op[c].todo \ {k}
<1> DEFINE next == IF todo = {} THEN "send" ELSE "match"
<1> HIDE DEF left, todo
<1>1. op[c].phase = "match"
  BY DEF TopicBoundQueues
<1>2. CASE todo = {} /\ left = Once({})
  BY <1>2 DEF TopicBoundQueues, left, todo
<1>3. CASE ~(todo = {} /\ left = Once({}))
  <2> DEFINE r == [op[c] EXCEPT !.todo = todo, !.left = left,
                     !.phase = IF todo = {} THEN "send" ELSE @]
  <2>1. Become(c, r)
    BY <1>3 DEF TopicBoundQueues, left, todo
  <2>2. /\ op[c].call = "produce"
        /\ ProduceFields(op[c])
    BY <1>1, ProducingOp
  <2>3. r = Matched(op[c], todo, left, next)
    BY <1>1 DEF Matched
  <2> HIDE DEF r, next
  <2>4. r = Onward(op[c], todo, left, op[c].got, next)
    BY <2>2, <2>3, OnwardRecord, SMTT(30)
  <2> QED BY <1>3, <2>1, <2>4 DEF left, todo, next
<1> QED BY <1>2, <1>3

LEMMA TopicBoundQueuesStep ==
    ASSUME TopologyInv, NEW c \in Clients, NEW k, TopicBoundQueues(c, k)
    PROVE  Goal
<1> DEFINE left == Seen(op[c].left, bound[op[c].p][k])
<1> DEFINE todo == op[c].todo \ {k}
<1> DEFINE next == IF todo = {} THEN "send" ELSE "match"
<1> DEFINE r == Onward(op[c], todo, left, op[c].got, next)
<1>1. op[c].phase = "match" /\ Signal({}) /\ UNCHANGED <<store, lost>>
  BY DEF TopicBoundQueues
<1>2. Return(c) \/ Become(c, r)
  BY MatchedEffect DEF TopologyInv
<1>3. op[c].call = "produce"
  BY <1>1, ProducingOp DEF TopologyInv
<1>4. next \in {"match", "send", "sent"}
  OBVIOUS
<1> HIDE DEF left, todo, next
<1>5. Phased(r) /\ Fielded(r) /\ Supplied(r) /\ r.phase # "exec"
  BY <1>3, <1>4, OnwardCall DEF TopologyInv
<1> HIDE DEF r
<1>6. CASE Return(c)
  BY <1>1, <1>6, ReturnOnly
<1>7. CASE Become(c, r)
  BY <1>1, <1>5, <1>7, CallOnly
<1> QED BY <1>2, <1>6, <1>7

(* One more queue gets its copy.                                           *)
LEMMA ProducedEffect ==
    ASSUME OpTyped, NEW c \in Clients, NEW q \in Queues, ProduceToQueue(c, q)
    PROVE  LET left == [op[c].left EXCEPT ![q] = @ - 1]
               got == [op[c].got EXCEPT ![q] = @ + 1]
           IN Become(c, Onward(op[c], op[c].todo, left, got,
                               IF left = Once({}) THEN "sent" ELSE "send"))
<1> DEFINE left == [op[c].left EXCEPT ![q] = @ - 1]
<1> DEFINE got == [op[c].got EXCEPT ![q] = @ + 1]
<1> DEFINE next == IF left = Once({}) THEN "sent" ELSE "send"
<1> DEFINE r == [op[c] EXCEPT !.left = left, !.got[q] = @ + 1,
                   !.phase = IF left = Once({}) THEN "sent" ELSE @]
<1>1. op[c].phase = "send" /\ Become(c, r)
  BY DEF ProduceToQueue
<1>2. /\ op[c].call = "produce"
      /\ ProduceFields(op[c])
  BY <1>1, ProducingOp
<1>3. r = Sent(op[c], left, got, next)
  BY <1>1 DEF Sent
<1> HIDE DEF left, got, next, r
<1>4. r = Onward(op[c], op[c].todo, left, got, next)
  BY <1>2, <1>3, OnwardRecord, SMTT(30)
<1> QED BY <1>1, <1>4 DEF left, got, next

LEMMA ProduceToQueueStep ==
    ASSUME TopologyInv, NEW c \in Clients, NEW q \in Queues,
           ProduceToQueue(c, q)
    PROVE  Goal
<1> DEFINE left == [op[c].left EXCEPT ![q] = @ - 1]
<1> DEFINE got == [op[c].got EXCEPT ![q] = @ + 1]
<1> DEFINE next == IF left = Once({}) THEN "sent" ELSE "send"
<1> DEFINE r == Onward(op[c], op[c].todo, left, got, next)
<1>1. /\ op[c].phase = "send" /\ Signal({})
      /\ UNCHANGED <<queues, namespace, props, listed, keys, bound, bindings,
                     lost>>
  BY DEF ProduceToQueue
<1>2. Become(c, r)
  BY ProducedEffect DEF TopologyInv
<1>3. op[c].call = "produce"
  BY <1>1, ProducingOp DEF TopologyInv
<1>4. next \in {"match", "send", "sent"}
  OBVIOUS
<1> HIDE DEF left, got, next
<1>5. Phased(r) /\ Fielded(r) /\ Supplied(r) /\ r.phase # "exec"
  BY <1>3, <1>4, OnwardCall DEF TopologyInv
<1> HIDE DEF r
<1>6. OpTyped' /\ \A d \in Clients : Current(d)'
  BY <1>1, <1>2, <1>5, CallStep
<1>7. StoreTyped' /\ KeysExact' /\ FanoutRecorded' /\ Fixing /\ Listing
  BY <1>1
     DEF TopologyInv, StoreTyped, KeysExact, FanoutRecorded, Fixing, Listing
<1> QED BY <1>6, <1>7 DEF Goal, TopologyInv

-----------------------------------------------------------------------------
(* The steps that change the store.                                        *)

LEMMA CreateQueueStep ==
    ASSUME TopologyInv, NEW q \in Queues, CreateQueue(q)
    PROVE  Goal
<1> USE DEF CreateQueue
<1>1. OpTyped' /\ \A d \in Clients : Current(d)'
  BY NoCallStep
<1>2. StoreTyped' /\ KeysExact' /\ FanoutRecorded' /\ Fixing /\ Listing
  BY DEF TopologyInv, StoreTyped, KeysExact, FanoutRecorded, Fixing, Listing
<1> QED BY <1>1, <1>2 DEF Goal, TopologyInv

LEMMA DrainStep ==
    ASSUME TopologyInv, NEW q \in Queues, Drain(q)
    PROVE  Goal
<1> USE DEF Drain
<1>1. OpTyped' /\ \A d \in Clients : Current(d)'
  BY NoCallStep
<1>2. StoreTyped' /\ KeysExact' /\ FanoutRecorded' /\ Fixing /\ Listing
  BY DEF TopologyInv, StoreTyped, KeysExact, FanoutRecorded, Fixing, Listing
<1> QED BY <1>1, <1>2 DEF Goal, TopologyInv

(* A queue that is deleted is bound to no fanout exchange.                 *)
LEMMA RemovedQueue ==
    ASSUME TopologyInv, NEW q \in Queues, Deletable(q), Removed(q),
           UNCHANGED <<props, keys, bound, lost>>
    PROVE  StoreTyped' /\ KeysExact' /\ FanoutRecorded' /\ Fixing /\ Listing
<1>1. StoreTyped'
  BY DEF TopologyInv, StoreTyped, Removed
<1>2. KeysExact'
  BY DEF TopologyInv, KeysExact
<1>3. \A x \in Queues : bindings'[x] = bindings[x]
  BY DEF TopologyInv, StoreTyped, Removed, Deletable
<1>4. FanoutRecorded'
  BY <1>3 DEF TopologyInv, FanoutRecorded
<1> QED BY <1>1, <1>2, <1>4 DEF Fixing, Listing

LEMMA DeleteQueueStep ==
    ASSUME TopologyInv, NEW q \in Queues, DeleteQueue(q)
    PROVE  Goal
<1> USE DEF DeleteQueue
<1>1. OpTyped' /\ \A d \in Clients : Current(d)'
  BY NoCallStep
<1>2. StoreTyped' /\ KeysExact' /\ FanoutRecorded' /\ Fixing /\ Listing
  BY RemovedQueue
<1> QED BY <1>1, <1>2 DEF Goal, TopologyInv

LEMMA NamespaceQueueStep ==
    ASSUME TopologyInv, NEW c \in Clients, NEW q \in Queues,
           NamespaceQueue(c, q)
    PROVE  Goal
<1> DEFINE r == [op[c] EXCEPT !.todo = @ \ {q}]
<1>1. op[c].phase = "queues" /\ Signal({})
      /\ UNCHANGED <<busy, namespace, props, listed, keys, bound, lost>>
  BY DEF NamespaceQueue
<1>2. CASE Deletable(q)
  <2>1. Removed(q) /\ Become(c, r)
    BY <1>2 DEF NamespaceQueue
  <2>2. op[c].call = "namespace" /\ NamespaceFields(op[c])
    BY <1>1, NamespaceOp DEF TopologyInv
  <2>3. r.call = "namespace" /\ r.phase = "queues" /\ NamespaceFields(r)
    BY <1>1, <2>2, SMTT(30) DEF NamespaceFields
  <2> HIDE DEF r
  <2>4. Phased(r) /\ Fielded(r) /\ Supplied(r) /\ r.phase # "exec"
    BY <2>3, NamespaceCall
  <2>5. OpTyped' /\ \A d \in Clients : Current(d)'
    BY <1>1, <2>1, <2>4, CallStep
  <2>6. StoreTyped' /\ KeysExact' /\ FanoutRecorded' /\ Fixing /\ Listing
    BY <1>1, <1>2, <2>1, RemovedQueue
  <2> QED BY <2>5, <2>6 DEF Goal, TopologyInv
<1>3. CASE ~Deletable(q)
  <2>1. Return(c) /\ UNCHANGED <<store, lost>>
    BY <1>1, <1>3 DEF NamespaceQueue, store
  <2> QED BY <1>1, <2>1, ReturnOnly
<1> QED BY <1>2, <1>3

LEMMA NamespaceRemoveStep ==
    ASSUME TopologyInv, NEW c \in Clients, NamespaceRemove(c)
    PROVE  Goal
<1> USE DEF NamespaceRemove
<1>1. Idle.phase # "exec"
  BY DEF Idle
<1>2. OpTyped' /\ \A d \in Clients : Current(d)'
  BY <1>1, IdleCall, CallStep DEF Return
<1>3. StoreTyped' /\ KeysExact' /\ FanoutRecorded' /\ Fixing /\ Listing
  BY DEF TopologyInv, StoreTyped, KeysExact, FanoutRecorded, Fixing, Listing
<1> QED BY <1>2, <1>3 DEF Goal, TopologyInv

(* The writes of an unmarked transaction find what it had read.            *)
LEMMA ExecutesOp ==
    ASSUME TopologyInv, NEW c \in Clients, NEW call \in Transactions,
           Executes(c, call)
    PROVE  /\ Given(call, op[c].args)
           /\ Reads(call, op[c].args, op[c].seen, op[c].watch)
<1>1. Supplied(op[c]) /\ Current(c)
  BY DEF TopologyInv, OpTyped
<1> QED BY <1>1 DEF Supplied, Current, Executes

LEMMA ExecutedCall ==
    ASSUME TopologyInv, NEW c \in Clients, NEW rewritten, Return(c),
           Signal(rewritten)
    PROVE  OpTyped' /\ \A d \in Clients : Current(d)'
<1>1. Idle.phase # "exec"
  BY DEF Idle
<1> QED BY <1>1, IdleCall, CallStep DEF Return

LEMMA SaveExecStep ==
    ASSUME TopologyInv, NEW c \in Clients, SaveExec(c)
    PROVE  Goal
<1> DEFINE p == op[c].args.p
<1> DEFINE new == [type |-> p[2], policy |-> op[c].args.policy]
<1>1. "save" \in Transactions /\ Executes(c, "save")
  BY DEF SaveExec, Transactions
<1>2. p \in Params /\ op[c].args.policy \in Policies /\ ~Exists(p[1])
  BY <1>1, ExecutesOp DEF Given, Reads
<1>3. p[1] \in Names /\ p[2] \in Types
  BY <1>2, SMTT(30) DEF Params
<1>4. /\ props' = [props EXCEPT ![p[1]] = new]
      /\ UNCHANGED <<queues, keys, bound, bindings, lost>>
      /\ Return(c) /\ Signal({KProps(p[1])})
  BY DEF SaveExec
<1>5. OpTyped' /\ \A d \in Clients : Current(d)'
  BY <1>4, ExecutedCall
<1>6. new \in [type : Types \union {None}, policy : Policies \union {None}]
  BY <1>2, <1>3
<1> HIDE DEF new, p
<1>7. /\ props' \in [Names -> [type : Types \union {None},
                               policy : Policies \union {None}]]
      /\ \A e \in Names : e # p[1] => props'[e] = props[e]
  BY <1>3, <1>4, <1>6, SMTT(30) DEF TopologyInv, StoreTyped
<1>8. StoreTyped'
  BY <1>4, <1>7 DEF TopologyInv, StoreTyped
<1>9. Fixing
  BY <1>2, <1>7 DEF Fixing, Exists
<1>10. KeysExact' /\ FanoutRecorded' /\ Listing
  BY <1>4 DEF TopologyInv, KeysExact, FanoutRecorded, Listing
<1> QED BY <1>5, <1>8, <1>9, <1>10 DEF Goal, TopologyInv

\* KeysExact, key by key.
KeyExact(p, k) ==
    /\ k \in keys[p] => bound[p][k] # {}
    /\ bound[p][k] # {} => k \in keys[p] \/ <<p, k>> \in lost

KeyByKey ==
    \A p \in Params :
        /\ keys[p] \subseteq Keys \ {NoKey}
        /\ \A k \in Keys \ {NoKey} : KeyExact(p, k)

LEMMA KeysExactKeys == (KeysExact <=> KeyByKey) /\ (KeysExact' <=> KeyByKey')
BY DEF KeysExact, KeyByKey, KeyExact

LEMMA BindExecStep ==
    ASSUME TopologyInv, NEW c \in Clients, BindExec(c)
    PROVE  Goal
<1> DEFINE a == op[c].args
           p == op[c].args.p
           k == op[c].args.k
           q == op[c].args.q
           old == props[p[1]]
           new == IF old = Absent THEN [type |-> p[2], policy |-> "standard"]
                                  ELSE [old EXCEPT !.type = p[2]]
<1>1. "bind" \in Transactions /\ Executes(c, "bind")
  BY DEF BindExec, Transactions
<1>2. p \in Params /\ k \in Keys /\ q \in Queues /\ (p[2] = "fanout" => k = NoKey)
      /\ (Exists(p[1]) => ValidateType(p))
  BY <1>1, ExecutesOp DEF Given, Reads
<1>3. p[1] \in Names /\ p[2] \in Types
  BY <1>2, SMTT(30) DEF Params
<1>4. /\ keys' = [keys EXCEPT ![p] = keys[p] \union ({k} \ {NoKey})]
      /\ bound' = [bound EXCEPT ![p][k] = bound[p][k] \union {q}]
      /\ bindings' = [bindings EXCEPT ![q] = bindings[q] \union {p}]
      /\ UNCHANGED <<queues, lost>>
      /\ Return(c) /\ Signal({KProps(p[1])})
  BY DEF BindExec
<1>5. props' = [props EXCEPT ![p[1]] = new]
  BY DEF BindExec
<1>6. OpTyped' /\ \A d \in Clients : Current(d)'
  BY <1>4, ExecutedCall
<1> DEFINE Properties == [type : Types \union {None}, policy : Policies \union {None}]
<1>7. old \in Properties
  BY <1>3 DEF TopologyInv, StoreTyped
<1>8. new \in Properties /\ (old # Absent => new = old)
  <2>1. CASE old = Absent
    <3>1. new = [type |-> p[2], policy |-> "standard"]
      BY <2>1
    <3>2. "standard" \in Policies
      BY DEF Policies
    <3> HIDE DEF new
    <3> QED BY <1>3, <2>1, <3>1, <3>2
  <2>2. CASE old # Absent
    <3>1. new = [old EXCEPT !.type = p[2]] /\ old.type = p[2]
      BY <1>2, <2>2 DEF Exists, ValidateType
    <3> HIDE DEF new, old
    <3>2. [old EXCEPT !.type = old.type] = old
      BY <1>7, SMTT(30)
    <3> QED BY <1>7, <3>1, <3>2
  <2> QED BY <2>1, <2>2
<1> HIDE DEF new, p, k, q
<1>9. /\ props' \in [Names -> Properties]
      /\ \A e \in Names : props'[e] = IF e = p[1] THEN new ELSE props[e]
  BY <1>3, <1>5, <1>8, SMTT(30) DEF TopologyInv, StoreTyped
<1>10. Fixing
  BY <1>8, <1>9 DEF Fixing
<1>11. /\ keys' \in [Params -> SUBSET Keys]
       /\ \A x \in Params :
              keys'[x] = IF x = p THEN keys[p] \union ({k} \ {NoKey}) ELSE keys[x]
  BY <1>2, <1>4, SMTT(30) DEF TopologyInv, StoreTyped
<1>12. /\ bound' \in [Params -> [Keys -> SUBSET Queues]]
       /\ \A x \in Params, y \in Keys :
              bound'[x][y] = IF x = p /\ y = k THEN bound[p][k] \union {q}
                                               ELSE bound[x][y]
  BY <1>2, <1>4, SMTT(30) DEF TopologyInv, StoreTyped
<1>13. /\ bindings' \in [Queues -> SUBSET Params]
       /\ \A x \in Queues :
              bindings'[x] = IF x = q THEN bindings[q] \union {p} ELSE bindings[x]
  BY <1>2, <1>4, SMTT(30) DEF TopologyInv, StoreTyped
<1>14. StoreTyped'
  BY <1>4, <1>9, <1>11, <1>12, <1>13 DEF TopologyInv, StoreTyped
<1>15. KeysExact'
  <2>1. KeyByKey
    BY KeysExactKeys DEF TopologyInv
  <2>2. ASSUME NEW x \in Params, NEW y \in Keys \ {NoKey} PROVE KeyExact(x, y)'
    <3>1. KeyExact(x, y)
      BY <2>1 DEF KeyByKey
    <3>2. CASE x = p /\ y = k
      <4>1. y \in keys'[x] /\ bound'[x][y] # {}
        BY <1>11, <1>12, <3>2
      <4> QED BY <4>1 DEF KeyExact
    <3>3. CASE ~(x = p /\ y = k)
      <4>1. (y \in keys'[x] <=> y \in keys[x]) /\ bound'[x][y] = bound[x][y]
        BY <1>11, <1>12, <3>3
      <4> QED BY <1>4, <3>1, <4>1 DEF KeyExact
    <3> QED BY <3>2, <3>3
  <2>3. ASSUME NEW x \in Params PROVE keys'[x] \subseteq Keys \ {NoKey}
    BY <1>2, <1>11, <2>1 DEF KeyByKey
  <2>4. KeyByKey'
    BY <2>2, <2>3 DEF KeyByKey
  <2> QED BY <2>4, KeysExactKeys
<1>16. FanoutRecorded'
  <2> SUFFICES ASSUME NEW x \in Params, NEW y \in Queues, x[2] = "fanout",
                      y \in bound'[x][NoKey]
               PROVE  x \in bindings'[y]
    BY DEF FanoutRecorded
  <2>1. y \in bound[x][NoKey] \/ (x = p /\ y = q)
    BY <1>12 DEF Keys
  <2>2. y \in bound[x][NoKey] => x \in bindings[y]
    BY DEF TopologyInv, FanoutRecorded
  <2> QED BY <1>13, <2>1, <2>2
<1>17. Listing
  BY <1>11, <1>12 DEF Listing
<1> QED BY <1>6, <1>10, <1>14, <1>15, <1>16, <1>17 DEF Goal, TopologyInv

(* The key leaves the list with its last queue: that it is the last one is *)
(* what the transaction read and watched.                                  *)
LEMMA UnbindExecStep ==
    ASSUME TopologyInv, NEW c \in Clients, UnbindExec(c),
           \A S \in SUBSET Queues : (Cardinality(S) = 1) <=> \E x : S = {x}
    PROVE  Goal
<1> DEFINE p == op[c].args.p
           k == op[c].args.k
           q == op[c].args.q
           r == op[c].seen
<1>1. "unbind" \in Transactions /\ Executes(c, "unbind")
  BY DEF UnbindExec, Transactions
<1>2. p \in Params /\ k \in Keys /\ q \in Queues /\ (p[2] = "fanout" => k = NoKey)
      /\ q \in bound[p][k]
      /\ (k # NoKey => r.last = (Cardinality(bound[p][k]) = 1))
  BY <1>1, ExecutesOp DEF Given, Reads
<1>3. /\ bound' = [bound EXCEPT ![p][k] = bound[p][k] \ {q}]
      /\ keys' = [keys EXCEPT ![p] = IF r.last THEN keys[p] \ {k} ELSE keys[p]]
      /\ bindings' = [bindings EXCEPT ![q] = IF r.stillBound THEN bindings[q]
                                             ELSE bindings[q] \ {p}]
      /\ UNCHANGED <<queues, props, lost>>
      /\ Return(c) /\ Signal({})
  BY DEF UnbindExec
<1>4. OpTyped' /\ \A d \in Clients : Current(d)'
  BY <1>3, ExecutedCall
<1> HIDE DEF p, k, q, r
<1>5. /\ keys' \in [Params -> SUBSET Keys]
      /\ \A x \in Params : x # p => keys'[x] = keys[x]
      /\ keys'[p] = IF r.last THEN keys[p] \ {k} ELSE keys[p]
  BY <1>2, <1>3, SMTT(30) DEF TopologyInv, StoreTyped
<1>6. /\ bound' \in [Params -> [Keys -> SUBSET Queues]]
      /\ \A x \in Params, y \in Keys :
             bound'[x][y] = IF x = p /\ y = k THEN bound[p][k] \ {q}
                                              ELSE bound[x][y]
  BY <1>2, <1>3, SMTT(30) DEF TopologyInv, StoreTyped
<1>7. /\ bindings' \in [Queues -> SUBSET Params]
      /\ \A x \in Queues : x # q => bindings'[x] = bindings[x]
      /\ bindings[q] \ {p} \subseteq bindings'[q]
  BY <1>2, <1>3, SMTT(30) DEF TopologyInv, StoreTyped
<1>8. StoreTyped'
  BY <1>3, <1>5, <1>6, <1>7 DEF TopologyInv, StoreTyped
<1>9. k # NoKey => (r.last <=> bound[p][k] \ {q} = {})
  <2> DEFINE S == bound[p][k]
  <2>1. S \in SUBSET Queues /\ q \in S
    BY <1>2, SMTT(30) DEF TopologyInv, StoreTyped
  <2>2. k # NoKey => r.last = (Cardinality(S) = 1)
    BY <1>2
  <2> HIDE DEF S
  <2>3. (Cardinality(S) = 1) <=> S \ {q} = {}
    <3>1. ASSUME NEW x, S = {x} PROVE S \ {q} = {}
      BY <2>1, <3>1
    <3>2. ASSUME S \ {q} = {} PROVE S = {q}
      BY <2>1, <3>2
    <3> QED BY <2>1, <3>1, <3>2
  <2> QED BY <2>2, <2>3 DEF S
<1>10. KeysExact'
  <2>1. KeyByKey
    BY KeysExactKeys DEF TopologyInv
  <2>2. ASSUME NEW x \in Params, NEW y \in Keys \ {NoKey} PROVE KeyExact(x, y)'
    <3>1. KeyExact(x, y)
      BY <2>1 DEF KeyByKey
    <3>2. CASE x = p /\ y = k
      <4>1. bound'[x][y] = bound[p][k] \ {q} /\ bound[x][y] # {}
        BY <1>2, <1>6, <3>2
      <4>2. bound'[x][y] = {} <=> r.last
        BY <1>9, <3>2, <4>1
      <4>3. r.last => y \notin keys'[x]
        BY <1>5, <3>2
      <4>4. ~r.last => keys'[x] = keys[x]
        BY <1>5, <3>2
      <4> QED BY <1>3, <3>1, <4>1, <4>2, <4>3, <4>4 DEF KeyExact
    <3>3. CASE ~(x = p /\ y = k)
      <4>1. (y \in keys'[x] <=> y \in keys[x]) /\ bound'[x][y] = bound[x][y]
        BY <1>5, <1>6, <3>3
      <4> QED BY <1>3, <3>1, <4>1 DEF KeyExact
    <3> QED BY <3>2, <3>3
  <2>3. ASSUME NEW x \in Params PROVE keys'[x] \subseteq Keys \ {NoKey}
    BY <1>5, <2>1 DEF KeyByKey
  <2>4. KeyByKey'
    BY <2>2, <2>3 DEF KeyByKey
  <2> QED BY <2>4, KeysExactKeys
<1>11. FanoutRecorded'
  <2> SUFFICES ASSUME NEW x \in Params, NEW y \in Queues, x[2] = "fanout",
                      y \in bound'[x][NoKey]
               PROVE  x \in bindings'[y]
    BY DEF FanoutRecorded
  <2>1. y \in bound[x][NoKey] /\ ~(x = p /\ y = q)
    BY <1>2, <1>6 DEF Keys
  <2>2. x \in bindings[y]
    BY <2>1 DEF TopologyInv, FanoutRecorded
  <2> QED BY <1>7, <2>1, <2>2
<1>12. Fixing /\ Listing
  BY <1>3, <1>6 DEF Fixing, Listing
<1> QED BY <1>4, <1>8, <1>10, <1>11, <1>12 DEF Goal, TopologyInv

\* The exchange is gone, and with it its list of keys and the queues of the
\* keys in gone; the bindings that stay behind are overlooked.
Vanishes(p, gone) ==
    /\ props' = [props EXCEPT ![p[1]] = Absent]
    /\ keys' = [keys EXCEPT ![p] = {}]
    /\ bound' \in [Params -> [Keys -> SUBSET Queues]]
    /\ \A x \in Params, y \in Keys : bound'[x][y] \subseteq bound[x][y]
    /\ \A x \in Params, y \in Keys : x # p => bound'[x][y] = bound[x][y]
    /\ \A y \in Keys : y \in gone => bound'[p][y] = {}
    /\ lost' = lost \union Overlooked(p[1], gone)
    /\ UNCHANGED <<queues, bindings>>

LEMMA ExchangeGone ==
    ASSUME TopologyInv, NEW p \in Params, NEW gone, Vanishes(p, gone)
    PROVE  StoreTyped' /\ KeysExact' /\ FanoutRecorded' /\ Fixing /\ Listing
<1> USE DEF Vanishes
<1>1. p[1] \in Names
  BY SMTT(30) DEF Params
<1>2. Absent \in [type : Types \union {None}, policy : Policies \union {None}]
  BY DEF Absent
<1>3. /\ props' \in [Names -> [type : Types \union {None},
                               policy : Policies \union {None}]]
      /\ \A e \in Names : props'[e] = IF e = p[1] THEN Absent ELSE props[e]
  <2> HIDE DEF Absent
  <2> QED BY <1>1, <1>2, SMTT(30) DEF TopologyInv, StoreTyped
<1>4. /\ keys' \in [Params -> SUBSET Keys]
      /\ \A x \in Params : keys'[x] = IF x = p THEN {} ELSE keys[x]
  BY SMTT(30) DEF TopologyInv, StoreTyped
<1>5. StoreTyped'
  BY <1>3, <1>4 DEF TopologyInv, StoreTyped
<1>6. KeysExact'
  <2>1. KeyByKey
    BY KeysExactKeys DEF TopologyInv
  <2>2. ASSUME NEW x \in Params, NEW y \in Keys \ {NoKey} PROVE KeyExact(x, y)'
    <3>1. CASE x = p
      <4>1. ASSUME bound'[p][y] # {} PROVE <<p, y>> \in lost'
        <5>1. y \notin gone /\ bound[p][y] # {}
          BY <4>1
        <5>2. <<p, y>> \in Overlooked(p[1], gone)
          BY <5>1, SMTT(30) DEF Overlooked
        <5> QED BY <5>2
      <4> QED BY <1>4, <3>1, <4>1 DEF KeyExact
    <3>2. CASE x # p
      <4>1. keys'[x] = keys[x] /\ bound'[x][y] = bound[x][y]
        BY <1>4, <3>2
      <4>2. KeyExact(x, y) /\ lost \subseteq lost'
        BY <2>1 DEF KeyByKey
      <4> QED BY <4>1, <4>2 DEF KeyExact
    <3> QED BY <3>1, <3>2
  <2>3. ASSUME NEW x \in Params PROVE keys'[x] \subseteq Keys \ {NoKey}
    BY <1>4, <2>1 DEF KeyByKey
  <2>4. KeyByKey'
    BY <2>2, <2>3 DEF KeyByKey
  <2> QED BY <2>4, KeysExactKeys
<1>7. FanoutRecorded'
  BY DEF TopologyInv, FanoutRecorded, Keys
<1>8. Fixing /\ Listing
  BY <1>3 DEF Fixing, Listing
<1> QED BY <1>5, <1>6, <1>7, <1>8

LEMMA DeleteExecStep ==
    ASSUME TopologyInv, NEW c \in Clients, DeleteExec(c)
    PROVE  Goal
<1> DEFINE p == op[c].args.p
           all == op[c].args.all
           left == [k \in Keys |-> IF k \in all THEN {} ELSE bound[p][k]]
<1>1. "delete" \in Transactions /\ Executes(c, "delete")
  BY DEF DeleteExec, Transactions
<1>2. p \in Params
  BY <1>1, ExecutesOp DEF Given
<1>3. /\ props' = [props EXCEPT ![p[1]] = Absent]
      /\ keys' = [keys EXCEPT ![p] = {}]
      /\ lost' = lost \union Overlooked(p[1], all)
      /\ UNCHANGED <<queues, bindings>>
      /\ Return(c) /\ Signal({})
  BY DEF DeleteExec
<1>4. bound' = [bound EXCEPT ![p] = left]
  BY DEF DeleteExec
<1>5. OpTyped' /\ \A d \in Clients : Current(d)'
  BY <1>3, ExecutedCall
<1> HIDE DEF p, all
<1>6. left \in [Keys -> SUBSET Queues]
  BY <1>2, SMTT(30) DEF TopologyInv, StoreTyped
<1>7. \A y \in Keys : left[y] = IF y \in all THEN {} ELSE bound[p][y]
  OBVIOUS
<1> HIDE DEF left
<1>8. /\ bound' \in [Params -> [Keys -> SUBSET Queues]]
      /\ \A x \in Params : bound'[x] = IF x = p THEN left ELSE bound[x]
  BY <1>2, <1>4, <1>6, SMTT(30) DEF TopologyInv, StoreTyped
<1>9. /\ \A x \in Params, y \in Keys : bound'[x][y] \subseteq bound[x][y]
      /\ \A x \in Params, y \in Keys : x # p => bound'[x][y] = bound[x][y]
      /\ \A y \in Keys : y \in all => bound'[p][y] = {}
  BY <1>2, <1>7, <1>8
<1>10. StoreTyped' /\ KeysExact' /\ FanoutRecorded' /\ Fixing /\ Listing
  <2>1. Vanishes(p, all)
    BY <1>3, <1>8, <1>9 DEF Vanishes
  <2> QED BY <1>2, <2>1, ExchangeGone
<1> QED BY <1>5, <1>10 DEF Goal, TopologyInv

LEMMA RemoveStep ==
    ASSUME TopologyInv, NEW c \in Clients, Remove(c)
    PROVE  Goal
<1> DEFINE p == op[c].p
           r == [call |-> "namespace", phase |-> "exchanges",
                 todo |-> op[c].todo \ {p}, watch |-> {}]
<1>1. p \in Params
  BY DEF Remove, TopologyInv, OpTyped, Supplied
<1>2. /\ props' = [props EXCEPT ![p[1]] = Absent]
      /\ keys' = [keys EXCEPT ![p] = {}]
      /\ bound' = IF p[2] = "fanout" THEN [bound EXCEPT ![p][NoKey] = {}]
                                     ELSE bound
      /\ lost' = lost \union Overlooked(p[1], {})
      /\ UNCHANGED <<queues, bindings>>
      /\ Return(c) \/ Become(c, r)
      /\ Signal({})
  BY DEF Remove
<1>3. OpTyped' /\ \A d \in Clients : Current(d)'
  <2>1. CASE Return(c)
    BY <1>2, <2>1, ExecutedCall
  <2>2. CASE Become(c, r)
    <3>1. Phased(r) /\ Fielded(r) /\ Supplied(r) /\ r.phase # "exec"
      BY NamespaceCall DEF NamespaceFields
    <3> HIDE DEF r
    <3> QED BY <1>2, <2>2, <3>1, CallStep
  <2> QED BY <1>2, <2>1, <2>2
<1> HIDE DEF p
<1>4. /\ bound' \in [Params -> [Keys -> SUBSET Queues]]
      /\ \A x \in Params, y \in Keys : bound'[x][y] \subseteq bound[x][y]
      /\ \A x \in Params, y \in Keys : x # p => bound'[x][y] = bound[x][y]
  <2>1. NoKey \in Keys
    BY DEF Keys
  <2>2. CASE p[2] = "fanout"
    BY <1>1, <1>2, <2>1, <2>2, SMTT(30) DEF TopologyInv, StoreTyped
  <2>3. CASE p[2] # "fanout"
    BY <1>2, <2>3 DEF TopologyInv, StoreTyped
  <2> QED BY <2>2, <2>3
<1>5. StoreTyped' /\ KeysExact' /\ FanoutRecorded' /\ Fixing /\ Listing
  <2>1. Vanishes(p, {})
    BY <1>2, <1>4 DEF Vanishes
  <2> QED BY <1>1, <2>1, ExchangeGone
<1> QED BY <1>3, <1>5 DEF Goal, TopologyInv

-----------------------------------------------------------------------------
(* Every step, and the properties.                                         *)

LEMMA NamedParams ==
    ASSUME NEW t, NEW e \in Named(t)
    PROVE  <<e, t>> \in Params /\ <<e, t>>[1] = e /\ <<e, t>>[2] = t
BY SMTT(30) DEF Named, Params

LEMMA KeysIncluded ==
    RoutingKeys \subseteq Keys /\ Patterns \subseteq Keys /\ NoKey \in Keys
BY DEF Keys

LEMMA DirectStep ==
    ASSUME TopologyInv, NEW c \in Clients, Direct(c)
    PROVE  Goal
<1> PICK e \in Named("direct") :
       \/ \E q \in Queues, k \in RoutingKeys :
           DirectBindQueue(c, q, e, k) \/ DirectUnbindQueue(c, q, e, k)
       \/ DirectDelete(c, e)
       \/ \E m \in Messages : DirectMatchQueues(c, e, m)
  BY DEF Direct
<1> DEFINE p == <<e, "direct">>
<1>1. p \in Params /\ p[1] = e /\ p[2] = "direct"
  BY NamedParams
<1>2. ASSUME NEW q \in Queues, NEW k \in RoutingKeys, DirectBindQueue(c, q, e, k)
      PROVE  Goal
  <2> DEFINE w == {KProps(e), KKeys(p), KBound(p, k), KBindings(q), KAll}
  <2>1. Transaction(c, "bind", BindArgs(p, k, q), Bindable(p, k, q), None, w)
    BY <1>2 DEF DirectBindQueue
  <2>2. KProps(p[1]) \in w
    BY <1>1
  <2> HIDE DEF p, w
  <2> QED BY <1>1, <2>1, <2>2, KeysIncluded, BindStarts
<1>3. ASSUME NEW q \in Queues, NEW k \in RoutingKeys, DirectUnbindQueue(c, q, e, k)
      PROVE  Goal
  <2> DEFINE w == {KKeys(p), KBound(p, k), KBindings(q)}
  <2>1. Transaction(c, "unbind", BindArgs(p, k, q), Unbindable(p, k, q),
                    UnbindReads(p, k, q), w)
    BY <1>3 DEF DirectUnbindQueue
  <2>2. KBound(p, k) \in w
    OBVIOUS
  <2> HIDE DEF p, w
  <2> QED BY <1>1, <2>1, <2>2, KeysIncluded, UnbindStarts
<1>4. CASE DirectDelete(c, e)
  BY <1>1, <1>4, ListsStep DEF DirectDelete
<1>5. ASSUME NEW m \in Messages, DirectMatchQueues(c, e, m) PROVE Goal
  <2>1. Produces(c, p, Producing(p, m, {}, Once(bound[p][m]), "send"))
    BY <1>5 DEF DirectMatchQueues
  <2> HIDE DEF p
  <2> QED BY <1>1, <2>1, ProducesStep
<1> QED BY <1>2, <1>3, <1>4, <1>5

LEMMA TopicStep ==
    ASSUME TopologyInv, NEW c \in Clients, Topic(c)
    PROVE  Goal
<1> PICK e \in Named("topic") :
       \/ \E q \in Queues, k \in Patterns :
           TopicBindQueue(c, q, e, k) \/ TopicUnbindQueue(c, q, e, k)
       \/ TopicDelete(c, e)
       \/ \E m \in Messages : TopicMatchQueues(c, e, m)
  BY DEF Topic
<1> DEFINE p == <<e, "topic">>
<1>1. p \in Params /\ p[1] = e /\ p[2] = "topic"
  BY NamedParams
<1>2. ASSUME NEW q \in Queues, NEW k \in Patterns, TopicBindQueue(c, q, e, k)
      PROVE  Goal
  <2> DEFINE w == {KProps(e), KKeys(p), KBound(p, k), KBindings(q), KAll}
  <2>1. Transaction(c, "bind", BindArgs(p, k, q), Bindable(p, k, q), None, w)
    BY <1>2 DEF TopicBindQueue
  <2>2. KProps(p[1]) \in w
    BY <1>1
  <2> HIDE DEF p, w
  <2> QED BY <1>1, <2>1, <2>2, KeysIncluded, BindStarts
<1>3. ASSUME NEW q \in Queues, NEW k \in Patterns, TopicUnbindQueue(c, q, e, k)
      PROVE  Goal
  <2> DEFINE w == {KKeys(p), KBound(p, k), KBindings(q)}
  <2>1. Transaction(c, "unbind", BindArgs(p, k, q), Unbindable(p, k, q),
                    UnbindReads(p, k, q), w)
    BY <1>3 DEF TopicUnbindQueue
  <2>2. KBound(p, k) \in w
    OBVIOUS
  <2> HIDE DEF p, w
  <2> QED BY <1>1, <2>1, <2>2, KeysIncluded, UnbindStarts
<1>4. CASE TopicDelete(c, e)
  BY <1>1, <1>4, ListsStep DEF TopicDelete
<1>5. ASSUME NEW m \in Messages, TopicMatchQueues(c, e, m) PROVE Goal
  <2> DEFINE matched == {k \in keys[p] : matchTopicTokens(m, k)}
  <2>1. Produces(c, p, Producing(p, m, matched, Once({}), "match"))
    BY <1>5 DEF TopicMatchQueues
  <2> HIDE DEF p, matched
  <2> QED BY <1>1, <2>1, ProducesStep
<1> QED BY <1>2, <1>3, <1>4, <1>5

LEMMA FanoutStep ==
    ASSUME TopologyInv, NEW c \in Clients, Fanout(c)
    PROVE  Goal
<1> PICK e \in Named("fanout") :
       \/ \E q \in Queues : FanoutBindQueue(c, q, e) \/ FanoutUnbindQueue(c, q, e)
       \/ FanoutDelete(c, e)
       \/ \E m \in Messages : FanoutMatchQueues(c, e, m)
  BY DEF Fanout
<1> DEFINE p == <<e, "fanout">>
<1>1. p \in Params /\ p[1] = e /\ p[2] = "fanout"
  BY NamedParams
<1>2. ASSUME NEW q \in Queues, FanoutBindQueue(c, q, e) PROVE Goal
  <2> DEFINE w == {KProps(e), KBound(p, NoKey), KBindings(q), KAll}
  <2>1. Transaction(c, "bind", BindArgs(p, NoKey, q), Bindable(p, NoKey, q),
                    None, w)
    BY <1>2 DEF FanoutBindQueue
  <2>2. KProps(p[1]) \in w
    BY <1>1
  <2> HIDE DEF p, w
  <2> QED BY <1>1, <2>1, <2>2, KeysIncluded, BindStarts
<1>3. ASSUME NEW q \in Queues, FanoutUnbindQueue(c, q, e) PROVE Goal
  <2> DEFINE w == {KBound(p, NoKey), KBindings(q)}
  <2> DEFINE s == [stillBound |-> FALSE, last |-> FALSE]
  <2>1. Transaction(c, "unbind", BindArgs(p, NoKey, q), Unbindable(p, NoKey, q),
                    s, w)
    BY <1>3 DEF FanoutUnbindQueue
  <2>2. KBound(p, NoKey) \in w
    OBVIOUS
  <2> HIDE DEF p, w, s
  <2> QED BY <1>1, <2>1, <2>2, KeysIncluded, UnbindStarts
<1>4. CASE FanoutDelete(c, e)
  <2>1. Delete(c, p, {NoKey})
    BY <1>4 DEF FanoutDelete
  <2> HIDE DEF p
  <2> QED BY <1>1, <2>1, DeleteStarts
<1>5. ASSUME NEW m \in Messages, FanoutMatchQueues(c, e, m) PROVE Goal
  <2>1. Produces(c, p, Producing(p, m, {}, Once(bound[p][NoKey]), "send"))
    BY <1>5 DEF FanoutMatchQueues
  <2> HIDE DEF p
  <2> QED BY <1>1, <2>1, ProducesStep
<1> QED BY <1>2, <1>3, <1>4, <1>5

LEMMA ManagerStep ==
    ASSUME TopologyInv, NEW c \in Clients, Manager(c)
    PROVE  Goal
<1>1. CASE \E p \in Params, policy \in Policies : Save(c, p, policy)
  BY <1>1, SaveStarts
<1>2. CASE \E p \in Params : ManagerDelete(c, p) \/ NamespaceExchange(c, p)
  BY <1>2, ManagerDeleteStep, NamespaceExchangeStep
<1>3. CASE RemoveCount(c)
  BY <1>3, RemoveCountStep
<1>4. CASE Remove(c)
  BY <1>4, RemoveStep
<1>5. CASE NamespaceDelete(c)
  BY <1>5, NamespaceDeleteStep
<1>6. CASE NamespaceExchanges(c)
  BY <1>6, NamespaceExchangesStep
<1>7. CASE NamespaceRemove(c)
  BY <1>7, NamespaceRemoveStep
<1>8. CASE \E q \in Queues : NamespaceQueue(c, q)
  BY <1>8, NamespaceQueueStep
<1> QED BY <1>1, <1>2, <1>3, <1>4, <1>5, <1>6, <1>7, <1>8 DEF Manager

LEMMA ProducerStep ==
    ASSUME TopologyInv, NEW c \in Clients, Producer(c)
    PROVE  Goal
<1>1. CASE \E k \in Patterns : TopicBoundQueues(c, k)
  BY <1>1, TopicBoundQueuesStep
<1>2. CASE \E q \in Queues : ProduceToQueue(c, q)
  BY <1>2, ProduceToQueueStep
<1>3. CASE ProduceFails(c)
  BY <1>3, ReturnOnly DEF ProduceFails
<1>4. CASE ProduceReturns(c)
  BY <1>4, ReturnOnly DEF ProduceReturns
<1> QED BY <1>1, <1>2, <1>3, <1>4 DEF Producer

INSTANCE FiniteSetTheorems

LEMMA Singletons ==
    \A S \in SUBSET Queues : (Cardinality(S) = 1) <=> \E x : S = {x}
<1> TAKE S \in SUBSET Queues
<1>1. IsFiniteSet(S)
  BY TopologyAssumption, FS_Subset
<1> QED BY <1>1, FS_Singleton

LEMMA ExecStep ==
    ASSUME TopologyInv, NEW c \in Clients, Exec(c)
    PROVE  Goal
<1>1. CASE Conflict(c)
  BY <1>1, ConflictStep
<1>2. CASE DeleteListed(c)
  <2>1. op[c].args.p \in Params
    BY <1>2 DEF DeleteListed, TopologyInv, OpTyped, Supplied, Given, Transactions
  <2> QED BY <1>2, <2>1, DeleteStarts DEF DeleteListed
<1>3. CASE SaveExec(c)
  BY <1>3, SaveExecStep
<1>4. CASE BindExec(c)
  BY <1>4, BindExecStep
<1>5. CASE UnbindExec(c)
  BY <1>5, Singletons, UnbindExecStep
<1>6. CASE DeleteExec(c)
  BY <1>6, DeleteExecStep
<1> QED BY <1>1, <1>2, <1>3, <1>4, <1>5, <1>6 DEF Exec

LEMMA TopologyStep == TopologyInv /\ Next => Goal
<1> SUFFICES ASSUME TopologyInv, Next PROVE Goal
  OBVIOUS
<1>1. ASSUME NEW c \in Clients,
             Direct(c) \/ Topic(c) \/ Fanout(c) \/ Manager(c) \/ Exec(c) \/ Producer(c)
      PROVE  Goal
  BY <1>1, DirectStep, TopicStep, FanoutStep, ManagerStep, ExecStep, ProducerStep
<1>2. ASSUME NEW q \in Queues, CreateQueue(q) \/ DeleteQueue(q) \/ Drain(q)
      PROVE  Goal
  BY <1>2, CreateQueueStep, DeleteQueueStep, DrainStep
<1> QED BY <1>1, <1>2 DEF Next

LEMMA TopologyInit == Init => TopologyInv
<1> SUFFICES ASSUME Init PROVE TopologyInv
  OBVIOUS
<1> USE DEF Init
<1>1. StoreTyped
  <2>1. Absent \in [type : Types \union {None}, policy : Policies \union {None}]
    BY DEF Absent
  <2> HIDE DEF Absent
  <2> QED BY <2>1, SMTT(30) DEF StoreTyped
<1>2. \A c \in Clients : op[c] = Idle
  OBVIOUS
<1>3. OpTyped
  BY <1>2, IdleCall DEF OpTyped
<1>4. \A c \in Clients : Current(c)
  BY <1>2 DEF Current, Idle
<1>5. KeysExact
  BY DEF KeysExact
<1>6. FanoutRecorded
  BY DEF FanoutRecorded, Keys
<1> QED BY <1>1, <1>3, <1>4, <1>5, <1>6 DEF TopologyInv

(* What a transaction read of the keys it watches holds when it is         *)
(* executed, and the records of queues and exchanges agree.                *)
THEOREM TopologyInvariant == Spec => []TopologyInv
<1>1. TopologyInv /\ [Next]_vars => TopologyInv'
  <2>1. TopologyInv /\ UNCHANGED vars => TopologyInv'
    <3> SUFFICES ASSUME TopologyInv, UNCHANGED vars PROVE TopologyInv'
      OBVIOUS
    <3>1. StoreTyped' /\ KeysExact' /\ FanoutRecorded'
      BY StoreStays DEF vars, store
    <3>2. OpTyped'
      BY DEF TopologyInv, OpTyped, vars
    <3>3. ASSUME NEW c \in Clients PROVE Current(c)'
      BY DEF TopologyInv, Current, Reads, Exists, ValidateType, vars
    <3> QED BY <3>1, <3>2, <3>3 DEF TopologyInv
  <2> QED BY <2>1, TopologyStep DEF Goal
<1> QED BY <1>1, TopologyInit, PTL DEF Spec

(* The type and the policy of an exchange never change while it exists,    *)
(* whoever creates it and binds queues to it at the same time (Save,       *)
(* BindQueue of the three stores).                                         *)
THEOREM PropertiesStayFixed == Spec => PropertiesFixed
<1>1. TopologyInv /\ [Next]_vars => [Fixing]_vars
  BY TopologyStep DEF Goal
<1>2. Spec => [][Fixing]_vars
  BY <1>1, TopologyInvariant, PTL DEF Spec
<1> QED BY <1>2 DEF PropertiesFixed, Fixing

(* An exchange lists exactly the keys that have queues bound, but for what *)
(* a deletion overlooked (BindQueue and UnbindQueue of the stores).        *)
THEOREM KeysStayExact == Spec => []KeysExact
BY TopologyInvariant, PTL DEF TopologyInv

(* A queue bound to a fanout exchange has the exchange in its record, so   *)
(* that it is not deleted (fanout.go, delete-queue.lua).                   *)
THEOREM FanoutStaysRecorded == Spec => []FanoutRecorded
BY TopologyInvariant, PTL DEF TopologyInv

-----------------------------------------------------------------------------
(* Matching.  The pieces that Fits cuts a key into, from some token on.    *)

Piece(r, p, cut, n) ==
    \/ p[n] = "#" /\ cut[n - 1] =< cut[n]
    \/ cut[n] = cut[n - 1] + 1 /\ p[n] \in {"*", r[cut[n]]}

(* The tokens of p from j on cut those of r from i on into pieces.         *)
CutFrom(r, p, i, j, cut) ==
    /\ cut \in [(j - 1)..Len(p) -> 0..Len(r)]
    /\ cut[j - 1] = i - 1 /\ cut[Len(p)] = Len(r)
    /\ \A n \in j..Len(p) : Piece(r, p, cut, n)

FitsFrom(r, p, i, j) == \E cut : CutFrom(r, p, i, j, cut)

Places(r, p) ==
    [j \in 1..(Len(p) + 1) |-> {i \in 1..(Len(r) + 1) : FitsFrom(r, p, i, j)}]

LEMMA FitsNothing ==
    ASSUME NEW r, NEW p, Len(r) \in Nat, Len(p) \in Nat,
           NEW i \in 1..(Len(r) + 1)
    PROVE  FitsFrom(r, p, i, Len(p) + 1) <=> i > Len(r)
<1>1. ASSUME NEW cut, CutFrom(r, p, i, Len(p) + 1, cut) PROVE i > Len(r)
  BY <1>1, SMTT(30) DEF CutFrom
<1>2. ASSUME i > Len(r) PROVE FitsFrom(r, p, i, Len(p) + 1)
  <2> DEFINE cut == [n \in Len(p)..Len(p) |-> Len(r)]
  <2>1. CutFrom(r, p, i, Len(p) + 1, cut)
    BY <1>2, SMTT(30) DEF CutFrom
  <2> QED BY <2>1 DEF FitsFrom
<1> QED BY <1>1, <1>2 DEF FitsFrom

(* A cut that starts at the end of r stays there.                          *)
LEMMA CutStays ==
    ASSUME NEW r, NEW p, Len(r) \in Nat, Len(p) \in Nat,
           NEW j \in 1..(Len(p) + 1), NEW cut,
           CutFrom(r, p, Len(r) + 1, j, cut)
    PROVE  \A n \in (j - 1)..Len(p) : cut[n] = Len(r)
<1> DEFINE S == {n \in Nat : n \in (j - 1)..Len(p) /\ cut[n] # Len(r)}
<1>1. SUFFICES ASSUME S # {} PROVE FALSE
  BY <1>1, SMTT(30)
<1>2. S \subseteq Nat
  OBVIOUS
<1>3. PICK n \in S : \A h \in S : <<h, n>> \notin OpToRel(<, Nat)
  <2> HIDE DEF S
  <2> QED BY <1>1, <1>2, NatLessThanWellFounded, WFMin
<1>4. \A h \in S : ~(h < n)
  BY <1>2, <1>3 DEF OpToRel
<1>5. n \in j..Len(p) /\ n - 1 \in (j - 1)..Len(p) /\ cut[n] # Len(r)
  <2>1. cut[j - 1] = Len(r)
    BY SMTT(30) DEF CutFrom
  <2>2. n \in (j - 1)..Len(p) /\ cut[n] # Len(r)
    BY <1>3
  <2> QED BY <2>1, <2>2, SMTT(30)
<1>6. cut[n - 1] = Len(r)
  BY <1>4, <1>5, SMTT(30)
<1>7. Piece(r, p, cut, n) /\ cut[n] \in 0..Len(r)
  BY <1>5, SMTT(30) DEF CutFrom
<1> QED BY <1>5, <1>6, <1>7, SMTT(30) DEF Piece

LEMMA FitsEnd ==
    ASSUME NEW r, NEW p, Len(r) \in Nat, Len(p) \in Nat,
           NEW j \in 1..Len(p)
    PROVE  FitsFrom(r, p, Len(r) + 1, j) <=> \A n \in j..Len(p) : p[n] = "#"
<1>1. ASSUME NEW cut, CutFrom(r, p, Len(r) + 1, j, cut), NEW n \in j..Len(p)
      PROVE  p[n] = "#"
  <2>1. cut[n] = Len(r) /\ cut[n - 1] = Len(r)
    <3>1. \A h \in (j - 1)..Len(p) : cut[h] = Len(r)
      BY <1>1, CutStays, SMTT(30)
    <3> QED BY <3>1, SMTT(30)
  <2>2. Piece(r, p, cut, n)
    BY <1>1 DEF CutFrom
  <2> QED BY <2>1, <2>2, SMTT(30) DEF Piece
<1>2. ASSUME \A n \in j..Len(p) : p[n] = "#"
      PROVE  FitsFrom(r, p, Len(r) + 1, j)
  <2> DEFINE cut == [n \in (j - 1)..Len(p) |-> Len(r)]
  <2>1. CutFrom(r, p, Len(r) + 1, j, cut)
    BY <1>2, SMTT(30) DEF CutFrom, Piece
  <2> QED BY <2>1 DEF FitsFrom
<1> QED BY <1>1, <1>2 DEF FitsFrom

(* A cut from j on is a piece for the token at j and a cut from j + 1 on.  *)
LEMMA CutOff ==
    ASSUME NEW r, NEW p, Len(r) \in Nat, Len(p) \in Nat,
           NEW i \in 1..(Len(r) + 1), NEW j \in 1..Len(p), NEW cut,
           CutFrom(r, p, i, j, cut)
    PROVE  /\ cut[j] + 1 \in 1..(Len(r) + 1)
           /\ Piece(r, p, cut, j) /\ cut[j - 1] = i - 1
           /\ FitsFrom(r, p, cut[j] + 1, j + 1)
<1> DEFINE rest == [n \in j..Len(p) |-> cut[n]]
<1>1. cut[j] \in 0..Len(r) /\ Piece(r, p, cut, j) /\ cut[j - 1] = i - 1
  BY SMTT(30) DEF CutFrom
<1>2. CutFrom(r, p, cut[j] + 1, j + 1, rest)
  <2>1. rest \in [j..Len(p) -> 0..Len(r)] /\ rest[j] = cut[j]
        /\ rest[Len(p)] = Len(r)
    BY SMTT(30) DEF CutFrom
  <2>2. ASSUME NEW n \in (j + 1)..Len(p) PROVE Piece(r, p, rest, n)
    <3>1. rest[n] = cut[n] /\ rest[n - 1] = cut[n - 1]
      BY SMTT(30)
    <3>2. Piece(r, p, cut, n)
      BY SMTT(30) DEF CutFrom
    <3> QED BY <3>1, <3>2 DEF Piece
  <2>3. (cut[j] + 1) - 1 = cut[j] /\ (j + 1) - 1 = j
    BY <1>1, SMTT(30)
  <2> HIDE DEF rest
  <2> QED BY <2>1, <2>2, <2>3 DEF CutFrom
<1>3. FitsFrom(r, p, cut[j] + 1, j + 1)
  BY <1>2 DEF FitsFrom
<1> QED BY <1>1, <1>3, SMTT(30)

LEMMA CutOn ==
    ASSUME NEW r, NEW p, Len(r) \in Nat, Len(p) \in Nat,
           NEW i \in 1..(Len(r) + 1), NEW j \in 1..Len(p),
           NEW h \in 1..(Len(r) + 1), FitsFrom(r, p, h, j + 1),
           \/ p[j] = "#" /\ i =< h
           \/ h = i + 1 /\ p[j] \in {"*", r[i]}
    PROVE  FitsFrom(r, p, i, j)
<1>1. PICK rest : CutFrom(r, p, h, j + 1, rest)
  BY DEF FitsFrom
<1> DEFINE cut == [n \in (j - 1)..Len(p) |-> IF n = j - 1 THEN i - 1 ELSE rest[n]]
<1>2. rest \in [j..Len(p) -> 0..Len(r)] /\ rest[j] = h - 1
      /\ rest[Len(p)] = Len(r)
  BY <1>1, SMTT(30) DEF CutFrom
<1>3. cut \in [(j - 1)..Len(p) -> 0..Len(r)] /\ cut[j - 1] = i - 1
      /\ cut[j] = h - 1 /\ cut[Len(p)] = Len(r)
  BY <1>2, SMTT(30)
<1>4. ASSUME NEW n \in j..Len(p) PROVE Piece(r, p, cut, n)
  <2>1. CASE n = j
    <3> HIDE DEF cut
    <3> QED BY <1>3, <2>1, SMTT(30) DEF Piece
  <2>2. CASE n # j
    <3>1. cut[n] = rest[n] /\ cut[n - 1] = rest[n - 1] /\ n \in (j + 1)..Len(p)
      BY <2>2, SMTT(30)
    <3>2. Piece(r, p, rest, n)
      BY <1>1, <3>1 DEF CutFrom
    <3> QED BY <3>1, <3>2 DEF Piece
  <2> QED BY <2>1, <2>2
<1> HIDE DEF cut
<1>5. CutFrom(r, p, i, j, cut)
  BY <1>3, <1>4 DEF CutFrom
<1> QED BY <1>5 DEF FitsFrom

(* The pieces that the tokens of a pattern cut off satisfy the equation by *)
(* which matchTopicTokens recurses.                                        *)
Recursion(r, p, match, j) ==
    {i \in 1..(Len(r) + 1) :
        IF j > Len(p) THEN i > Len(r)
        ELSE IF i > Len(r) THEN \A n \in j..Len(p) : p[n] = "#"
        ELSE IF p[j] = "#"
             THEN \E n \in i..(Len(r) + 1) : n \in match[j + 1]
             ELSE p[j] \in {"*", r[i]} /\ i + 1 \in match[j + 1]}

LEMMA PlacesRecursion ==
    ASSUME NEW r, NEW p, Len(r) \in Nat, Len(p) \in Nat,
           NEW j \in 1..(Len(p) + 1)
    PROVE  Places(r, p)[j] = Recursion(r, p, Places(r, p), j)
<1> DEFINE P == Places(r, p)
<1>1. ASSUME NEW h \in 1..(Len(p) + 1), NEW i \in 1..(Len(r) + 1)
      PROVE  i \in P[h] <=> FitsFrom(r, p, i, h)
  BY DEF Places
<1>2. P[j] \subseteq 1..(Len(r) + 1)
  BY DEF Places
<1> HIDE DEF P
<1>3. ASSUME NEW i \in 1..(Len(r) + 1)
      PROVE  i \in P[j] <=> i \in Recursion(r, p, P, j)
  <2>1. CASE j > Len(p)
    <3>1. j = Len(p) + 1
      BY <2>1, SMTT(30)
    <3>2. FitsFrom(r, p, i, j) <=> i > Len(r)
      BY <3>1, FitsNothing
    <3> QED BY <1>1, <2>1, <3>2 DEF Recursion
  <2>2. CASE ~(j > Len(p)) /\ i > Len(r)
    <3>1. j \in 1..Len(p) /\ i = Len(r) + 1
      BY <2>2, SMTT(30)
    <3>2. FitsFrom(r, p, i, j) <=> \A n \in j..Len(p) : p[n] = "#"
      BY <3>1, FitsEnd
    <3> QED BY <1>1, <2>2, <3>2 DEF Recursion
  <2>3. CASE ~(j > Len(p)) /\ ~(i > Len(r))
    <3>1. j \in 1..Len(p) /\ j + 1 \in 1..(Len(p) + 1) /\ i \in 1..Len(r)
          /\ i + 1 \in 1..(Len(r) + 1)
      BY <2>3, SMTT(30)
    <3>2. ASSUME NEW h \in 1..(Len(r) + 1)
          PROVE  h \in P[j + 1] <=> FitsFrom(r, p, h, j + 1)
      BY <1>1, <3>1
    <3>3. CASE p[j] = "#"
      <4>1. ASSUME NEW cut, CutFrom(r, p, i, j, cut)
            PROVE  \E n \in i..(Len(r) + 1) : n \in P[j + 1]
        <5>1. /\ cut[j] + 1 \in 1..(Len(r) + 1)
              /\ Piece(r, p, cut, j) /\ cut[j - 1] = i - 1
              /\ FitsFrom(r, p, cut[j] + 1, j + 1)
          BY <3>1, <4>1, CutOff
        <5>2. cut[j] \in Int /\ cut[j] + 1 \in i..(Len(r) + 1)
          <6>1. cut[j] \in 0..Len(r)
            BY <3>1, <4>1, SMTT(30) DEF CutFrom
          <6> QED BY <3>1, <5>1, <6>1, SMTT(30) DEF Piece
        <5> QED BY <3>2, <5>1, <5>2
      <4>2. ASSUME NEW n \in i..(Len(r) + 1), n \in P[j + 1]
            PROVE  FitsFrom(r, p, i, j)
        <5>1. n \in 1..(Len(r) + 1) /\ i =< n
          BY <3>1, SMTT(30)
        <5> QED BY <3>1, <3>2, <3>3, <4>2, <5>1, CutOn
      <4>3. FitsFrom(r, p, i, j) <=> \E n \in i..(Len(r) + 1) : n \in P[j + 1]
        BY <4>1, <4>2 DEF FitsFrom
      <4> QED BY <1>1, <2>3, <3>3, <4>3 DEF Recursion
    <3>4. CASE p[j] # "#"
      <4>1. ASSUME NEW cut, CutFrom(r, p, i, j, cut)
            PROVE  p[j] \in {"*", r[i]} /\ i + 1 \in P[j + 1]
        <5>1. /\ cut[j] + 1 \in 1..(Len(r) + 1)
              /\ Piece(r, p, cut, j) /\ cut[j - 1] = i - 1
              /\ FitsFrom(r, p, cut[j] + 1, j + 1)
          BY <3>1, <4>1, CutOff
        <5>2. cut[j] = i /\ p[j] \in {"*", r[i]}
          BY <3>1, <3>4, <5>1, SMTT(30) DEF Piece
        <5> QED BY <3>1, <3>2, <5>1, <5>2
      <4>2. ASSUME p[j] \in {"*", r[i]}, i + 1 \in P[j + 1]
            PROVE  FitsFrom(r, p, i, j)
        BY <3>1, <3>2, <4>2, CutOn
      <4>3. FitsFrom(r, p, i, j) <=> p[j] \in {"*", r[i]} /\ i + 1 \in P[j + 1]
        BY <4>1, <4>2 DEF FitsFrom
      <4> QED BY <1>1, <2>3, <3>4, <4>3 DEF Recursion
    <3> QED BY <3>3, <3>4
  <2> QED BY <2>1, <2>2, <2>3
<1>4. Recursion(r, p, P, j) \subseteq 1..(Len(r) + 1)
  BY DEF Recursion
<1>5. P[j] = Recursion(r, p, P, j)
  BY <1>2, <1>3, <1>4
<1> QED BY <1>5 DEF P

(* The equation determines its solution, by induction from the end of p.   *)
LEMMA RecursionUnique ==
    ASSUME NEW r, NEW p, Len(r) \in Nat, Len(p) \in Nat, NEW F, NEW G,
           \A j \in 1..(Len(p) + 1) : F[j] = Recursion(r, p, F, j),
           \A j \in 1..(Len(p) + 1) : G[j] = Recursion(r, p, G, j)
    PROVE  \A j \in 1..(Len(p) + 1) : F[j] = G[j]
<1> DEFINE S == {d \in Nat : Len(p) + 1 - d \in 1..(Len(p) + 1)
                             /\ F[Len(p) + 1 - d] # G[Len(p) + 1 - d]}
<1>1. SUFFICES ASSUME S # {} PROVE FALSE
  <2> SUFFICES ASSUME NEW j \in 1..(Len(p) + 1), F[j] # G[j] PROVE S # {}
    BY <1>1
  <2>1. Len(p) + 1 - j \in Nat /\ Len(p) + 1 - (Len(p) + 1 - j) = j
    BY SMTT(30)
  <2>2. Len(p) + 1 - j \in S
    BY <2>1
  <2> QED BY <2>2
<1>2. S \subseteq Nat
  OBVIOUS
<1>3. PICK d \in S : \A h \in S : <<h, d>> \notin OpToRel(<, Nat)
  <2> HIDE DEF S
  <2> QED BY <1>1, <1>2, NatLessThanWellFounded, WFMin
<1>4. \A h \in S : ~(h < d)
  BY <1>2, <1>3 DEF OpToRel
<1> DEFINE j == Len(p) + 1 - d
<1>5. d \in Nat /\ j \in 1..(Len(p) + 1) /\ F[j] # G[j]
  BY <1>3
<1>6. j > Len(p) \/ F[j + 1] = G[j + 1]
  <2> SUFFICES ASSUME ~(j > Len(p)), F[j + 1] # G[j + 1] PROVE FALSE
    OBVIOUS
  <2>1. d - 1 \in Nat /\ d - 1 < d /\ Len(p) + 1 - (d - 1) = j + 1
        /\ j + 1 \in 1..(Len(p) + 1)
    BY <1>5, SMTT(30)
  <2>2. d - 1 \in S
    BY <2>1
  <2> QED BY <1>4, <2>1, <2>2
<1>7. Recursion(r, p, F, j) = Recursion(r, p, G, j)
  <2> HIDE DEF j, S
  <2> QED BY <1>6 DEF Recursion
<1> HIDE DEF j
<1> QED BY <1>5, <1>7

(* The backtracking matcher of the topic exchanges decides what a pattern  *)
(* means, for keys and patterns of any length.                             *)
THEOREM MatchingMeansFits ==
    ASSUME NEW r, NEW p, Len(r) \in Nat, Len(p) \in Nat
    PROVE  matchTopicTokens(r, p) <=> Fits(r, p)
<1> DEFINE P == Places(r, p)
<1> DEFINE match == CHOOSE m : m = [j \in 1..(Len(p) + 1) |-> Recursion(r, p, m, j)]
<1>1. matchTopicTokens(r, p) = (1 \in match[1])
  BY DEF matchTopicTokens, Recursion
<1>2. P = [j \in 1..(Len(p) + 1) |-> Recursion(r, p, P, j)]
  BY PlacesRecursion DEF Places
<1>3. match = [j \in 1..(Len(p) + 1) |-> Recursion(r, p, match, j)]
  <2> HIDE DEF P
  <2> QED BY <1>2
<1> HIDE DEF P, match
<1>4. 1 \in 1..(Len(p) + 1) /\ 1 \in 1..(Len(r) + 1)
  BY SMTT(30)
<1>5. match[1] = P[1]
  <2>1. \A j \in 1..(Len(p) + 1) : match[j] = Recursion(r, p, match, j)
    BY <1>3
  <2>2. \A j \in 1..(Len(p) + 1) : P[j] = Recursion(r, p, P, j)
    BY PlacesRecursion DEF P
  <2>3. \A j \in 1..(Len(p) + 1) : match[j] = P[j]
    BY <2>1, <2>2, RecursionUnique, SMTT(30)
  <2> QED BY <1>4, <2>3
<1>6. 1 \in P[1] <=> FitsFrom(r, p, 1, 1)
  BY <1>4 DEF P, Places
<1>7. FitsFrom(r, p, 1, 1) <=> Fits(r, p)
  <2>1. 1 - 1 = 0
    BY SMTT(30)
  <2> QED BY <2>1 DEF FitsFrom, CutFrom, Piece, Fits
<1> QED BY <1>1, <1>5, <1>6, <1>7

-----------------------------------------------------------------------------
(* Routing.                                                                *)

\* How far a producer has got: r is its call, st and ev are the bindings
\* that were in force all through the call and at some moment of it.
Underway(r, st, ev) ==
    /\ r.left \in [Queues -> {0, 1}] /\ r.got \in [Queues -> {0, 1}]
    /\ \A q \in Queues :
           /\ r.left[q] = 0 \/ r.got[q] = 0
           /\ r.left[q] = 1 \/ r.got[q] = 1 => \E b \in ev : b[2] = q
    /\ r.phase = "match" =>
           /\ r.p[2] = "topic"
           /\ r.todo \subseteq {k \in Keys \ {NoKey} : Fits(r.m, k)}
           /\ r.got = Once({})
           /\ \A k \in r.todo : \A q \in bound[r.p][k] : <<k, q>> \in ev
           /\ \A b \in st : b[1] \in r.todo \/ r.left[b[2]] = 1
    /\ r.phase # "match" =>
           \A b \in st : r.left[b[2]] = 1 \/ r.got[b[2]] = 1
    /\ r.phase = "sent" => r.left = Once({})

RoutingInv ==
    /\ steady \in [Clients -> SUBSET (Keys \X Queues)]
    /\ ever \in [Clients -> SUBSET (Keys \X Queues)]
    /\ \A c \in Clients :
           op[c].call = "produce" => Underway(op[c], steady[c], ever[c])

\* The bindings by which the call of a producer should go.
Going(c) == Routes(op[c].p, op[c].m)

LEMMA ObserveStep ==
    ASSUME RoutingInv, Observe
    PROVE  /\ (steady \in [Clients -> SUBSET (Keys \X Queues)])'
           /\ (ever \in [Clients -> SUBSET (Keys \X Queues)])'
           /\ \A d \in Clients : op'[d].call = "produce" =>
                  \/ /\ op[d].call # "produce"
                     /\ steady'[d] = Going(d)' /\ ever'[d] = Going(d)'
                  \/ /\ op[d].call = "produce"
                     /\ steady'[d] = steady[d] \intersect Going(d)'
                     /\ ever'[d] = ever[d] \union Going(d)'
<1>1. \A d \in Clients : Going(d)' \subseteq Keys \X Queues
  BY DEF Going, Routes
<1>2. /\ steady' = [d \in Clients |->
             IF ~(op'[d].call = "produce") THEN {}
             ELSE IF op[d].call # "produce" THEN Going(d)'
                                            ELSE steady[d] \intersect Going(d)']
      /\ ever' = [d \in Clients |->
             IF ~(op'[d].call = "produce") THEN {}
             ELSE IF op[d].call # "produce" THEN Going(d)'
                                            ELSE ever[d] \union Going(d)']
  BY DEF Observe, Going
<1> DEFINE G(d) == Going(d)'
<1> HIDE DEF G
<1>3. /\ steady' = [d \in Clients |->
             IF ~(op'[d].call = "produce") THEN {}
             ELSE IF op[d].call # "produce" THEN G(d)
                                            ELSE steady[d] \intersect G(d)]
      /\ ever' = [d \in Clients |->
             IF ~(op'[d].call = "produce") THEN {}
             ELSE IF op[d].call # "produce" THEN G(d)
                                            ELSE ever[d] \union G(d)]
  BY <1>2 DEF G
<1>4. \A d \in Clients : G(d) \subseteq Keys \X Queues
  BY <1>1 DEF G
<1>5. /\ \A d \in Clients : steady[d] \subseteq Keys \X Queues
      /\ \A d \in Clients : ever[d] \subseteq Keys \X Queues
  BY DEF RoutingInv
<1> DEFINE KQ == Keys \X Queues
<1> HIDE DEF KQ
<1>6. /\ (steady \in [Clients -> SUBSET KQ])'
      /\ (ever \in [Clients -> SUBSET KQ])'
  <2>1. /\ \A d \in Clients : G(d) \subseteq KQ
        /\ \A d \in Clients : steady[d] \subseteq KQ
        /\ \A d \in Clients : ever[d] \subseteq KQ
    BY <1>4, <1>5 DEF KQ
  <2> QED BY <1>3, <2>1, SMTT(30)
<1>7. \A d \in Clients : op'[d].call = "produce" =>
          \/ /\ op[d].call # "produce"
             /\ steady'[d] = G(d) /\ ever'[d] = G(d)
          \/ /\ op[d].call = "produce"
             /\ steady'[d] = steady[d] \intersect G(d)
             /\ ever'[d] = ever[d] \union G(d)
  BY <1>3
<1> QED BY <1>6, <1>7 DEF G, KQ

(* A binding is a route of the message by the type of the exchange.        *)
Serves(p, m, k, q) ==
    /\ q \in bound[p][k]
    /\ \/ p[2] = "direct" /\ k = m
       \/ p[2] = "fanout" /\ k = NoKey
       \/ p[2] = "topic" /\ k \in keys[p] /\ Fits(m, k)

LEMMA BindingServes ==
    ASSUME NEW p, NEW m
    PROVE  /\ \A k \in Keys, q \in Queues :
                  Serves(p, m, k, q)' => <<k, q>> \in Routes(p, m)'
           /\ \A b \in Routes(p, m)' :
                  b[1] \in Keys /\ b[2] \in Queues /\ Serves(p, m, b[1], b[2])'
<1>1. ASSUME NEW k \in Keys, NEW q \in Queues, Serves(p, m, k, q)'
      PROVE  <<k, q>> \in Routes(p, m)'
  <2> DEFINE b == <<k, q>>
  <2>1. b[1] = k /\ b[2] = q /\ b \in Keys \X Queues
    OBVIOUS
  <2> HIDE DEF b
  <2>2. b \in Routes(p, m)'
    BY <1>1, <2>1 DEF Routes, Serves
  <2> QED BY <2>2 DEF b
<1>2. ASSUME NEW b \in Routes(p, m)'
      PROVE  b[1] \in Keys /\ b[2] \in Queues /\ Serves(p, m, b[1], b[2])'
  BY <1>2 DEF Routes, Serves
<1> QED BY <1>1, <1>2

(* A producer that does not move while others change the bindings: a queue *)
(* that is added to a pattern it has still to read is in force now.        *)
LEMMA OthersKept ==
    ASSUME TopologyInv, RoutingInv, Goal, Observe, NEW d \in Clients,
           op'[d] = op[d], op[d].call = "produce"
    PROVE  Underway(op[d], steady[d], ever[d])'
<1> DEFINE r == op[d]
<1>1. Underway(r, steady[d], ever[d])
  BY DEF RoutingInv
<1>2. /\ steady'[d] \subseteq steady[d]
      /\ ever'[d] = ever[d] \union Going(d)'
  BY ObserveStep
<1>3. ASSUME r.phase = "match", NEW k \in r.todo, NEW q \in bound'[r.p][k]
      PROVE  <<k, q>> \in ever'[d]
  <2>1. r.p[2] = "topic" /\ k \in Keys \ {NoKey} /\ Fits(r.m, k)
        /\ \A x \in bound[r.p][k] : <<k, x>> \in ever[d]
    BY <1>1, <1>3 DEF Underway
  <2>2. r.p \in Params
    BY ProducingOp DEF TopologyInv
  <2>3. CASE q \in bound[r.p][k]
    BY <1>2, <2>1, <2>3
  <2>4. CASE q \notin bound[r.p][k]
    <3>1. k \in keys'[r.p]
      BY <1>3, <2>1, <2>2, <2>4 DEF Goal, Listing
    <3>2. q \in Queues
      <4>1. StoreTyped'
        BY DEF Goal, TopologyInv
      <4> QED BY <1>3, <2>1, <2>2, <4>1 DEF StoreTyped
    <3>3. <<k, q>> \in Going(d)'
      <4>1. Serves(r.p, r.m, k, q)'
        BY <1>3, <2>1, <3>1 DEF Serves
      <4>2. <<k, q>> \in Routes(r.p, r.m)'
        BY <2>1, <3>2, <4>1, BindingServes
      <4> QED BY <4>2 DEF Going
    <3> QED BY <1>2, <3>3
  <2> QED BY <2>3, <2>4
<1>4. ASSUME NEW q \in Queues, r.left[q] = 1 \/ r.got[q] = 1
      PROVE  \E b \in ever'[d] : b[2] = q
  BY <1>1, <1>2, <1>4 DEF Underway
<1> QED BY <1>1, <1>2, <1>3, <1>4 DEF Underway

(* A step by which no call becomes or remains that of a moving producer.   *)
Quiet == \A d \in Clients : op'[d].call = "produce" => op'[d] = op[d]

LEMMA QuietRouting ==
    ASSUME TopologyInv, RoutingInv, Goal, Observe, Quiet
    PROVE  RoutingInv'
<1>1. ASSUME NEW d \in Clients, op'[d].call = "produce"
      PROVE  Underway(op[d], steady[d], ever[d])'
  <2>1. op'[d] = op[d]
    BY <1>1 DEF Quiet
  <2> QED BY <1>1, <2>1, OthersKept
<1> QED BY <1>1, ObserveStep DEF RoutingInv

LEMMA QuietCall ==
    ASSUME TopologyInv, NEW c \in Clients, NEW r, Become(c, r),
           r.call # "produce"
    PROVE  Quiet
<1>1. op = [d \in Clients |-> op[d]]
  BY DEF TopologyInv, OpTyped
<1>2. \A d \in Clients : op'[d] = IF d = c THEN r ELSE op[d]
  BY <1>1 DEF Become
<1> QED BY <1>2 DEF Quiet

LEMMA QuietReturn ==
    ASSUME TopologyInv, NEW c \in Clients, Return(c)
    PROVE  Quiet
<1>1. Idle.call # "produce"
  BY DEF Idle
<1> QED BY <1>1, QuietCall DEF Return

LEMMA QuietTransaction ==
    ASSUME TopologyInv, NEW c \in Clients, NEW call \in Transactions,
           NEW args, NEW allowed, NEW seen, NEW watch,
           Transaction(c, call, args, allowed, seen, watch)
    PROVE  Quiet
<1> DEFINE r == [call |-> call, args |-> args, phase |-> "exec",
                 seen |-> seen, watch |-> watch,
                 attempt |-> IF op[c] = Idle THEN 1 ELSE op[c].attempt]
<1>1. r.call = call /\ call # "produce"
  BY DEF Transactions
<1>2. Become(c, r) \/ Return(c)
  BY DEF Transaction
<1> HIDE DEF r
<1> QED BY <1>1, <1>2, QuietCall, QuietReturn

LEMMA QuietLists ==
    ASSUME TopologyInv, NEW c \in Clients, NEW p, Lists(c, p)
    PROVE  Quiet
<1> DEFINE r == [call |-> "delete", args |-> [p |-> p, all |-> keys[p]],
                 phase |-> "watch", watch |-> {}, attempt |-> 1]
<1>1. r.call # "produce"
  OBVIOUS
<1>2. Become(c, r)
  BY DEF Lists
<1> HIDE DEF r
<1> QED BY <1>1, <1>2, QuietCall

LEMMA QuietExec ==
    ASSUME TopologyInv, NEW c \in Clients, Exec(c)
    PROVE  Quiet
<1>1. CASE Conflict(c)
  <2> DEFINE r == [op[c] EXCEPT !.phase = "watch", !.watch = {},
                                !.attempt = @ + 1]
  <2>1. op[c].phase = "exec" /\ (Return(c) \/ Become(c, r))
    BY <1>1 DEF Conflict
  <2>2. Phased(op[c]) /\ Fielded(op[c])
    BY DEF TopologyInv, OpTyped
  <2>3. op[c].call # "produce"
    BY <2>1, <2>2, SMTT(30) DEF Phased, Idle, Transactions
  <2>4. r.call = op[c].call
    BY <2>1, <2>2, SMTT(30) DEF Fielded, TransactionFields
  <2> HIDE DEF r
  <2> QED BY <2>1, <2>3, <2>4, QuietCall, QuietReturn
<1>2. CASE DeleteListed(c)
  BY <1>2, QuietTransaction DEF DeleteListed, Delete, Transactions
<1>3. CASE SaveExec(c) \/ BindExec(c) \/ UnbindExec(c) \/ DeleteExec(c)
  BY <1>3, QuietReturn DEF SaveExec, BindExec, UnbindExec, DeleteExec
<1> QED BY <1>1, <1>2, <1>3 DEF Exec

LEMMA QuietManager ==
    ASSUME TopologyInv, NEW c \in Clients, Manager(c)
    PROVE  Quiet
<1>1. ASSUME NEW p, NEW policy, Save(c, p, policy) PROVE Quiet
  BY <1>1, QuietTransaction DEF Save, Transactions
<1>2. ASSUME NEW p, NEW caller, NEW todo, Become(c, Delisting(p, caller, todo))
      PROVE  Quiet
  <2>1. Delisting(p, caller, todo).call # "produce"
    BY DEF Delisting
  <2> QED BY <1>2, <2>1, QuietCall
<1>3. ASSUME NEW p, ManagerDelete(c, p) \/ NamespaceExchange(c, p) PROVE Quiet
  BY <1>2, <1>3, QuietReturn DEF ManagerDelete, NamespaceExchange
<1>4. CASE RemoveCount(c)
  <2> DEFINE r == [op[c] EXCEPT !.phase = "remove"]
  <2>1. op[c].call = "remove" /\ (Return(c) \/ Become(c, r))
    BY <1>4 DEF RemoveCount
  <2>2. RemoveFields(op[c])
    BY <2>1 DEF TopologyInv, OpTyped, Fielded
  <2>3. r.call = "remove"
    BY <2>1, <2>2, SMTT(30) DEF RemoveFields
  <2> HIDE DEF r
  <2> QED BY <2>1, <2>3, QuietCall, QuietReturn
<1>5. CASE Remove(c)
  <2> DEFINE r == [call |-> "namespace", phase |-> "exchanges",
                   todo |-> op[c].todo \ {op[c].p}, watch |-> {}]
  <2>1. Return(c) \/ Become(c, r)
    BY <1>5 DEF Remove
  <2>2. r.call # "produce"
    OBVIOUS
  <2> HIDE DEF r
  <2> QED BY <2>1, <2>2, QuietCall, QuietReturn
<1>6. CASE NamespaceDelete(c)
  <2> DEFINE r == [call |-> "namespace", phase |-> "queues", todo |-> queues,
                   watch |-> {}]
  <2>1. Become(c, r)
    BY <1>6 DEF NamespaceDelete
  <2>2. r.call # "produce"
    OBVIOUS
  <2> HIDE DEF r
  <2> QED BY <2>1, <2>2, QuietCall
<1>7. CASE NamespaceExchanges(c)
  <2> DEFINE r == [op[c] EXCEPT !.phase = "exchanges", !.todo = listed]
  <2>1. Become(c, r) /\ op[c].phase = "queues"
    BY <1>7 DEF NamespaceExchanges
  <2>2. op[c].call = "namespace" /\ NamespaceFields(op[c])
    BY <2>1, NamespaceOp DEF TopologyInv
  <2>3. r.call = "namespace"
    BY <2>2, SMTT(30) DEF NamespaceFields
  <2> HIDE DEF r
  <2> QED BY <2>1, <2>3, QuietCall
<1>8. CASE NamespaceRemove(c)
  BY <1>8, QuietReturn DEF NamespaceRemove
<1>9. ASSUME NEW q, NamespaceQueue(c, q) PROVE Quiet
  <2> DEFINE r == [op[c] EXCEPT !.todo = @ \ {q}]
  <2>1. op[c].phase = "queues" /\ (Return(c) \/ Become(c, r))
    BY <1>9 DEF NamespaceQueue
  <2>2. op[c].call = "namespace" /\ NamespaceFields(op[c])
    BY <2>1, NamespaceOp DEF TopologyInv
  <2>3. r.call = "namespace"
    BY <2>2, SMTT(30) DEF NamespaceFields
  <2> HIDE DEF r
  <2> QED BY <2>1, <2>3, QuietCall, QuietReturn
<1> QED BY <1>1, <1>3, <1>4, <1>5, <1>6, <1>7, <1>8, <1>9 DEF Manager

(* A step of a producer: the others are kept, and it is Underway itself.   *)
LEMMA MovingRouting ==
    ASSUME TopologyInv, RoutingInv, Goal, Observe, NEW c \in Clients, NEW r,
           Become(c, r), Underway(op[c], steady[c], ever[c])'
    PROVE  RoutingInv'
<1>1. op = [d \in Clients |-> op[d]]
  BY DEF TopologyInv, OpTyped
<1>2. \A d \in Clients \ {c} : op'[d] = op[d]
  BY <1>1 DEF Become
<1>3. ASSUME NEW d \in Clients, op'[d].call = "produce"
      PROVE  Underway(op[d], steady[d], ever[d])'
  <2>1. CASE d = c
    BY <2>1
  <2>2. CASE d # c
    <3>1. op'[d] = op[d]
      BY <1>2, <2>2
    <3> QED BY <1>3, <3>1, OthersKept
  <2> QED BY <2>1, <2>2
<1> QED BY <1>3, ObserveStep DEF RoutingInv

LEMMA StartFacts ==
    ASSUME TopologyInv, RoutingInv, Observe, NEW c \in Clients,
           NEW p, NEW m, NEW todo, NEW matched, NEW phase,
           Produces(c, p, Producing(p, m, todo, matched, phase))
    PROVE  /\ op'[c].p = p /\ op'[c].m = m /\ op'[c].todo = todo
           /\ op'[c].left = matched /\ op'[c].got = Once({})
           /\ op'[c].phase = phase
           /\ steady'[c] = Routes(p, m)' /\ ever'[c] = Routes(p, m)'
           /\ UNCHANGED <<keys, bound>>
<1> DEFINE r == Producing(p, m, todo, matched, phase)
<1>1. Become(c, r) /\ UNCHANGED <<keys, bound>> /\ op[c].call # "produce"
  <2>1. Become(c, r) /\ UNCHANGED <<keys, bound>>
    BY DEF Produces, store
  <2>2. op[c] = Idle \/ op[c].call = "none"
    BY DEF Produces, Enters
  <2>3. Idle.call = "idle"
    BY DEF Idle
  <2> QED BY <2>1, <2>2, <2>3
<1>2. /\ r.call = "produce" /\ r.p = p /\ r.m = m /\ r.todo = todo
      /\ r.left = matched /\ r.got = Once({}) /\ r.phase = phase
  BY DEF Producing, Once
<1> HIDE DEF r
<1>3. op'[c] = r
  <2>1. op = [d \in Clients |-> op[d]]
    BY DEF TopologyInv, OpTyped
  <2> QED BY <1>1, <2>1 DEF Become
<1>4. steady'[c] = Going(c)' /\ ever'[c] = Going(c)'
  BY <1>1, <1>2, <1>3, ObserveStep
<1>5. Going(c)' = Routes(p, m)'
  BY <1>2, <1>3 DEF Going
<1> QED BY <1>1, <1>2, <1>3, <1>4, <1>5

(* A direct or a fanout exchange: the queues of one key, all at once.      *)
LEMMA SendStarts ==
    ASSUME TopologyInv, RoutingInv, Goal, Observe, NEW c \in Clients,
           NEW p \in Params, NEW m \in Messages, NEW k \in Keys,
           (p[2] = "direct" /\ k = m) \/ (p[2] = "fanout" /\ k = NoKey),
           Produces(c, p, Producing(p, m, {}, Once(bound[p][k]), "send"))
    PROVE  RoutingInv'
<1>1. /\ op'[c].left = Once(bound[p][k]) /\ op'[c].got = Once({})
      /\ op'[c].phase = "send"
      /\ steady'[c] = Routes(p, m)' /\ ever'[c] = Routes(p, m)'
      /\ UNCHANGED <<keys, bound>>
  BY StartFacts
<1>2. ASSUME NEW q \in Queues, q \in bound[p][k]
      PROVE  <<k, q>> \in Routes(p, m)'
  <2>1. Serves(p, m, k, q)'
    BY <1>1, <1>2 DEF Serves
  <2> QED BY <2>1, BindingServes
<1>3. ASSUME NEW b \in Routes(p, m)'
      PROVE  b[2] \in Queues /\ b[2] \in bound[p][k]
  <2>1. b[2] \in Queues /\ Serves(p, m, b[1], b[2])'
    BY BindingServes
  <2> QED BY <1>1, <2>1 DEF Serves
<1>4. ASSUME NEW S
      PROVE  /\ Once(S) \in [Queues -> {0, 1}]
             /\ \A q \in Queues : Once(S)[q] = IF q \in S THEN 1 ELSE 0
  BY SMTT(30) DEF Once
<1> DEFINE B == bound[p][k]
<1> DEFINE R == Routes(p, m)'
<1> HIDE DEF B, R
<1>5. /\ op'[c].left = Once(B) /\ op'[c].got = Once({})
      /\ op'[c].phase = "send" /\ steady'[c] = R /\ ever'[c] = R
  BY <1>1 DEF B, R
<1>6. ASSUME NEW q \in Queues
      PROVE  /\ Once(B)[q] = 0 \/ Once({})[q] = 0
             /\ Once(B)[q] = 1 \/ Once({})[q] = 1 => \E b \in R : b[2] = q
  <2>1. Once({})[q] = 0
    BY <1>4
  <2>2. Once(B)[q] = 1 => q \in B
    BY <1>4, SMTT(30)
  <2>3. q \in B => <<k, q>> \in R /\ <<k, q>>[2] = q
    BY <1>2 DEF B, R
  <2> QED BY <2>1, <2>2, <2>3, SMTT(30)
<1>7. \A b \in R : Once(B)[b[2]] = 1
  BY <1>3, <1>4 DEF B, R
<1>8. Underway(op[c], steady[c], ever[c])'
  <2>1. "send" # "match" /\ "send" # "sent"
    OBVIOUS
  <2>2. Once(B) \in [Queues -> {0, 1}] /\ Once({}) \in [Queues -> {0, 1}]
    BY <1>4
  <2> QED BY <1>5, <1>6, <1>7, <2>1, <2>2 DEF Underway
<1> QED BY <1>8, MovingRouting DEF Produces

(* A topic exchange: the patterns that match, which are those that fit.    *)
LEMMA MatchStarts ==
    ASSUME TopologyInv, RoutingInv, Goal, Observe, NEW c \in Clients,
           NEW p \in Params, NEW m \in Messages, p[2] = "topic",
           Produces(c, p, Producing(p, m, {k \in keys[p] : matchTopicTokens(m, k)},
                                    Once({}), "match"))
    PROVE  RoutingInv'
<1> DEFINE todo == {k \in keys[p] : matchTopicTokens(m, k)}
<1>1. /\ op'[c].p = p /\ op'[c].m = m /\ op'[c].todo = todo
      /\ op'[c].left = Once({}) /\ op'[c].got = Once({})
      /\ op'[c].phase = "match"
      /\ steady'[c] = Routes(p, m)' /\ ever'[c] = Routes(p, m)'
      /\ UNCHANGED <<keys, bound>>
  BY StartFacts
<1>2. keys[p] \subseteq Keys \ {NoKey}
  BY DEF TopologyInv, KeysExact
<1>3. ASSUME NEW k \in Keys PROVE matchTopicTokens(m, k) <=> Fits(m, k)
  <2>1. m \in Seq(STRING) /\ k \in Seq(STRING)
    <3>1. NoKey \in Seq(STRING)
      BY SMTT(30) DEF NoKey
    <3> QED BY <3>1, TopologyAssumption DEF Keys
  <2>2. Len(m) \in Nat /\ Len(k) \in Nat
    BY <2>1, SMTT(30)
  <2> QED BY <2>2, MatchingMeansFits
<1>4. todo = {k \in keys[p] : Fits(m, k)}
  BY <1>2, <1>3
<1>5. ASSUME NEW k \in todo, NEW q \in bound'[p][k]
      PROVE  <<k, q>> \in Routes(p, m)'
  <2>1. k \in Keys /\ k \in keys[p] /\ Fits(m, k)
    BY <1>2, <1>4
  <2>2. q \in Queues
    <3>1. q \in bound[p][k]
      BY <1>1
    <3>2. bound \in [Params -> [Keys -> SUBSET Queues]]
      BY DEF TopologyInv, StoreTyped
    <3> QED BY <2>1, <3>1, <3>2
  <2>3. Serves(p, m, k, q)'
    BY <1>1, <2>1 DEF Serves
  <2> QED BY <2>1, <2>2, <2>3, BindingServes
<1>6. ASSUME NEW b \in Routes(p, m)' PROVE b[1] \in todo
  <2>1. Serves(p, m, b[1], b[2])'
    BY BindingServes
  <2>2. b[1] \in keys[p] /\ Fits(m, b[1])
    BY <1>1, <2>1 DEF Serves
  <2> QED BY <1>4, <2>2
<1>7. todo \subseteq {k \in Keys \ {NoKey} : Fits(m, k)}
  BY <1>2, <1>4
<1>8. /\ Once({}) \in [Queues -> {0, 1}]
      /\ \A q \in Queues : Once({})[q] = 0
  BY SMTT(30) DEF Once
<1> DEFINE R == Routes(p, m)'
<1> HIDE DEF todo, R
<1>9. Underway(op[c], steady[c], ever[c])'
  <2>1. /\ op'[c].p = p /\ op'[c].m = m /\ op'[c].todo = todo
        /\ op'[c].left = Once({}) /\ op'[c].got = Once({})
        /\ op'[c].phase = "match" /\ steady'[c] = R /\ ever'[c] = R
    BY <1>1 DEF R
  <2>2. /\ \A k \in todo : \A q \in bound'[p][k] : <<k, q>> \in R
        /\ \A b \in R : b[1] \in todo
    BY <1>5, <1>6 DEF R
  <2>3. \A q \in Queues : Once({})[q] # 1
    BY <1>8, SMTT(30)
  <2> QED BY <1>7, <1>8, <2>1, <2>2, <2>3 DEF Underway
<1> QED BY <1>9, MovingRouting DEF Produces

(* A producer that goes on.                                                *)
LEMMA OnwardFacts ==
    ASSUME TopologyInv, RoutingInv, Observe, NEW c \in Clients,
           op[c].call = "produce", NEW todo, NEW left, NEW got, NEW phase,
           Become(c, Onward(op[c], todo, left, got, phase))
    PROVE  /\ op'[c].p = op[c].p /\ op'[c].m = op[c].m /\ op'[c].todo = todo
           /\ op'[c].left = left /\ op'[c].got = got /\ op'[c].phase = phase
           /\ Underway(op[c], steady[c], ever[c])
           /\ steady'[c] \subseteq steady[c] /\ ever[c] \subseteq ever'[c]
           /\ \A b \in steady'[c] :
                  b[2] \in Queues /\ b[2] \in bound'[op[c].p][b[1]]
<1> DEFINE p == op[c].p
           m == op[c].m
           r == Onward(op[c], todo, left, got, phase)
<1>1. /\ r.call = "produce" /\ r.p = p /\ r.m = m /\ r.todo = todo
      /\ r.left = left /\ r.got = got /\ r.phase = phase
  BY DEF Onward, ProduceRecord
<1> HIDE DEF r
<1>2. op'[c] = r
  <2>1. op = [d \in Clients |-> op[d]]
    BY DEF TopologyInv, OpTyped
  <2> QED BY <2>1 DEF Become, r
<1>3. /\ steady'[c] = steady[c] \intersect Going(c)'
      /\ ever'[c] = ever[c] \union Going(c)'
  BY <1>1, <1>2, ObserveStep
<1>4. Underway(op[c], steady[c], ever[c])
  BY DEF RoutingInv
<1>5. ASSUME NEW b \in Going(c)'
      PROVE  b[2] \in Queues /\ b[2] \in bound'[p][b[1]]
  BY <1>1, <1>2, <1>5 DEF Going, Routes
<1>6. \A b \in steady'[c] : b[2] \in Queues /\ b[2] \in bound'[p][b[1]]
  BY <1>3, <1>5
<1> QED BY <1>1, <1>2, <1>3, <1>4, <1>6

(* The queues of one more pattern.                                         *)
LEMMA MatchMoves ==
    ASSUME TopologyInv, RoutingInv, Goal, Observe, NEW c \in Clients,
           NEW k, TopicBoundQueues(c, k)
    PROVE  RoutingInv'
<1> DEFINE p == op[c].p
           B == bound[p][k]
           left == Seen(op[c].left, B)
           todo == op[c].todo \ {k}
           next == IF todo = {} THEN "send" ELSE "match"
           r == Onward(op[c], todo, left, op[c].got, next)
<1>1. op[c].phase = "match" /\ k \in op[c].todo /\ UNCHANGED bound
  BY DEF TopicBoundQueues, store
<1>2. op[c].call = "produce"
  BY <1>1, ProducingOp DEF TopologyInv
<1>3. CASE Return(c)
  BY <1>3, QuietReturn, QuietRouting
<1>4. CASE Become(c, r)
  <2> HIDE DEF left, todo, next
  <2>1. /\ op'[c].p = p /\ op'[c].m = op[c].m /\ op'[c].todo = todo
        /\ op'[c].left = left /\ op'[c].got = op[c].got /\ op'[c].phase = next
        /\ Underway(op[c], steady[c], ever[c])
        /\ steady'[c] \subseteq steady[c] /\ ever[c] \subseteq ever'[c]
        /\ \A b \in steady'[c] : b[2] \in Queues /\ b[2] \in bound'[p][b[1]]
    BY <1>2, <1>4, OnwardFacts
  <2>2. /\ op[c].left \in [Queues -> {0, 1}]
        /\ \A q \in Queues :
               op[c].left[q] = 1 \/ op[c].got[q] = 1
                   => \E b \in ever[c] : b[2] = q
        /\ p[2] = "topic" /\ op[c].got = Once({})
        /\ op[c].todo \subseteq {x \in Keys \ {NoKey} : Fits(op[c].m, x)}
        /\ \A x \in op[c].todo : \A q \in bound[p][x] : <<x, q>> \in ever[c]
        /\ \A b \in steady[c] : b[1] \in op[c].todo \/ op[c].left[b[2]] = 1
    BY <1>1, <2>1 DEF Underway
  <2>3. /\ left \in [Queues -> {0, 1}]
        /\ \A q \in Queues : left[q] = IF q \in B THEN 1 ELSE op[c].left[q]
    BY <2>2, SMTT(30) DEF left, Seen
  <2>4. Once({}) \in [Queues -> {0, 1}] /\ \A q \in Queues : Once({})[q] = 0
    BY SMTT(30) DEF Once
  <2>5. ASSUME NEW q \in Queues, left[q] = 1 \/ op[c].got[q] = 1
        PROVE  \E b \in ever'[c] : b[2] = q
    <3>1. CASE q \in B
      <4>1. <<k, q>> \in ever'[c] /\ <<k, q>>[2] = q
        BY <1>1, <2>1, <2>2, <3>1
      <4> QED BY <4>1
    <3>2. CASE q \notin B
      BY <2>1, <2>2, <2>3, <2>5, <3>2
    <3> QED BY <3>1, <3>2
  <2>6. ASSUME NEW b \in steady'[c] PROVE b[1] \in todo \/ left[b[2]] = 1
    <3>1. b[2] \in Queues /\ b[2] \in bound[p][b[1]]
          /\ (b[1] \in op[c].todo \/ op[c].left[b[2]] = 1)
      BY <1>1, <2>1, <2>2
    <3> QED BY <2>3, <3>1 DEF todo
  <2>7. /\ todo \subseteq {x \in Keys \ {NoKey} : Fits(op[c].m, x)}
        /\ \A x \in todo : \A q \in bound'[p][x] : <<x, q>> \in ever'[c]
    BY <1>1, <2>1, <2>2 DEF todo
  <2>8. /\ next = "match" \/ (next = "send" /\ todo = {})
        /\ next # "sent"
    BY DEF next
  <2>9. /\ op'[c].got = Once({}) /\ op'[c].left \in [Queues -> {0, 1}]
        /\ op'[c].got \in [Queues -> {0, 1}]
        /\ \A q \in Queues :
               /\ op'[c].left[q] = 0 \/ op'[c].got[q] = 0
               /\ op'[c].left[q] = 1 \/ op'[c].got[q] = 1
                      => \E b \in ever'[c] : b[2] = q
    <3>1. op'[c].got = Once({}) /\ op'[c].left = left /\ op[c].got = Once({})
      BY <2>1, <2>2
    <3>2. \A q \in Queues : left[q] = 1 \/ Once({})[q] = 1
                               => \E b \in ever'[c] : b[2] = q
      BY <2>5, <3>1
    <3> QED BY <2>3, <2>4, <3>1, <3>2
  <2>10. op'[c].phase # "sent" /\ op'[c].p[2] = "topic"
    BY <2>1, <2>2, <2>8
  <2>11. /\ op'[c].todo \subseteq {x \in Keys \ {NoKey} : Fits(op'[c].m, x)}
         /\ \A x \in op'[c].todo : \A q \in bound'[op'[c].p][x] :
                <<x, q>> \in ever'[c]
         /\ \A b \in steady'[c] : b[1] \in op'[c].todo \/ op'[c].left[b[2]] = 1
    BY <2>1, <2>6, <2>7
  <2>12. op'[c].phase # "match" => \A b \in steady'[c] : op'[c].left[b[2]] = 1
    BY <2>1, <2>6, <2>8
  <2>13. Underway(op[c], steady[c], ever[c])'
    BY <2>9, <2>10, <2>11, <2>12 DEF Underway
  <2> QED BY <1>4, <2>13, MovingRouting
<1> QED BY <1>3, <1>4, MatchedEffect DEF TopologyInv

(* One more queue is served.                                               *)
LEMMA SendMoves ==
    ASSUME TopologyInv, RoutingInv, Goal, Observe, NEW c \in Clients,
           NEW q \in Queues, ProduceToQueue(c, q)
    PROVE  RoutingInv'
<1> DEFINE left == [op[c].left EXCEPT ![q] = @ - 1]
           got == [op[c].got EXCEPT ![q] = @ + 1]
           next == IF left = Once({}) THEN "sent" ELSE "send"
           todo == op[c].todo
           r == Onward(op[c], todo, left, got, next)
<1>1. op[c].phase = "send" /\ op[c].left[q] > 0 /\ UNCHANGED bound
  BY DEF ProduceToQueue
<1>2. op[c].call = "produce"
  BY <1>1, ProducingOp DEF TopologyInv
<1>3. Become(c, r)
  BY ProducedEffect DEF TopologyInv
<1> HIDE DEF left, got, next, todo
<1>4. /\ op'[c].left = left /\ op'[c].got = got /\ op'[c].phase = next
      /\ Underway(op[c], steady[c], ever[c])
      /\ steady'[c] \subseteq steady[c] /\ ever[c] \subseteq ever'[c]
      /\ \A b \in steady'[c] : b[2] \in Queues
  <2>1. /\ op'[c].p = op[c].p /\ op'[c].m = op[c].m /\ op'[c].todo = todo
        /\ op'[c].left = left /\ op'[c].got = got /\ op'[c].phase = next
        /\ Underway(op[c], steady[c], ever[c])
        /\ steady'[c] \subseteq steady[c] /\ ever[c] \subseteq ever'[c]
        /\ \A b \in steady'[c] :
               b[2] \in Queues /\ b[2] \in bound'[op[c].p][b[1]]
    BY <1>2, <1>3, OnwardFacts
  <2> QED BY <2>1
<1>5. /\ op[c].left \in [Queues -> {0, 1}] /\ op[c].got \in [Queues -> {0, 1}]
      /\ \A x \in Queues :
             /\ op[c].left[x] = 0 \/ op[c].got[x] = 0
             /\ op[c].left[x] = 1 \/ op[c].got[x] = 1
                    => \E b \in ever[c] : b[2] = x
      /\ \A b \in steady[c] : op[c].left[b[2]] = 1 \/ op[c].got[b[2]] = 1
  BY <1>1, <1>4 DEF Underway
<1>6. /\ left \in [Queues -> {0, 1}] /\ got \in [Queues -> {0, 1}]
      /\ op[c].left[q] = 1 /\ left[q] = 0 /\ got[q] = 1
      /\ \A x \in Queues \ {q} :
             left[x] = op[c].left[x] /\ got[x] = op[c].got[x]
  <2> DEFINE l == op[c].left
             g == op[c].got
  <2>1. l \in [Queues -> {0, 1}] /\ g \in [Queues -> {0, 1}] /\ l[q] > 0
        /\ (l[q] = 0 \/ g[q] = 0)
    BY <1>1, <1>5
  <2>2. left = [l EXCEPT ![q] = @ - 1] /\ got = [g EXCEPT ![q] = @ + 1]
    BY DEF left, got
  <2> HIDE DEF l, g
  <2>3. l[q] = 1 /\ g[q] = 0
    BY <2>1, SMTT(30)
  <2>4. /\ left \in [Queues -> {0, 1}] /\ got \in [Queues -> {0, 1}]
        /\ left[q] = 0 /\ got[q] = 1
        /\ \A x \in Queues \ {q} : left[x] = l[x] /\ got[x] = g[x]
    BY <2>1, <2>2, <2>3, SMTT(30)
  <2> QED BY <2>3, <2>4 DEF l, g
<1>7. ASSUME NEW x \in Queues
      PROVE  /\ left[x] = 0 \/ got[x] = 0
             /\ left[x] = 1 \/ got[x] = 1 => \E b \in ever'[c] : b[2] = x
  <2>1. \E b \in ever[c] : b[2] = q
    BY <1>5, <1>6
  <2>2. CASE x = q
    BY <1>4, <1>6, <2>1, <2>2
  <2>3. CASE x # q
    BY <1>4, <1>5, <1>6, <2>3
  <2> QED BY <2>2, <2>3
<1>8. ASSUME NEW b \in steady'[c] PROVE left[b[2]] = 1 \/ got[b[2]] = 1
  <2>1. b[2] \in Queues /\ (op[c].left[b[2]] = 1 \/ op[c].got[b[2]] = 1)
    BY <1>4, <1>5
  <2> QED BY <1>6, <2>1
<1>9. next # "match" /\ (next = "sent" => left = Once({}))
  BY DEF next
<1>10. Underway(op[c], steady[c], ever[c])'
  BY <1>4, <1>6, <1>7, <1>8, <1>9 DEF Underway
<1> QED BY <1>3, <1>10, MovingRouting

LEMMA RoutingInit == Init => RoutingInv
<1> SUFFICES ASSUME Init PROVE RoutingInv
  OBVIOUS
<1>1. \A c \in Clients : op[c] = Idle
  BY DEF Init
<1>2. Idle.call # "produce"
  BY DEF Idle
<1>3. /\ steady \in [Clients -> SUBSET (Keys \X Queues)]
      /\ ever \in [Clients -> SUBSET (Keys \X Queues)]
  BY DEF Init
<1> QED BY <1>1, <1>2, <1>3 DEF RoutingInv

LEMMA DirectRouting ==
    ASSUME TopologyInv, RoutingInv, Goal, Observe, NEW c \in Clients, Direct(c)
    PROVE  RoutingInv'
<1> PICK e \in Named("direct") :
       \/ \E q \in Queues, k \in RoutingKeys :
           DirectBindQueue(c, q, e, k) \/ DirectUnbindQueue(c, q, e, k)
       \/ DirectDelete(c, e)
       \/ \E m \in Messages : DirectMatchQueues(c, e, m)
  BY DEF Direct
<1> DEFINE p == <<e, "direct">>
<1>1. p \in Params /\ p[2] = "direct"
  BY NamedParams
<1>2. ASSUME NEW q, NEW k,
             DirectBindQueue(c, q, e, k) \/ DirectUnbindQueue(c, q, e, k)
      PROVE  Quiet
  BY <1>2, QuietTransaction DEF DirectBindQueue, DirectUnbindQueue, Transactions
<1>3. DirectDelete(c, e) => Quiet
  BY QuietLists DEF DirectDelete
<1>4. ASSUME NEW m \in Messages, DirectMatchQueues(c, e, m) PROVE RoutingInv'
  <2>1. /\ m \in RoutingKeys
        /\ Produces(c, p, Producing(p, m, {}, Once(bound[p][m]), "send"))
    BY <1>4 DEF DirectMatchQueues
  <2>2. m \in Keys
    BY <2>1, KeysIncluded
  <2> HIDE DEF p
  <2> QED BY <1>1, <2>1, <2>2, SendStarts
<1> QED BY <1>2, <1>3, <1>4, QuietRouting

LEMMA TopicRouting ==
    ASSUME TopologyInv, RoutingInv, Goal, Observe, NEW c \in Clients, Topic(c)
    PROVE  RoutingInv'
<1> PICK e \in Named("topic") :
       \/ \E q \in Queues, k \in Patterns :
           TopicBindQueue(c, q, e, k) \/ TopicUnbindQueue(c, q, e, k)
       \/ TopicDelete(c, e)
       \/ \E m \in Messages : TopicMatchQueues(c, e, m)
  BY DEF Topic
<1> DEFINE p == <<e, "topic">>
<1>1. p \in Params /\ p[2] = "topic"
  BY NamedParams
<1>2. ASSUME NEW q, NEW k,
             TopicBindQueue(c, q, e, k) \/ TopicUnbindQueue(c, q, e, k)
      PROVE  Quiet
  BY <1>2, QuietTransaction DEF TopicBindQueue, TopicUnbindQueue, Transactions
<1>3. TopicDelete(c, e) => Quiet
  BY QuietLists DEF TopicDelete
<1>4. ASSUME NEW m \in Messages, TopicMatchQueues(c, e, m) PROVE RoutingInv'
  <2>1. Produces(c, p, Producing(p, m, {k \in keys[p] : matchTopicTokens(m, k)},
                                 Once({}), "match"))
    BY <1>4 DEF TopicMatchQueues
  <2> HIDE DEF p
  <2> QED BY <1>1, <2>1, MatchStarts
<1> QED BY <1>2, <1>3, <1>4, QuietRouting

LEMMA FanoutRouting ==
    ASSUME TopologyInv, RoutingInv, Goal, Observe, NEW c \in Clients, Fanout(c)
    PROVE  RoutingInv'
<1> PICK e \in Named("fanout") :
       \/ \E q \in Queues : FanoutBindQueue(c, q, e) \/ FanoutUnbindQueue(c, q, e)
       \/ FanoutDelete(c, e)
       \/ \E m \in Messages : FanoutMatchQueues(c, e, m)
  BY DEF Fanout
<1> DEFINE p == <<e, "fanout">>
<1>1. p \in Params /\ p[2] = "fanout"
  BY NamedParams
<1>2. ASSUME NEW q, FanoutBindQueue(c, q, e) \/ FanoutUnbindQueue(c, q, e)
      PROVE  Quiet
  BY <1>2, QuietTransaction DEF FanoutBindQueue, FanoutUnbindQueue, Transactions
<1>3. FanoutDelete(c, e) => Quiet
  BY QuietTransaction DEF FanoutDelete, Delete, Transactions
<1>4. ASSUME NEW m \in Messages, FanoutMatchQueues(c, e, m) PROVE RoutingInv'
  <2>1. Produces(c, p, Producing(p, m, {}, Once(bound[p][NoKey]), "send"))
    BY <1>4 DEF FanoutMatchQueues
  <2>2. NoKey \in Keys
    BY KeysIncluded
  <2> HIDE DEF p
  <2> QED BY <1>1, <2>1, <2>2, SendStarts
<1> QED BY <1>2, <1>3, <1>4, QuietRouting

LEMMA RoutingStep == TopologyInv /\ RoutingInv /\ Next => RoutingInv'
<1> SUFFICES ASSUME TopologyInv, RoutingInv, Next PROVE RoutingInv'
  OBVIOUS
<1>1. Goal
  BY TopologyStep
<1>2. Observe
  BY DEF Next
<1>3. ASSUME NEW c \in Clients, Direct(c) \/ Topic(c) \/ Fanout(c)
      PROVE  RoutingInv'
  BY <1>1, <1>2, <1>3, DirectRouting, TopicRouting, FanoutRouting
<1>4. ASSUME NEW c \in Clients, Manager(c) \/ Exec(c) PROVE RoutingInv'
  BY <1>1, <1>2, <1>4, QuietManager, QuietExec, QuietRouting
<1>5. ASSUME NEW c \in Clients, Producer(c) PROVE RoutingInv'
  <2>1. CASE \E k \in Patterns : TopicBoundQueues(c, k)
    BY <1>1, <1>2, <2>1, MatchMoves
  <2>2. CASE \E q \in Queues : ProduceToQueue(c, q)
    BY <1>1, <1>2, <2>2, SendMoves
  <2>3. CASE ProduceFails(c) \/ ProduceReturns(c)
    BY <1>1, <1>2, <2>3, QuietReturn, QuietRouting DEF ProduceFails, ProduceReturns
  <2> QED BY <1>5, <2>1, <2>2, <2>3 DEF Producer
<1>6. ASSUME NEW q \in Queues, CreateQueue(q) \/ DeleteQueue(q) \/ Drain(q)
      PROVE  RoutingInv'
  <2>1. Quiet
    BY <1>6 DEF CreateQueue, DeleteQueue, Drain, Quiet
  <2> QED BY <1>1, <1>2, <2>1, QuietRouting
<1> QED BY <1>3, <1>4, <1>5, <1>6 DEF Next

(* A message produced to an exchange without an error is in every queue    *)
(* whose binding fitted it all through the call, by what patterns mean, in *)
(* no queue that had no such binding at any moment of it, and in none      *)
(* twice (MatchQueues of the stores, produceToExchange).                   *)
THEOREM MessagesAreRoutedRight == Spec => []RoutedRight
<1>1. TopologyInv /\ RoutingInv => RoutedRight
  <2> SUFFICES ASSUME TopologyInv, RoutingInv, NEW c \in Clients,
                      op[c].phase = "sent"
               PROVE  /\ \A r \in steady[c] : op[c].got[r[2]] = 1
                      /\ \A q \in Queues :
                          /\ op[c].got[q] =< 1
                          /\ op[c].got[q] = 1 => \E r \in ever[c] : r[2] = q
    BY DEF RoutedRight
  <2>1. op[c].call = "produce"
    BY ProducingOp DEF TopologyInv
  <2>2. Underway(op[c], steady[c], ever[c])
    BY <2>1 DEF RoutingInv
  <2>3. op[c].got \in [Queues -> {0, 1}] /\ op[c].left = Once({})
    BY <2>2 DEF Underway
  <2>4. ASSUME NEW q \in Queues PROVE op[c].got[q] =< 1
    <3>1. op[c].got[q] \in {0, 1}
      BY <2>3
    <3> QED BY <3>1, SMTT(30)
  <2>5. ASSUME NEW r \in steady[c] PROVE op[c].got[r[2]] = 1
    <3>1. r[2] \in Queues
      <4>1. steady[c] \in SUBSET (Keys \X Queues)
        BY DEF RoutingInv
      <4> QED BY <4>1, SMTT(30)
    <3>2. Once({})[r[2]] # 1
      BY <3>1, SMTT(30) DEF Once
    <3> QED BY <2>2, <2>3, <3>2 DEF Underway
  <2> QED BY <2>2, <2>4, <2>5 DEF Underway
<1>2. TopologyInv /\ RoutingInv /\ [Next]_vars => RoutingInv'
  <2>1. ASSUME RoutingInv, UNCHANGED vars PROVE RoutingInv'
    <3>1. UNCHANGED <<bound, op, steady, ever>>
      BY <2>1 DEF vars
    <3>2. ASSUME NEW c \in Clients, op[c].call = "produce"
          PROVE  Underway(op[c], steady[c], ever[c])'
      <4>1. Underway(op[c], steady[c], ever[c])
        BY <2>1, <3>2 DEF RoutingInv
      <4> QED BY <3>1, <4>1, SMTT(30) DEF Underway
    <3> QED BY <2>1, <3>1, <3>2 DEF RoutingInv
  <2> QED BY <2>1, RoutingStep
<1> QED BY <1>1, <1>2, RoutingInit, TopologyInvariant, PTL DEF Spec

=============================================================================
