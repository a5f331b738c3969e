------------------------ MODULE ConsumerGroupsProofs ------------------------
(***************************************************************************)
(* The safety properties of consumer groups, for any number of consumers   *)
(* and groups and without a bound on calls, edits and faults.              *)
(***************************************************************************)
EXTENDS ConsumerGroups, FiniteSetTheorems, SequenceTheorems, TLAPS

USE ZenonT(30)

(* The bounds play no part: they only keep TLC's instances finite.         *)
GroupShape ==
    /\ groups \subseteq Groups
    /\ members \in [Groups -> SUBSET Consumers]
    /\ registered \subseteq Consumers
    /\ pending \in [Groups -> Nat]
    /\ retrying \in [Groups -> Nat]
    /\ processing \in [Consumers -> Nat]
    /\ consumer \in [Consumers -> {"off", "announcing", "prepared", "running",
                                   "leaving"}]
    /\ dead \subseteq Consumers
    /\ reaping = [who |-> reaping.who, step |-> reaping.step,
                  grouped |-> reaping.grouped]
    /\ reaping.who \in dead \cup {Nobody}

\* What a consumer that nobody took for dead can rely on.
Served(c) ==
    /\ c \in registered => c \in members[GroupOf(c)]
    /\ consumer[c] = "running" \/ processing[c] > 0 => c \in registered
    /\ c \in Anonymous /\ (\/ consumer[c] \in {"announcing", "prepared", "running"}
                           \/ processing[c] > 0)
          => c \in groups

MemberInv ==
    /\ GroupShape
    /\ \A c \in Consumers \ dead : Served(c)
    /\ \A c \in Anonymous : pending[c] > 0 => c \in groups

(* The group of a consumer is a group; a group named after a consumer is   *)
(* the ephemeral group of that consumer.                                   *)
LEMMA GroupFacts ==
    /\ \A c \in Consumers : GroupOf(c) \in Groups
    /\ \A c \in Consumers : c \in Groups => c \in Anonymous
    /\ \A c \in Anonymous : GroupOf(c) = c /\ c \in Consumers /\ c \notin Named
    /\ Nobody \notin Consumers
  BY GroupsAssumption DEF Groups, GroupOf

LEMMA InitMembers == Init => MemberInv
  BY GroupFacts, SMTT(30) DEF Init, MemberInv, GroupShape, Served, NotReaping

(* Steps that touch neither groups nor consumers, or only add groups.      *)
LEMMA MembersFrame ==
    ASSUME MemberInv, groups \subseteq groups', groups' \subseteq Groups,
           UNCHANGED <<members, registered, processing>>,
           UNCHANGED <<consumer, dead, reaping>>,
           pending' \in [Groups -> Nat], retrying' \in [Groups -> Nat],
           \A c \in Anonymous : pending'[c] > 0 => c \in groups'
    PROVE  MemberInv'
  BY DEF MemberInv, GroupShape, Served

LEMMA SaveDeleteMembers ==
    ASSUME MemberInv, NEW g \in Named, Save(g) \/ Delete(g)
    PROVE  MemberInv'
  <1>1. CASE Save(g)
    BY <1>1, MembersFrame
    DEF Save, MemberInv, GroupShape, Groups, messageVars, consumerVars
  <1>2. CASE Delete(g)
    <2>1. \A c \in Anonymous : c \in groups => c \in groups'
      BY <1>2, GroupFacts DEF Delete
    <2>2. groups' \subseteq Groups
      BY <1>2 DEF Delete, MemberInv, GroupShape
    <2> QED
      BY <1>2, <2>1, <2>2 DEF Delete, MemberInv, GroupShape, Served,
         messageVars, consumerVars
  <1> QED
    BY <1>1, <1>2

LEMMA JoinMembers ==
    ASSUME MemberInv, NEW c \in Consumers,
           PrepareConsumerGroup(c) \/ Announce(c) \/ SubscribeConsumer(c)
    PROVE  MemberInv'
  <1>1. CASE PrepareConsumerGroup(c)
    <2>1. groups' = groups \cup {GroupOf(c)}
          /\ (consumer' = [consumer EXCEPT ![c] = "prepared"]
              \/ consumer' = [consumer EXCEPT ![c] = "announcing"])
      BY <1>1 DEF PrepareConsumerGroup, Goto
    <2> QED
      BY <1>1, <2>1, GroupFacts, SMTT(30) DEF PrepareConsumerGroup, MemberInv,
         GroupShape, Served, messageVars
  <1>2. CASE Announce(c)
    BY <1>2, GroupFacts DEF Announce, Goto, MemberInv, GroupShape, Served,
       messageVars, groupVars
  <1>3. CASE SubscribeConsumer(c)
    BY <1>3, GroupFacts, SMTT(30) DEF SubscribeConsumer, Goto, MemberInv, GroupShape,
       Served, messageVars
  <1> QED
    BY <1>1, <1>2, <1>3

(* unsubscribe-consumer.lua takes nobody else out of a group, and nobody   *)
(* who holds messages.                                                     *)
LEMMA UnsubscribedFacts ==
    ASSUME GroupShape, NEW c \in Consumers, NEW M, Unsubscribed(c, M)
    PROVE  /\ registered' \subseteq registered
           /\ members' \in [Groups -> SUBSET Consumers]
           /\ \A d \in Consumers \ {c} :
                 /\ d \in registered' <=> d \in registered
                 /\ \A g \in Groups : d \in members'[g] <=> d \in members[g]
           /\ processing[c] > 0 => UNCHANGED <<registered, members>>
           /\ c \in registered' => UNCHANGED <<registered, members>>
  BY SMTT(30) DEF GroupShape, Unsubscribed

LEMMA LeaveMembers ==
    ASSUME MemberInv, NEW c \in Consumers,
           UnsubscribeConsumer(c) \/ DeleteEphemeral(c)
    PROVE  MemberInv'
  <1>1. CASE UnsubscribeConsumer(c)
    <2>1. Unsubscribed(c, {GroupOf(c)}) /\ consumer' = [consumer EXCEPT ![c] = "leaving"]
          /\ UNCHANGED <<groups, pending, retrying, processing, dead, reaping>>
      BY <1>1 DEF UnsubscribeConsumer, Goto, messageVars
    <2>2. GroupShape'
      BY <2>1, UnsubscribedFacts DEF MemberInv, GroupShape
    <2>3. ASSUME NEW d \in Consumers \ dead PROVE Served(d)'
      <3>1. CASE d = c
        BY <2>1, <2>3, <3>1, UnsubscribedFacts DEF MemberInv, GroupShape, Served
      <3>2. CASE d # c
        <4>1. Served(d) /\ GroupOf(d) \in Groups
          BY <2>3, GroupFacts DEF MemberInv
        <4>2. GroupShape
          BY DEF MemberInv
        <4>3. consumer'[d] = consumer[d]
          BY <2>1, <3>2, <4>2 DEF GroupShape
        <4> QED
          BY <2>1, <3>2, <4>1, <4>2, <4>3, UnsubscribedFacts DEF Served
      <3> QED
        BY <3>1, <3>2
    <2> QED
      BY <2>1, <2>2, <2>3 DEF MemberInv
  <1>2. CASE DeleteEphemeral(c)
    <2>1. /\ consumer[c] = "leaving" /\ consumer' = [consumer EXCEPT ![c] = "off"]
          /\ groups' \subseteq groups
          /\ \A g \in groups : g \in groups' \/
                (g = c /\ c \in Anonymous /\ members[c] = {} /\ pending[c] = 0)
          /\ UNCHANGED <<members, registered, pending, retrying, processing>>
          /\ UNCHANGED <<dead, reaping>>
      BY <1>2 DEF DeleteEphemeral, Goto, Deletable, messageVars
    <2>2. GroupShape'
      BY <2>1 DEF MemberInv, GroupShape
    <2>3. ASSUME NEW d \in Consumers \ dead PROVE Served(d)'
      <3>1. Served(d) /\ GroupShape
        BY <2>3 DEF MemberInv
      <3>2. CASE d = c
        BY <2>1, <2>3, <3>1, <3>2, GroupFacts DEF GroupShape, Served
      <3>3. CASE d # c
        BY <2>1, <2>3, <3>1, <3>3 DEF GroupShape, Served
      <3> QED
        BY <3>2, <3>3
    <2>4. \A d \in Anonymous : pending'[d] > 0 => d \in groups'
      BY <2>1, SMTT(30) DEF MemberInv
    <2> QED
      BY <2>1, <2>2, <2>3, <2>4 DEF MemberInv
  <1> QED
    BY <1>1, <1>2

LEMMA MessageMembers ==
    ASSUME MemberInv, NEW c \in Consumers, Take(c) \/ Settle(c)
    PROVE  MemberInv'
  <1>1. CASE Take(c)
    <2>1. /\ consumer[c] = "running" /\ pending[GroupOf(c)] > 0
          /\ pending' = [pending EXCEPT ![GroupOf(c)] = @ - 1]
          /\ processing' = [processing EXCEPT ![c] = @ + 1]
          /\ UNCHANGED <<groups, members, registered, retrying, consumer>>
          /\ UNCHANGED <<dead, reaping>>
      BY <1>1 DEF Take, groupVars, consumerVars
    <2>2. GroupShape'
      BY <2>1, GroupFacts, SMTT(30) DEF MemberInv, GroupShape
    <2>3. \A g \in Groups : pending'[g] <= pending[g]
      BY <2>1, GroupFacts, SMTT(30) DEF MemberInv, GroupShape
    <2>4. \A d \in Consumers \ dead : Served(d)'
      BY <2>1, GroupFacts DEF MemberInv, GroupShape, Served
    <2>5. \A d \in Anonymous : pending'[d] > 0 => d \in groups'
      BY <2>1, <2>2, <2>3 DEF MemberInv, GroupShape, Groups
    <2> QED
      BY <2>1, <2>2, <2>4, <2>5 DEF MemberInv
  <1>2. CASE Settle(c)
    <2>1. /\ processing[c] > 0
          /\ processing' = [processing EXCEPT ![c] = @ - 1]
          /\ \/ UNCHANGED retrying
             \/ retrying' = [retrying EXCEPT ![GroupOf(c)] = @ + 1]
          /\ UNCHANGED <<groups, members, registered, pending, consumer>>
          /\ UNCHANGED <<dead, reaping>>
      BY <1>2 DEF Settle, groupVars, consumerVars
    <2>2. GroupShape'
      BY <2>1, GroupFacts, SMTT(30) DEF MemberInv, GroupShape
    <2>3. \A d \in Consumers \ dead : Served(d)'
      BY <2>1 DEF MemberInv, GroupShape, Served
    <2> QED
      BY <2>1, <2>2, <2>3 DEF MemberInv
  <1> QED
    BY <1>1, <1>2

LEMMA RequeueMembers ==
    ASSUME MemberInv, NEW g \in Groups, Requeue(g)
    PROVE  MemberInv'
  <1>1. pending' \in [Groups -> Nat] /\ retrying' \in [Groups -> Nat]
    BY SMTT(30) DEF Requeue, MemberInv, GroupShape
  <1>2. \A c \in Anonymous : pending'[c] > 0 => c \in groups
    BY DEF Requeue, MemberInv, GroupShape, Groups
  <1> QED
    BY <1>1, <1>2, MembersFrame
    DEF Requeue, MemberInv, GroupShape, groupVars, consumerVars

LEMMA DispatchMembers ==
    ASSUME MemberInv, Dispatch
    PROVE  MemberInv'
  <1>1. \/ \E g \in groups : pending' = [pending EXCEPT ![g] = @ + 1]
        \/ UNCHANGED pending
    BY DEF Dispatch
  <1>2. pending' \in [Groups -> Nat]
    BY <1>1, SMTT(30) DEF MemberInv, GroupShape
  <1>3. \A c \in Anonymous : pending'[c] > 0 => c \in groups
    BY <1>1 DEF MemberInv, GroupShape, Groups
  <1> QED
    BY <1>2, <1>3, MembersFrame
    DEF Dispatch, MemberInv, GroupShape, groupVars, consumerVars

LEMMA DieMembers ==
    ASSUME MemberInv, NEW c \in Consumers, Die(c)
    PROVE  MemberInv'
  <1>1. /\ dead' = dead \cup {c}
        /\ consumer' = [consumer EXCEPT ![c] = "off"] \/ UNCHANGED consumer
        /\ UNCHANGED <<groups, members, registered, pending, retrying>>
        /\ UNCHANGED <<processing, reaping>>
    BY DEF Die, Goto, groupVars, messageVars
  <1>2. GroupShape'
    BY <1>1 DEF MemberInv, GroupShape
  <1>3. \A d \in Consumers \ dead' : Served(d)'
    BY <1>1 DEF MemberInv, GroupShape, Served
  <1> QED
    BY <1>1, <1>2, <1>3 DEF MemberInv

(* The reaper works on a consumer that was taken for dead, so that nothing *)
(* it does concerns the others.                                            *)
LEMMA ReapMembers ==
    ASSUME MemberInv,
           \/ \E c \in Consumers : Reap(c)
           \/ ReapMessages \/ ReapGroup \/ ReapRegistration
    PROVE  MemberInv'
  <1>1. CASE \E c \in Consumers : Reap(c)
    <2>1. PICK c \in dead : reaping' = [who |-> c, step |-> "unack", grouped |-> FALSE]
      BY <1>1 DEF Reap, NotReaping
    <2>2. reaping' = [who |-> reaping'.who, step |-> reaping'.step,
                      grouped |-> reaping'.grouped]
          /\ reaping'.who \in dead \cup {Nobody}
      BY <2>1
    <2> QED
      BY <1>1, <2>2 DEF Reap, MemberInv, GroupShape, Served, groupVars, messageVars
  <1>2. CASE ReapMessages
    <2>1. PICK c \in dead :
             /\ processing' = [processing EXCEPT ![c] = 0]
             /\ retrying' = [retrying EXCEPT ![GroupOf(c)] = @ + processing[c]]
      BY <1>2 DEF ReapMessages, MemberInv, GroupShape
    <2>2. /\ reaping' = [reaping EXCEPT !.step = "group"]
          /\ UNCHANGED <<groups, members, registered, pending, consumer, dead>>
      BY <1>2 DEF ReapMessages, groupVars
    <2>3. reaping' = [who |-> reaping'.who, step |-> reaping'.step,
                      grouped |-> reaping'.grouped]
          /\ reaping'.who \in dead \cup {Nobody}
      BY <2>2 DEF MemberInv, GroupShape
    <2>4. processing' \in [Consumers -> Nat] /\ retrying' \in [Groups -> Nat]
      BY <2>1, GroupFacts, SMTT(30) DEF MemberInv, GroupShape
    <2>5. \A d \in Consumers \ dead : Served(d)'
      BY <2>1, <2>2 DEF MemberInv, GroupShape, Served
    <2> QED
      BY <2>2, <2>3, <2>4, <2>5 DEF MemberInv, GroupShape
  <1>3. CASE ReapGroup
    <2>1. PICK c \in dead :
             /\ groups' \subseteq groups
             /\ \A g \in groups : g \in groups' \/ (g = c /\ pending[c] = 0)
             /\ reaping' = [reaping EXCEPT !.step = "leave",
                                           !.grouped = c \in groups]
      BY <1>3 DEF ReapGroup, Deletable, MemberInv, GroupShape
    <2>2. UNCHANGED <<members, registered, pending, retrying, processing>>
          /\ UNCHANGED <<consumer, dead>>
      BY <1>3 DEF ReapGroup, messageVars
    <2>3. reaping' = [who |-> reaping'.who, step |-> reaping'.step,
                      grouped |-> reaping'.grouped]
          /\ reaping'.who \in dead \cup {Nobody}
      BY <2>1 DEF MemberInv, GroupShape
    <2>4. \A d \in Consumers \ dead : Served(d)'
      BY <2>1, <2>2 DEF MemberInv, Served
    <2>5. \A d \in Anonymous : pending'[d] > 0 => d \in groups'
      BY <2>1, <2>2, SMTT(30) DEF MemberInv
    <2> QED
      BY <2>1, <2>2, <2>3, <2>4, <2>5 DEF MemberInv, GroupShape
  <1>4. CASE ReapRegistration
    <2>0. PICK c \in dead : \E M : Unsubscribed(c, M)
      BY <1>4 DEF ReapRegistration, MemberInv, GroupShape
    <2>1. PICK M : Unsubscribed(c, M)
      BY <2>0
    <2>2. reaping' = NotReaping
          /\ UNCHANGED <<groups, pending, retrying, processing, consumer, dead>>
      BY <1>4 DEF ReapRegistration, messageVars
    <2>3. GroupShape /\ c \in Consumers
      BY DEF MemberInv, GroupShape
    <2>4. GroupShape'
      BY <2>1, <2>2, <2>3, UnsubscribedFacts DEF GroupShape, NotReaping
    <2>5. ASSUME NEW d \in Consumers \ dead PROVE Served(d)'
      <3>1. d # c /\ Served(d) /\ GroupOf(d) \in Groups
        BY <2>5, GroupFacts DEF MemberInv
      <3> QED
        BY <2>1, <2>2, <2>3, <3>1, UnsubscribedFacts DEF Served
    <2> QED
      BY <2>2, <2>4, <2>5 DEF MemberInv
  <1> QED
    BY <1>1, <1>2, <1>3, <1>4

LEMMA NextMembers == MemberInv /\ [Next]_vars => MemberInv'
  <1> SUFFICES ASSUME MemberInv, [Next]_vars PROVE MemberInv'
    OBVIOUS
  <1>1. CASE \/ \E e \in unpublished : PublishEvent(e)
             \/ Load \/ Subscribe \/ Clear \/ Deliver \/ LoseEvent
             \/ Produce \/ DispatchTorn \/ UNCHANGED vars
    <2>1. UNCHANGED <<groups, members, registered, pending, retrying>>
          /\ UNCHANGED <<processing, consumer, dead, reaping>>
      BY <1>1 DEF PublishEvent, Load, Subscribe, Clear, Deliver, LoseEvent,
         Produce, DispatchTorn, vars, groupVars, messageVars, consumerVars
    <2> QED
      BY <2>1, MembersFrame DEF MemberInv, GroupShape
  <1> QED
    BY <1>1, SaveDeleteMembers, JoinMembers, LeaveMembers, MessageMembers,
       RequeueMembers, DispatchMembers, DieMembers, ReapMembers DEF Next

(* Subscribing, unsubscribing, reaping and the end of ephemeral groups     *)
(* leave the membership of every live consumer and its group in place.     *)
THEOREM MembersInvariant == Spec => []MemberInv
  BY InitMembers, NextMembers, PTL DEF Spec

(* subscribe-consumer, unsubscribe-consumer and recoverConsumer leave a    *)
(* running consumer in its group, and its ephemeral group in the set.      *)
THEOREM RunningStaysServed == Spec => []RunningIsServed
  <1>1. MemberInv => RunningIsServed
    BY DEF MemberInv, GroupShape, Served, RunningIsServed
  <1> QED
    BY <1>1, MembersInvariant, PTL

(* delete-consumer-group.lua, as handlers and reapers call it for an       *)
(* ephemeral group, deletes none that still has messages.                  *)
THEOREM EphemeralStays == Spec => []EphemeralKept
  <1>1. MemberInv => EphemeralKept
    BY GroupFacts DEF MemberInv, Served, EphemeralKept
  <1> QED
    BY <1>1, MembersInvariant, PTL

-----------------------------------------------------------------------------
(* The cache of the resolver.  What it will say of a group once the events *)
(* on the wire are delivered is what the last of them says.                *)

Events == [kind : {"created", "deleted"}, group : Groups]

ResolverShape ==
    /\ len \in Nat /\ cap \in Nat /\ len <= cap
    /\ cells \in [1..cap -> Groups \cup {Nobody}]
    /\ \A i \in 1..len : cells[i] \in Groups
    /\ \A i, j \in 1..len : cells[i] = cells[j] => i = j

EventShape ==
    /\ producer \in {"down", "loaded", "created", "running"}
    /\ wire \in Seq(Events)
    /\ producer \in {"down", "loaded"} => wire = <<>>
    /\ unpublished \subseteq [kind : {"created", "deleted"}, group : Named]

\* The group g is in the set C after the events ws.
After(ws, C, g) ==
    \/ \E i \in 1..Len(ws) :
          /\ ws[i].kind = "created" /\ ws[i].group = g
          /\ \A j \in (i + 1)..Len(ws) : ws[j].group # g
    \/ (\A i \in 1..Len(ws) : ws[i].group # g) /\ g \in C

\* One process at most is about to tell of g, and what it will say holds.
OneTeller(g) ==
    /\ \A e, f \in unpublished : e.group = g /\ f.group = g => e = f
    /\ \A c, d \in Consumers :
          /\ consumer[c] = "announcing" /\ GroupOf(c) = g
          /\ consumer[d] = "announcing" /\ GroupOf(d) = g
          => c = d
    /\ \A e \in unpublished, c \in Consumers :
          ~(e.group = g /\ consumer[c] = "announcing" /\ GroupOf(c) = g)
    /\ \A e \in unpublished :
          e.group = g => (e.kind = "created" <=> g \in groups)
    /\ \A c \in Consumers :
          consumer[c] = "announcing" /\ GroupOf(c) = g /\ g \in Named
             => g \in groups

\* When all is told, the cache and the events agree with the set of groups.
InStep(g) ==
    producer # "down" /\ ~Announcing(g) =>
        /\ g \in groups => After(wire, Cached, g)
        /\ After(wire, Cached, g) /\ g \in Named => g \in groups

CacheInv ==
    /\ ResolverShape /\ EventShape
    /\ \A g \in Groups \ crossed : OneTeller(g)
    /\ \A g \in Groups \ (crossed \cup missed) : InStep(g)

(* An event at the end of the wire decides about its group.                *)
LEMMA AfterAppend ==
    ASSUME NEW ws \in Seq(Events), NEW e \in Events, NEW C, NEW g
    PROVE  After(Append(ws, e), C, g) <=>
             IF e.group = g THEN e.kind = "created" ELSE After(ws, C, g)
  <1> DEFINE n == Len(ws)
             as == Append(ws, e)
  <1>1. /\ Len(as) = n + 1 /\ n \in Nat
        /\ as[n + 1] = e
        /\ \A i \in 1..n : as[i] = ws[i]
    BY AppendProperties, LenProperties, SMTT(30)
  <1> HIDE DEF n, as
  <1>2. CASE e.group = g
    BY <1>1, <1>2, SMTT(30) DEF After, as, Events
  <1>3. CASE e.group # g
    <2>1. \A i \in 1..(n + 1) : i \in 1..n \/ i = n + 1
      BY <1>1, SMTT(30)
    <2>2. After(as, C, g) => After(ws, C, g)
      <3>1. ASSUME NEW i \in 1..(n + 1), as[i].kind = "created", as[i].group = g,
                   \A j \in (i + 1)..(n + 1) : as[j].group # g
            PROVE  After(ws, C, g)
        <4>1. i \in 1..n
          BY <1>1, <1>3, <2>1, <3>1
        <4>2. \A j \in (i + 1)..n : j \in (i + 1)..(n + 1) /\ j \in 1..n
          BY <1>1, <4>1, SMTT(30)
        <4>3. \A j \in (i + 1)..n : ws[j].group # g
          BY <1>1, <3>1, <4>2
        <4> QED
          BY <1>1, <3>1, <4>1, <4>3 DEF After, n
      <3>2. ASSUME \A i \in 1..(n + 1) : as[i].group # g, g \in C
            PROVE  After(ws, C, g)
        <4>1. \A i \in 1..n : i \in 1..(n + 1)
          BY <1>1, SMTT(30)
        <4> QED
          BY <1>1, <3>2, <4>1 DEF After, n
      <3> QED
        BY <1>1, <3>1, <3>2 DEF After
    <2>3. After(ws, C, g) => After(as, C, g)
      <3>1. ASSUME NEW i \in 1..n, ws[i].kind = "created", ws[i].group = g,
                   \A j \in (i + 1)..n : ws[j].group # g
            PROVE  After(as, C, g)
        <4>0. as[i] = ws[i]
          BY <1>1
        <4>1. i \in 1..(n + 1)
          BY <1>1, SMTT(30)
        <4>2. ASSUME NEW j \in (i + 1)..(n + 1) PROVE as[j].group # g
          <5>1. j = n + 1 \/ (j \in (i + 1)..n /\ j \in 1..n)
            BY <1>1, <4>2, SMTT(30)
          <5> QED
            BY <1>1, <1>3, <3>1, <5>1
        <4> QED
          BY <1>1, <3>1, <4>0, <4>1, <4>2 DEF After
      <3>2. ASSUME \A i \in 1..n : ws[i].group # g, g \in C
            PROVE  After(as, C, g)
        <4>1. \A i \in 1..(n + 1) : as[i].group # g
          BY <1>1, <1>3, <2>1, <3>2
        <4> QED
          BY <1>1, <3>2, <4>1 DEF After
      <3> QED
        BY <3>1, <3>2 DEF After, n
    <2> QED
      BY <1>3, <2>2, <2>3 DEF as
  <1> QED
    BY <1>2, <1>3

(* Delivering the first event, that is applying it to the set, changes     *)
(* nothing about what the events will lead to.                             *)
LEMMA AfterTail ==
    ASSUME NEW ws \in Seq(Events), ws # <<>>, NEW C, NEW D, NEW g,
           g \in D <=> IF Head(ws).group = g THEN Head(ws).kind = "created"
                       ELSE g \in C
    PROVE  After(Tail(ws), D, g) <=> After(ws, C, g)
  <1> DEFINE n == Len(ws)
             ts == Tail(ws)
  <1>1. /\ n \in Nat /\ n >= 1 /\ Len(ts) = n - 1
        /\ ws[1] = Head(ws)
        /\ \A i \in 1..(n - 1) : ts[i] = ws[i + 1]
    BY HeadTailProperties, LenProperties, EmptySeq, SMTT(30)
  <1> HIDE DEF n, ts
  <1>2. After(ts, D, g) => After(ws, C, g)
    <2>1. CASE \E i \in 1..(n - 1) :
                 /\ ts[i].kind = "created" /\ ts[i].group = g
                 /\ \A j \in (i + 1)..(n - 1) : ts[j].group # g
      <3>1. PICK i \in 1..(n - 1) :
                 /\ ts[i].kind = "created" /\ ts[i].group = g
                 /\ \A j \in (i + 1)..(n - 1) : ts[j].group # g
        BY <2>1
      <3>2. ASSUME NEW j \in (i + 2)..n PROVE ws[j].group # g
        <4>1. j - 1 \in (i + 1)..(n - 1) /\ j - 1 \in 1..(n - 1) /\ (j - 1) + 1 = j
          BY <1>1, <3>2, SMTT(30)
        <4> QED
          BY <1>1, <3>1, <4>1
      <3>3. i + 1 \in 1..n /\ ws[i + 1] = ts[i] /\ (i + 1) + 1 = i + 2
        BY <1>1, SMTT(30)
      <3> QED
        BY <3>1, <3>2, <3>3 DEF After, n
    <2>2. CASE (\A i \in 1..(n - 1) : ts[i].group # g) /\ g \in D
      <3>1. \A j \in 2..n : ws[j].group # g
        <4> SUFFICES ASSUME NEW j \in 2..n PROVE ws[j].group # g
          OBVIOUS
        <4>1. j - 1 \in 1..(n - 1) /\ (j - 1) + 1 = j
          BY <1>1, SMTT(30)
        <4> QED
          BY <1>1, <2>2, <4>1
      <3>2. \A j \in 1..n : j = 1 \/ j \in 2..n
        BY <1>1, SMTT(30)
      <3>3. 1 \in 1..n /\ 1 + 1 = 2
        BY <1>1, SMTT(30)
      <3> QED
        BY <1>1, <2>2, <3>1, <3>2, <3>3 DEF After, n
    <2> QED
      BY <1>1, <2>1, <2>2 DEF After
  <1>3. After(ws, C, g) => After(ts, D, g)
    <2>1. CASE \E i \in 1..n :
                 /\ ws[i].kind = "created" /\ ws[i].group = g
                 /\ \A j \in (i + 1)..n : ws[j].group # g
      <3>1. PICK i \in 1..n :
                 /\ ws[i].kind = "created" /\ ws[i].group = g
                 /\ \A j \in (i + 1)..n : ws[j].group # g
        BY <2>1
      <3>2. \A j \in 1..(n - 1) : j + 1 \in 1..n
        BY <1>1, SMTT(30)
      <3>3. CASE i = 1
        <4>1. \A j \in 1..(n - 1) : ts[j].group # g
          BY <1>1, <3>1, <3>3, SMTT(30)
        <4> QED
          BY <1>1, <3>1, <3>3, <4>1 DEF After
      <3>4. CASE i # 1
        <4>1. i - 1 \in 1..(n - 1) /\ (i - 1) + 1 = i
          BY <1>1, <3>4, SMTT(30)
        <4>2. \A j \in ((i - 1) + 1)..(n - 1) : ts[j].group # g
          <5> SUFFICES ASSUME NEW j \in ((i - 1) + 1)..(n - 1)
                       PROVE  ts[j].group # g
            OBVIOUS
          <5>1. j \in 1..(n - 1) /\ j + 1 \in (i + 1)..n
            BY <1>1, <4>1, SMTT(30)
          <5> QED
            BY <1>1, <3>1, <5>1
        <4> QED
          BY <1>1, <3>1, <4>1, <4>2 DEF After
      <3> QED
        BY <3>3, <3>4
    <2>2. CASE (\A i \in 1..n : ws[i].group # g) /\ g \in C
      <3>1. \A j \in 1..(n - 1) : ts[j].group # g
        BY <1>1, <2>2, SMTT(30)
      <3> QED
        BY <1>1, <2>2, <3>1, SMTT(30) DEF After
    <2> QED
      BY <2>1, <2>2 DEF After, n
  <1> QED
    BY <1>2, <1>3 DEF ts

(* append puts the group behind the others, wherever the array is.         *)
LEMMA AddCached ==
    ASSUME ResolverShape, NEW g \in Groups, AddGroup(g)
    PROVE  ResolverShape' /\ Cached' = Cached \cup {g}
  <1>1. CASE g \in Cached
    BY <1>1, SMTT(30) DEF AddGroup, ResolverShape, Cached
  <1>2. CASE g \notin Cached
    <2>1. /\ len' = len + 1 /\ cap' \in Nat /\ len + 1 <= cap'
          /\ cells' \in [1..cap' -> Groups \cup {Nobody}]
          /\ cells'[len + 1] = g
          /\ \A i \in 1..len : cells'[i] = cells[i]
      <3>1. CASE len < cap
        BY <1>2, <3>1, SMTT(30) DEF AddGroup, ResolverShape
      <3>2. CASE ~(len < cap)
        <4>1. len = cap /\ cap' = (IF cap = 0 THEN 1 ELSE 2 * cap)
          BY <1>2, <3>2, SMTT(30) DEF AddGroup, ResolverShape
        <4>2. cap' \in Nat /\ len + 1 <= cap' /\ len' = len + 1
          BY <1>2, <4>1, SMTT(30) DEF AddGroup, ResolverShape
        <4>3. cells' = [i \in 1..cap' |-> CASE i <= len -> cells[i]
                                            [] i = len + 1 -> g
                                            [] OTHER -> Nobody]
          BY <1>2, <3>2 DEF AddGroup
        <4>4. \A i \in 1..len : i \in 1..cap' /\ cells'[i] = cells[i]
          BY <4>2, <4>3, SMTT(30) DEF ResolverShape
        <4>5. len + 1 \in 1..cap' /\ ~(len + 1 <= len) /\ cells'[len + 1] = g
          BY <4>2, <4>3, SMTT(30) DEF ResolverShape
        <4>6. \A i \in 1..cap' : i <= len \/ i = len + 1 \/ cells'[i] = Nobody
          BY <4>2, <4>3 DEF ResolverShape
        <4>7. \A i \in 1..cap' : cells'[i] \in Groups \cup {Nobody}
          BY <4>2, <4>4, <4>5, <4>6, SMTT(30) DEF ResolverShape
        <4> QED
          BY <4>2, <4>3, <4>4, <4>5, <4>7
      <3> QED
        BY <3>1, <3>2
    <2>2. \A i \in 1..(len + 1) : i \in 1..len \/ i = len + 1
      BY SMTT(30) DEF ResolverShape
    <2>3. 1..len \subseteq 1..(len + 1) /\ len + 1 \in 1..(len + 1) /\ len + 1 \in Nat
      BY SMTT(30) DEF ResolverShape
    <2>4. Cached' = Cached \cup {g}
      BY <2>1, <2>2, <2>3 DEF Cached
    <2>5. \A i \in 1..len : cells[i] # g
      BY <1>2 DEF Cached
    <2>6. \A i \in 1..len' : cells'[i] \in Groups
      BY <2>1, <2>2 DEF ResolverShape
    <2>7. \A i, j \in 1..len' : cells'[i] = cells'[j] => i = j
      BY <2>1, <2>2, <2>5, SMTT(30) DEF ResolverShape
    <2> QED
      BY <2>1, <2>3, <2>4, <2>6, <2>7 DEF ResolverShape
  <1> QED
    BY <1>1, <1>2

(* Closing the gap of the removed cell loses no other group.               *)
LEMMA RemoveCached ==
    ASSUME ResolverShape, NEW g \in Groups, RemoveGroup(g)
    PROVE  ResolverShape' /\ Cached' = Cached \ {g}
  <1>1. CASE g \notin Cached
    BY <1>1, SMTT(30) DEF RemoveGroup, ResolverShape, Cached
  <1>2. CASE g \in Cached
    <2>1. PICK i \in 1..len :
             /\ cells[i] = g /\ len' = len - 1 /\ cap' = cap
             /\ cells' = [k \in 1..cap |-> IF k >= i /\ k < len
                                           THEN cells[k + 1] ELSE cells[k]]
      <3>1. \E k \in 1..len : cells[k] = g
        BY <1>2 DEF Cached
      <3> QED
        BY <1>2, <3>1 DEF RemoveGroup
    <2>2. len \in Nat /\ cap \in Nat /\ len <= cap /\ len >= 1 /\ len' \in Nat
          /\ len' <= cap
      BY <2>1, SMTT(30) DEF ResolverShape
    <2>3. \A k \in 1..(len - 1) :
             /\ k < i => cells'[k] = cells[k] /\ k \in 1..len
             /\ ~(k < i) => cells'[k] = cells[k + 1] /\ k + 1 \in 1..len /\ k + 1 > i
      BY <2>1, <2>2, SMTT(30)
    <2>4. cells' \in [1..cap -> Groups \cup {Nobody}]
      <3>1. \A k \in 1..cap : k < len => k + 1 \in 1..cap
        BY <2>2, SMTT(30)
      <3> QED
        BY <2>1, <2>2, <3>1 DEF ResolverShape
    <2>5. \A k \in 1..(len - 1) : cells'[k] \in Groups /\ cells'[k] # g
      BY <2>1, <2>2, <2>3, SMTT(30) DEF ResolverShape
    <2>6. \A k, l \in 1..(len - 1) : cells'[k] = cells'[l] => k = l
      <3> SUFFICES ASSUME NEW k \in 1..(len - 1), NEW l \in 1..(len - 1),
                          cells'[k] = cells'[l]
                   PROVE  k = l
        OBVIOUS
      <3>1. CASE k < i /\ l < i
        BY <2>3, <3>1 DEF ResolverShape
      <3>2. CASE k < i /\ ~(l < i)
        <4>1. k = l + 1
          BY <2>3, <3>2 DEF ResolverShape
        <4> QED
          BY <2>2, <3>2, <4>1, SMTT(30)
      <3>3. CASE ~(k < i) /\ l < i
        <4>1. k + 1 = l
          BY <2>3, <3>3, SMTT(30) DEF ResolverShape
        <4> QED
          BY <2>2, <3>3, <4>1, SMTT(30)
      <3>4. CASE ~(k < i) /\ ~(l < i)
        <4>1. k + 1 = l + 1
          BY <2>3, <3>4 DEF ResolverShape
        <4> QED
          BY <4>1, SMTT(30)
      <3> QED
        BY <3>1, <3>2, <3>3, <3>4
    <2>7. \A x \in Cached \ {g} : x \in Cached'
      <3> SUFFICES ASSUME NEW x \in Cached, x # g
                   PROVE  \E k \in 1..(len - 1) : cells'[k] = x
        BY <2>1 DEF Cached
      <3>1. PICK n \in 1..len : cells[n] = x
        BY DEF Cached
      <3>2. n # i
        BY <2>1, <3>1
      <3>3. CASE n < i
        <4>1. n \in 1..(len - 1)
          BY <2>2, <3>3, SMTT(30)
        <4> QED
          BY <2>3, <3>1, <3>3, <4>1
      <3>4. CASE n > i
        <4>1. n - 1 \in 1..(len - 1) /\ ~(n - 1 < i) /\ (n - 1) + 1 = n
          BY <2>2, <3>4, SMTT(30)
        <4> QED
          BY <2>3, <3>1, <4>1
      <3> QED
        BY <3>2, <3>3, <3>4, SMTT(30)
    <2>8. \A x \in Cached' : x \in Cached \ {g}
      <3> SUFFICES ASSUME NEW k \in 1..(len - 1)
                   PROVE  cells'[k] \in Cached \ {g}
        BY <2>1 DEF Cached
      <3> QED
        BY <2>3, <2>5 DEF Cached
    <2> QED
      BY <2>1, <2>2, <2>4, <2>5, <2>6, <2>7, <2>8 DEF ResolverShape
  <1> QED
    BY <1>1, <1>2

(* Load fills the cache with the groups of the queue.                      *)
LEMMA LoadCached ==
    ASSUME groups \subseteq Groups, Load
    PROVE  ResolverShape' /\ Cached' = groups
  <1> DEFINE n == Cardinality(groups)
  <1>1. IsFiniteSet(groups) /\ n \in Nat
    <2>1. IsFiniteSet(Groups)
      <3>1. IsFiniteSet(Anonymous)
        BY GroupsAssumption, FS_Subset
      <3> QED
        BY <3>1, GroupsAssumption, FS_Union DEF Groups
    <2> QED
      BY <2>1, FS_Subset, FS_CardinalityType
  <1>2. len' = n /\ cap' = n /\ cells' \in Injection(1..n, groups)
    BY DEF Load
  <1>3. cells' \in [1..n -> groups]
        /\ \A i, j \in 1..n : i # j => cells'[i] # cells'[j]
    BY <1>2 DEF Injection, IsInjective
  <1>4. cells' \in Surjection(1..n, groups)
    <2>1. Cardinality(1..n) = n
      BY <1>1, FS_Interval, SMTT(30)
    <2> QED
      BY <1>1, <1>2, <2>1, FS_Injection
  <1> HIDE DEF n
  <1>5. Cached' = groups
    BY <1>2, <1>3, <1>4, SMTT(30) DEF Cached, Surjection
  <1> QED
    BY <1>1, <1>2, <1>3, <1>5, SMTT(30) DEF ResolverShape

-----------------------------------------------------------------------------
(* The steps that concern the cache.                                       *)

LEMMA InitCache == Init => CacheInv
  <1> SUFFICES ASSUME Init PROVE CacheInv
    OBVIOUS
  <1>1. ResolverShape
    BY SMTT(30) DEF Init, ResolverShape
  <1>2. EventShape
    BY SMTT(30) DEF Init, EventShape
  <1>3. \A g \in Groups : OneTeller(g) /\ InStep(g)
    BY DEF Init, OneTeller, InStep
  <1> QED
    BY <1>1, <1>2, <1>3 DEF CacheInv

(* Nobody starts or stops telling of a group, and no named group comes or  *)
(* goes.                                                                   *)
LEMMA CacheFrame ==
    ASSUME CacheInv,
           UNCHANGED <<unpublished, wire, producer, cells, len, cap>>,
           UNCHANGED <<missed, crossed>>,
           \A c \in Consumers :
              consumer'[c] = "announcing" <=> consumer[c] = "announcing",
           groups' \subseteq groups,
           \A g \in Named : g \in groups' <=> g \in groups
    PROVE  CacheInv'
  <1>1. ResolverShape' /\ EventShape' /\ Cached' = Cached
    BY DEF CacheInv, ResolverShape, EventShape, Cached
  <1>2. \A g \in Groups : Announcing(g)' <=> Announcing(g)
    BY DEF Announcing
  <1>3. ASSUME NEW g \in Groups \ crossed PROVE OneTeller(g)'
    <2>1. OneTeller(g) /\ EventShape
      BY <1>3 DEF CacheInv
    <2> QED
      BY <2>1 DEF OneTeller, EventShape
  <1>4. ASSUME NEW g \in Groups \ (crossed \cup missed) PROVE InStep(g)'
    BY <1>1, <1>2, <1>4 DEF CacheInv, InStep
  <1> QED
    BY <1>1, <1>3, <1>4 DEF CacheInv

(* What happens to the group h when it is not the one a step is about.     *)
LEMMA OtherGroup ==
    ASSUME NEW h,
           \A e \in unpublished \cup unpublished' :
              e.group = h => (e \in unpublished' <=> e \in unpublished),
           \A c \in Consumers : GroupOf(c) = h =>
              (consumer'[c] = "announcing" <=> consumer[c] = "announcing"),
           h \in groups' <=> h \in groups
    PROVE  /\ Announcing(h)' <=> Announcing(h)
           /\ OneTeller(h) => OneTeller(h)'
  <1>1. Announcing(h)' <=> Announcing(h)
    BY DEF Announcing
  <1>2. OneTeller(h) => OneTeller(h)'
    BY DEF OneTeller
  <1> QED
    BY <1>1, <1>2

(* A process begins to tell of g: it has changed the set of groups.        *)
LEMMA TellingStarts ==
    ASSUME MemberInv, CacheInv, NEW g \in Groups, Crossing(g),
           UNCHANGED <<wire, producer, cells, len, cap, missed>>,
           \A h \in Groups \ {g} : h \in groups' <=> h \in groups,
           \/ /\ UNCHANGED consumer
              /\ g \in Named
              /\ \E kind \in {"created", "deleted"} :
                    /\ unpublished' = unpublished \cup {Event(kind, g)}
                    /\ kind = "created" <=> g \in groups'
           \/ /\ UNCHANGED unpublished
              /\ g \in groups'
              /\ \E c \in Consumers :
                    /\ GroupOf(c) = g
                    /\ consumer' = [consumer EXCEPT ![c] = "announcing"]
    PROVE  CacheInv'
  <1>1. ResolverShape' /\ Cached' = Cached
    BY SMTT(30) DEF CacheInv, ResolverShape, Cached
  <1>2. EventShape'
    BY SMTT(30) DEF CacheInv, EventShape, Event
  <1>3. crossed \subseteq crossed' /\ (Announcing(g) => g \in crossed')
    BY DEF Crossing
  <1>4. consumer \in [Consumers -> {"off", "announcing", "prepared", "running",
                                    "leaving"}]
    BY DEF MemberInv, GroupShape
  <1>5. Announcing(g)'
    <2>1. CASE \E kind \in {"created", "deleted"} :
                  unpublished' = unpublished \cup {Event(kind, g)}
      <3>1. PICK kind : unpublished' = unpublished \cup {Event(kind, g)}
        BY <2>1
      <3>2. Event(kind, g) \in unpublished' /\ Event(kind, g).group = g
        BY <3>1 DEF Event
      <3> QED
        BY <3>2 DEF Announcing
    <2>2. CASE \E c \in Consumers :
                  /\ GroupOf(c) = g
                  /\ consumer' = [consumer EXCEPT ![c] = "announcing"]
      BY <1>4, <2>2 DEF Announcing
    <2> QED
      BY <2>1, <2>2
  <1>6. ASSUME NEW h \in Groups \ {g}
        PROVE  /\ Announcing(h)' <=> Announcing(h)
               /\ OneTeller(h) => OneTeller(h)'
    <2>1. \A e \in unpublished \cup unpublished' :
              e.group = h => (e \in unpublished' <=> e \in unpublished)
      BY <1>6, SMTT(30) DEF Event
    <2>2. \A c \in Consumers : GroupOf(c) = h =>
              (consumer'[c] = "announcing" <=> consumer[c] = "announcing")
      BY <1>4, <1>6
    <2> QED
      BY <1>6, <2>1, <2>2, OtherGroup
  <1>7. ~Announcing(g) => OneTeller(g)'
    BY <1>4, SMTT(30) DEF Announcing, OneTeller, Event
  <1>8. ASSUME NEW h \in Groups \ crossed' PROVE OneTeller(h)'
    BY <1>3, <1>6, <1>7, <1>8 DEF CacheInv
  <1>9. ASSUME NEW h \in Groups \ (crossed' \cup missed) PROVE InStep(h)'
    <2>1. CASE h = g
      BY <1>5, <2>1 DEF InStep
    <2>2. CASE h # g
      BY <1>1, <1>3, <1>6, <1>9, <2>2 DEF CacheInv, InStep
    <2> QED
      BY <2>1, <2>2
  <1> QED
    BY <1>1, <1>2, <1>8, <1>9 DEF CacheInv

LEMMA SaveCache ==
    ASSUME MemberInv, CacheInv, NEW g \in Named, Save(g)
    PROVE  CacheInv'
  <1>1. CASE g \in groups
    <2>1. groups' = groups /\ UNCHANGED <<unpublished, crossed>>
      BY <1>1 DEF Save
    <2> QED
      BY <2>1, CacheFrame DEF Save, consumerVars, resolverVars
  <1>2. CASE g \notin groups
    <2>1. unpublished' = unpublished \cup {Event("created", g)} /\ Crossing(g)
          /\ groups' = groups \cup {g} /\ g \in Groups
      BY <1>2 DEF Save, Groups
    <2> QED
      BY <2>1, TellingStarts DEF Save, consumerVars, resolverVars
  <1> QED
    BY <1>1, <1>2

LEMMA DeleteCache ==
    ASSUME MemberInv, CacheInv, NEW g \in Named, Delete(g)
    PROVE  CacheInv'
  <1>1. unpublished' = unpublished \cup {Event("deleted", g)} /\ Crossing(g)
        /\ groups' = groups \ {g} /\ g \in Groups
    BY DEF Delete, Groups
  <1> QED
    BY <1>1, TellingStarts DEF Delete, consumerVars, resolverVars

LEMMA PrepareCache ==
    ASSUME MemberInv, CacheInv, NEW c \in Consumers, PrepareConsumerGroup(c)
    PROVE  CacheInv'
  <1> DEFINE g == GroupOf(c)
  <1>1. g \in Groups /\ groups' = groups \cup {g}
    BY GroupFacts DEF PrepareConsumerGroup
  <1>2. CASE g \in groups
    <2>1. consumer' = [consumer EXCEPT ![c] = "prepared"] /\ UNCHANGED crossed
          /\ consumer[c] = "off"
      BY <1>2 DEF PrepareConsumerGroup, Goto
    <2>2. \A d \in Consumers :
              consumer'[d] = "announcing" <=> consumer[d] = "announcing"
      BY <2>1 DEF MemberInv, GroupShape
    <2> QED
      BY <1>1, <1>2, <2>1, <2>2, CacheFrame
      DEF PrepareConsumerGroup, resolverVars
  <1>3. CASE g \notin groups
    <2>1. consumer' = [consumer EXCEPT ![c] = "announcing"] /\ Crossing(g)
      BY <1>3 DEF PrepareConsumerGroup, Goto
    <2> QED
      BY <1>1, <2>1, TellingStarts DEF PrepareConsumerGroup, resolverVars
  <1> QED
    BY <1>2, <1>3

(* The event about g reaches the wire, or the producer misses it; nobody   *)
(* is left to tell of g.                                                   *)
LEMMA TellingEnds ==
    ASSUME CacheInv, NEW e \in Events, Publish(e), UNCHANGED crossed,
           UNCHANGED <<groups, producer, cells, len, cap>>,
           unpublished' \subseteq unpublished,
           \A h \in Groups \ {e.group} :
              /\ Announcing(h)' <=> Announcing(h)
              /\ OneTeller(h) => OneTeller(h)',
           e.group \notin crossed =>
              /\ OneTeller(e.group)'
              /\ e.kind = "created" \/ e.group \notin groups
              /\ e.kind = "created" /\ e.group \in Named => e.group \in groups
    PROVE  CacheInv'
  <1> DEFINE g == e.group
  <1>1. ResolverShape' /\ Cached' = Cached
    BY DEF CacheInv, ResolverShape, Cached
  <1>2. wire \in Seq(Events)
    BY DEF CacheInv, EventShape
  <1>3. EventShape'
    <2>1. wire' \in Seq(Events)
      BY <1>2, AppendProperties DEF Publish
    <2>2. producer \in {"down", "loaded"} => wire' = wire
      BY DEF Publish, Heard
    <2> QED
      BY <2>1, <2>2 DEF CacheInv, EventShape
  <1>4. ASSUME NEW h \in Groups \ crossed PROVE OneTeller(h)'
    BY <1>4 DEF CacheInv
  <1>5. ASSUME NEW h \in Groups \ (crossed \cup missed') PROVE InStep(h)'
    <2>1. missed \subseteq missed' /\ (Heard(e.kind) \/ producer = "down" \/ g \in missed')
      BY DEF Publish
    <2>2. CASE h = g
      <3>1. CASE producer = "down"
        BY <3>1 DEF InStep
      <3>2. CASE producer # "down"
        <4>1. wire' = Append(wire, e)
          BY <1>5, <2>1, <2>2, <3>2 DEF Publish
        <4>2. After(wire', Cached, g) <=> e.kind = "created"
          BY <1>2, <4>1, AfterAppend
        <4> QED
          BY <1>1, <1>5, <2>2, <4>2 DEF InStep
      <3> QED
        BY <3>1, <3>2
    <2>3. CASE h # g
      <3>1. After(wire', Cached, h) <=> After(wire, Cached, h)
        BY <1>2, <2>3, AfterAppend DEF Publish
      <3>2. InStep(h) /\ (Announcing(h)' <=> Announcing(h))
        BY <1>5, <2>1, <2>3 DEF CacheInv
      <3> QED
        BY <1>1, <3>1, <3>2 DEF InStep
    <2> QED
      BY <2>2, <2>3
  <1> QED
    BY <1>1, <1>3, <1>4, <1>5 DEF CacheInv

LEMMA PublishCache ==
    ASSUME MemberInv, CacheInv, NEW e \in unpublished, PublishEvent(e)
    PROVE  CacheInv'
  <1> DEFINE g == e.group
  <1>1. e \in Events /\ g \in Named /\ g \in Groups
        /\ (e.kind = "created" \/ e.kind = "deleted")
    BY DEF CacheInv, EventShape, Events, Groups
  <1>2. /\ unpublished' = unpublished \ {e} /\ Publish(e)
        /\ UNCHANGED <<groups, consumer, producer, cells, len, cap, crossed>>
    BY DEF PublishEvent, groupVars, consumerVars, resolverVars
  <1>3. ASSUME NEW h \in Groups \ {g}
        PROVE  /\ Announcing(h)' <=> Announcing(h)
               /\ OneTeller(h) => OneTeller(h)'
    BY <1>2, <1>3, OtherGroup
  <1>4. ASSUME g \notin crossed
        PROVE  OneTeller(g)' /\ (e.kind = "created" <=> g \in groups)
    <2>1. OneTeller(g)
      BY <1>1, <1>4 DEF CacheInv
    <2> QED
      BY <1>2, <2>1 DEF OneTeller
  <1> QED
    BY <1>1, <1>2, <1>3, <1>4, TellingEnds

LEMMA AnnounceCache ==
    ASSUME MemberInv, CacheInv, NEW c \in Consumers, Announce(c)
    PROVE  CacheInv'
  <1> DEFINE g == GroupOf(c)
             e == Event("created", g)
  <1>1. g \in Groups /\ e \in Events /\ e.group = g /\ e.kind = "created"
    BY GroupFacts DEF Events, Event
  <1>2. /\ consumer[c] = "announcing"
        /\ consumer' = [consumer EXCEPT ![c] = "prepared"] /\ Publish(e)
        /\ UNCHANGED <<groups, unpublished, producer, cells, len, cap, crossed>>
    BY DEF Announce, Goto, groupVars, resolverVars
  <1>3. \A d \in Consumers : consumer'[d] = IF d = c THEN "prepared" ELSE consumer[d]
    BY <1>2 DEF MemberInv, GroupShape
  <1>4. ASSUME NEW h \in Groups \ {g}
        PROVE  /\ Announcing(h)' <=> Announcing(h)
               /\ OneTeller(h) => OneTeller(h)'
    <2>1. \A d \in Consumers : GroupOf(d) = h =>
              (consumer'[d] = "announcing" <=> consumer[d] = "announcing")
      BY <1>3, <1>4
    <2> QED
      BY <1>2, <2>1, OtherGroup
  <1>5. ASSUME g \notin crossed
        PROVE  OneTeller(g)' /\ (g \in Named => g \in groups)
    <2>1. OneTeller(g)
      BY <1>1, <1>5 DEF CacheInv
    <2> QED
      BY <1>2, <1>3, <2>1 DEF OneTeller
  <1> HIDE DEF e, g
  <1> QED
    BY <1>1, <1>2, <1>4, <1>5, TellingEnds

LEMMA DieCache ==
    ASSUME MemberInv, CacheInv, NEW c \in Consumers, Die(c)
    PROVE  CacheInv'
  <1>1. CASE UNCHANGED <<consumer, missed>>
    BY <1>1, CacheFrame DEF Die, groupVars, resolverVars
  <1>2. CASE consumer' = [consumer EXCEPT ![c] = "off"]
             /\ missed' = IF consumer[c] = "announcing"
                          THEN missed \cup {GroupOf(c)} ELSE missed
    <2>1. \A d \in Consumers : consumer'[d] = IF d = c THEN "off" ELSE consumer[d]
      BY <1>2 DEF MemberInv, GroupShape
    <2>2. UNCHANGED <<groups, unpublished, wire, producer, cells, len, cap>>
          /\ UNCHANGED crossed
      BY DEF Die, groupVars, resolverVars
    <2>3. ResolverShape' /\ EventShape' /\ Cached' = Cached
      BY <2>2 DEF CacheInv, ResolverShape, EventShape, Cached
    <2>4. ASSUME NEW h \in Groups \ crossed PROVE OneTeller(h)'
      BY <2>1, <2>2, <2>4, SMTT(30) DEF CacheInv, OneTeller
    <2>5. ASSUME NEW h \in Groups \ (crossed \cup missed') PROVE InStep(h)'
      <3>1. \A d \in Consumers : GroupOf(d) = h =>
              (consumer'[d] = "announcing" <=> consumer[d] = "announcing")
        BY <1>2, <2>1, <2>5, SMTT(30)
      <3>2. Announcing(h)' <=> Announcing(h)
        BY <2>2, <3>1, OtherGroup
      <3>3. InStep(h)
        BY <1>2, <2>5 DEF CacheInv
      <3> QED
        BY <2>2, <2>3, <3>2, <3>3 DEF InStep
    <2> QED
      BY <2>2, <2>3, <2>4, <2>5 DEF CacheInv
  <1> QED
    BY <1>1, <1>2 DEF Die, Goto

(* The resolver learns: the telling of the groups goes on as it was.       *)
LEMMA TellersSame ==
    ASSUME CacheInv, UNCHANGED <<groups, unpublished, consumer, crossed>>
    PROVE  /\ \A g \in Groups : Announcing(g)' <=> Announcing(g)
           /\ \A g \in Groups \ crossed' : OneTeller(g)'
  <1>1. \A g \in Groups : Announcing(g)' <=> Announcing(g)
    BY DEF Announcing
  <1>2. \A g \in Groups \ crossed' : OneTeller(g)'
    BY SMTT(30) DEF CacheInv, OneTeller
  <1> QED
    BY <1>1, <1>2

LEMMA ResolverStartsCache ==
    ASSUME MemberInv, CacheInv, Load \/ Subscribe \/ Clear
    PROVE  CacheInv'
  <1>1. UNCHANGED <<groups, unpublished, consumer, crossed>>
    BY DEF Load, Subscribe, Clear, groupVars, consumerVars
  <1>2. CASE Load
    <2>1. ResolverShape' /\ Cached' = groups
      BY <1>2, LoadCached DEF MemberInv, GroupShape
    <2>2. wire = <<>> /\ wire' = <<>> /\ EventShape'
      BY <1>2 DEF Load, CacheInv, EventShape
    <2>3. \A g \in Groups : After(wire', Cached', g) <=> g \in Cached'
      <3>1. Len(wire') = 0
        BY <2>2
      <3> QED
        BY <3>1, SMTT(30) DEF After
    <2>4. \A g \in Groups : InStep(g)'
      BY <1>1, <2>1, <2>3 DEF InStep
    <2> QED
      BY <1>1, <2>1, <2>2, <2>4, TellersSame DEF CacheInv
  <1>3. CASE Subscribe
    <2>1. ResolverShape' /\ Cached' = Cached /\ EventShape'
      BY <1>3 DEF Subscribe, CacheInv, ResolverShape, EventShape, Cached
    <2>2. \A g \in Groups \ (crossed \cup missed) : InStep(g)'
      BY <1>1, <1>3, <2>1, TellersSame DEF Subscribe, CacheInv, InStep
    <2> QED
      BY <1>1, <1>3, <2>1, <2>2, TellersSame DEF Subscribe, CacheInv
  <1>4. CASE Clear
    <2>1. ResolverShape'
      BY <1>4, SMTT(30) DEF Clear, ResolverShape
    <2>2. EventShape'
      BY <1>4, SMTT(30) DEF Clear, CacheInv, EventShape
    <2>3. \A g \in Groups : InStep(g)'
      BY <1>4 DEF Clear, InStep
    <2> QED
      BY <1>1, <2>1, <2>2, <2>3, TellersSame DEF CacheInv
  <1> QED
    BY <1>2, <1>3, <1>4

LEMMA WireCache ==
    ASSUME MemberInv, CacheInv, Deliver \/ LoseEvent
    PROVE  CacheInv'
  <1> DEFINE e == Head(wire)
  <1>1. UNCHANGED <<groups, unpublished, consumer, producer, crossed>>
    BY DEF Deliver, LoseEvent, groupVars, consumerVars, resolverVars
  <1>2. wire \in Seq(Events) /\ wire # <<>> /\ wire' = Tail(wire)
    BY DEF Deliver, LoseEvent, CacheInv, EventShape
  <1>3. e \in Events /\ Tail(wire) \in Seq(Events)
    BY <1>2, HeadTailProperties
  <1>4. EventShape'
    BY <1>1, <1>2, <1>3 DEF CacheInv, EventShape
  <1>5. e.group \in Groups /\ e.kind \in {"created", "deleted"}
    BY <1>3 DEF Events
  <1>6. CASE Deliver
    <2>1. /\ ResolverShape'
          /\ Cached' = IF e.kind = "created" THEN Cached \cup {e.group}
                       ELSE Cached \ {e.group}
      BY <1>5, <1>6, AddCached, RemoveCached DEF Deliver, CacheInv
    <2>2. ASSUME NEW g \in Groups
          PROVE  After(wire', Cached', g) <=> After(wire, Cached, g)
      <3>1. g \in Cached' <=> IF e.group = g THEN e.kind = "created"
                              ELSE g \in Cached
        BY <1>5, <2>1
      <3> QED
        BY <1>2, <3>1, AfterTail
    <2>3. UNCHANGED missed
      BY <1>6 DEF Deliver
    <2>4. \A g \in Groups \ (crossed \cup missed) : InStep(g)'
      BY <1>1, <2>2, TellersSame DEF CacheInv, InStep
    <2> QED
      BY <1>1, <1>4, <2>1, <2>3, <2>4, TellersSame DEF CacheInv
  <1>7. CASE LoseEvent
    <2>1. ResolverShape' /\ Cached' = Cached /\ missed' = missed \cup {e.group}
      BY <1>7, SMTT(30) DEF LoseEvent, CacheInv, ResolverShape, Cached, resolverVars
    <2>2. ASSUME NEW g \in Groups, g # e.group
          PROVE  After(wire', Cached', g) <=> After(wire, Cached, g)
      BY <1>2, <2>1, <2>2, AfterTail
    <2>3. ASSUME NEW g \in Groups \ (crossed \cup missed') PROVE InStep(g)'
      <3>1. g # e.group /\ InStep(g)
        BY <2>1, <2>3 DEF CacheInv
      <3> QED
        BY <1>1, <2>2, <3>1, TellersSame DEF InStep
    <2> QED
      BY <1>1, <1>4, <2>1, <2>3, TellersSame DEF CacheInv
  <1> QED
    BY <1>6, <1>7

(* The steps of consumers and reapers that tell nobody anything.           *)
LEMMA SilentCache ==
    ASSUME MemberInv, CacheInv,
           \/ \E c \in Consumers :
                 \/ SubscribeConsumer(c) \/ UnsubscribeConsumer(c)
                 \/ DeleteEphemeral(c) \/ Take(c) \/ Settle(c) \/ Reap(c)
           \/ \E g \in Groups : Requeue(g)
           \/ ReapMessages \/ ReapGroup \/ ReapRegistration
           \/ Produce \/ Dispatch \/ DispatchTorn \/ UNCHANGED vars
    PROVE  CacheInv'
  <1>1. UNCHANGED <<unpublished, wire, producer, cells, len, cap>>
        /\ UNCHANGED <<missed, crossed>>
    BY DEF SubscribeConsumer, UnsubscribeConsumer, DeleteEphemeral, Take,
       Settle, Reap, Requeue, ReapMessages, ReapGroup, ReapRegistration,
       Produce, Dispatch, DispatchTorn, vars, resolverVars
  <1>2. UNCHANGED consumer \/
        \E c \in Consumers, pc \in {"running", "leaving", "off"} :
           /\ consumer[c] \in {"prepared", "running", "leaving"}
           /\ consumer' = [consumer EXCEPT ![c] = pc]
    BY DEF SubscribeConsumer, UnsubscribeConsumer, DeleteEphemeral, Take,
       Settle, Reap, Requeue, ReapMessages, ReapGroup, ReapRegistration,
       Produce, Dispatch, DispatchTorn, vars, consumerVars, Goto
  <1>3. \A c \in Consumers :
            consumer'[c] = "announcing" <=> consumer[c] = "announcing"
    BY <1>2 DEF MemberInv, GroupShape
  <1>4. groups' \subseteq groups /\ \A g \in Named : g \in groups' <=> g \in groups
    <2>1. CASE \E c \in Consumers : DeleteEphemeral(c)
      BY <2>1, GroupFacts DEF DeleteEphemeral
    <2>2. CASE ReapGroup
      <3>1. reaping.who \in Consumers
        BY <2>2 DEF ReapGroup, MemberInv, GroupShape
      <3> QED
        BY <2>2, <3>1, GroupsAssumption DEF ReapGroup
    <2>3. CASE UNCHANGED groups
      BY <2>3
    <2> QED
      BY <2>1, <2>2, <2>3 DEF SubscribeConsumer, UnsubscribeConsumer, Take,
         Settle, Reap, Requeue, ReapMessages, ReapRegistration, Produce,
         Dispatch, DispatchTorn, vars, groupVars
  <1> QED
    BY <1>1, <1>3, <1>4, CacheFrame

LEMMA NextCache == MemberInv /\ CacheInv /\ [Next]_vars => CacheInv'
  BY SaveCache, DeleteCache, PublishCache, PrepareCache, AnnounceCache,
     DieCache, ResolverStartsCache, WireCache, SilentCache DEF Next

(* The events that are still to come turn the slice of the resolver into   *)
(* the set of groups, for every group whose events were not lost or        *)
(* crossed.                                                                *)
THEOREM CacheInvariant == Spec => []CacheInv
  BY MembersInvariant, InitCache, NextCache, PTL DEF Spec

(* Apart from the events the code can lose or cross and the silent end of  *)
(* an ephemeral group, the resolver's handlers of the events keep its      *)
(* slice equal to the set of groups.                                       *)
THEOREM CacheStaysRight == Spec => []CacheAgrees
  <1>1. CacheInv => CacheAgrees
    <2> SUFFICES ASSUME CacheInv, NEW g \in Groups, producer = "running",
                        ~Announcing(g),
                        \A i \in 1..Len(wire) : wire[i].group # g,
                        g \notin missed \cup crossed
                 PROVE  /\ g \in groups => g \in Cached
                        /\ g \in Cached => g \in groups \cup Anonymous
      BY DEF CacheAgrees
    <2>1. InStep(g)
      BY DEF CacheInv
    <2>2. After(wire, Cached, g) <=> g \in Cached
      BY DEF After
    <2> QED
      BY <2>1, <2>2 DEF InStep, Groups
  <1> QED
    BY <1>1, CacheInvariant, PTL

-----------------------------------------------------------------------------
(* Produce, which walks over a slice that may change under it.             *)

\* The cell the loop of Produce finds at index k.
View(k) == IF call.own THEN call.cells[k] ELSE cells[k]

CallShape ==
    /\ call = [own |-> call.own, cells |-> call.cells, n |-> call.n,
               i |-> call.i, start |-> call.start, given |-> call.given,
               moved |-> call.moved, failed |-> call.failed]
    /\ call.n \in Nat /\ call.i \in Nat \ {0}
    /\ call.given \in [Groups -> Nat]

\* The groups before index i have their copy, each of them once.
Walked ==
    /\ call.i <= call.n + 1
    /\ ~call.own => call.n <= len
    /\ call.start = {View(k) : k \in 1..call.n}
    /\ \A k \in 1..call.n : View(k) \in Groups
    /\ \A k, l \in 1..call.n : View(k) = View(l) => k = l
    /\ \A g \in Groups :
          call.given[g] = IF \E k \in 1..(call.i - 1) : View(k) = g THEN 1 ELSE 0

CallInv ==
    /\ CallShape
    /\ producer = "down" /\ Calling => call.own
    /\ Calling /\ ~call.moved => Walked
    /\ ~call.moved => FanOut

LEMMA InitCall == Init => CallInv
  <1> SUFFICES ASSUME Init PROVE CallInv
    OBVIOUS
  <1>1. CallShape /\ ~Calling
    BY SMTT(30) DEF Init, NoCall, CallShape, Calling
  <1>2. FanOut
    BY SMTT(30) DEF Init, NoCall, FanOut
  <1> QED
    BY <1>1, <1>2 DEF CallInv

(* A call that has given the groups before index i a copy is in order.     *)
LEMMA WalkedFansOut == CallShape /\ Walked => FanOut
  <1> SUFFICES ASSUME CallShape, Walked PROVE FanOut
    OBVIOUS
  <1>1. \A k \in 1..(call.i - 1) : k \in 1..call.n
    BY SMTT(30) DEF CallShape, Walked
  <1>2. ASSUME NEW g \in Groups
        PROVE  call.given[g] <= IF g \in call.start THEN 1 ELSE 0
    BY <1>1, <1>2, SMTT(30) DEF Walked
  <1>3. ASSUME NEW g \in Groups, ~Calling, ~call.failed, g \in call.start
        PROVE  call.given[g] = 1
    <2>1. call.i - 1 = call.n
      BY <1>3, SMTT(30) DEF CallShape, Walked, Calling
    <2> QED
      BY <1>3, <2>1 DEF Walked
  <1> QED
    BY <1>2, <1>3 DEF FanOut

LEMMA ProduceCall ==
    ASSUME CacheInv, CallInv, Produce
    PROVE  CallInv'
  <1>1. call' = [own |-> FALSE, cells |-> <<>>, n |-> len,
                 i |-> 1, start |-> Cached, given |-> [g \in Groups |-> 0],
                 moved |-> FALSE, failed |-> FALSE]
        /\ UNCHANGED <<cells, len>> /\ producer' = "running"
    BY DEF Produce, NoCall, resolverVars
  <1>2. len \in Nat /\ (\A k \in 1..len : cells[k] \in Groups)
        /\ (\A k, l \in 1..len : cells[k] = cells[l] => k = l)
    BY DEF CacheInv, ResolverShape
  <1>3. CallShape'
    BY <1>1, <1>2, SMTT(30) DEF CallShape
  <1>4. \A k : View(k)' = cells[k]
    BY <1>1 DEF View
  <1>5. Walked'
    BY <1>1, <1>2, <1>4, SMTT(30) DEF Walked, Cached
  <1>6. FanOut'
    BY <1>3, <1>5, WalkedFansOut, PTL
  <1> QED
    BY <1>1, <1>3, <1>5, <1>6 DEF CallInv

(* The loop gives the group it finds at index i its first copy.            *)
LEMMA DispatchCall ==
    ASSUME MemberInv, CallInv, Dispatch
    PROVE  CallInv'
  <1>1. Calling /\ UNCHANGED <<cells, len, producer>>
    BY DEF Dispatch, resolverVars
  <1>0. Target = View(call.i)
    BY DEF Target, View
  <1>2. CASE Target \in groups
    <2>1. Target \in Groups
      BY <1>2 DEF MemberInv, GroupShape
    <2>2. /\ call'.given = [call.given EXCEPT ![Target] = @ + 1]
          /\ call'.i = call.i + 1
          /\ call'.own = call.own /\ call'.cells = call.cells
          /\ call'.n = call.n /\ call'.start = call.start
          /\ call'.moved = call.moved /\ call'.failed = call.failed
          /\ call' = [own |-> call'.own, cells |-> call'.cells,
                      n |-> call'.n, i |-> call'.i, start |-> call'.start,
                      given |-> call'.given, moved |-> call'.moved,
                      failed |-> call'.failed]
      <3> DEFINE X == [call.given EXCEPT ![Target] = @ + 1]
      <3>1. call' = [call EXCEPT !.given = X, !.i = call.i + 1]
        BY <1>2 DEF Dispatch
      <3> HIDE DEF X
      <3>2. /\ call'.given = X
            /\ call'.i = call.i + 1
            /\ call'.own = call.own /\ call'.cells = call.cells
            /\ call'.n = call.n /\ call'.start = call.start
            /\ call'.moved = call.moved /\ call'.failed = call.failed
            /\ call' = [own |-> call'.own, cells |-> call'.cells,
                        n |-> call'.n, i |-> call'.i, start |-> call'.start,
                        given |-> call'.given, moved |-> call'.moved,
                        failed |-> call'.failed]
        BY <3>1 DEF CallInv, CallShape
      <3> QED
        BY <3>2 DEF X
    <2>3. CallShape'
      <3>1. call.given \in [Groups -> Nat] /\ call.i \in Nat \ {0} /\ call.n \in Nat
        BY DEF CallInv, CallShape
      <3>2. [call.given EXCEPT ![Target] = @ + 1] \in [Groups -> Nat]
        BY <2>1, <3>1, SMTT(30)
      <3> QED
        BY <2>2, <3>1, <3>2, SMTT(30) DEF CallShape
    <2>4. \A k : View(k)' = View(k)
      BY <1>1, <2>2 DEF View
    <2>5. ~call.moved => Walked'
      <3> SUFFICES ASSUME ~call.moved PROVE Walked'
        OBVIOUS
      <3>1. Walked
        BY <1>1 DEF CallInv
      <3>2. call.i \in 1..call.n /\ call.n \in Nat /\ (call.i + 1) - 1 = call.i
        BY <1>1, SMTT(30) DEF Calling, CallInv, CallShape
      <3>3. \A k \in 1..call.i : k \in 1..(call.i - 1) \/ k = call.i
        BY <3>2, SMTT(30)
      <3>4. \A k \in 1..(call.i - 1) : k \in 1..call.i /\ k \in 1..call.n /\ k # call.i
        BY <3>2, SMTT(30)
      <3>5. call.i \in 1..call.i
        BY <3>2, SMTT(30)
      <3>6. \A k \in 1..(call.i - 1) : View(k) # Target
        BY <1>0, <3>1, <3>2, <3>4 DEF Walked
      <3>7. call'.given[Target] = 1
        BY <2>1, <2>2, <3>1, <3>6, SMTT(30) DEF Walked, CallInv, CallShape
      <3>8. \A h \in Groups \ {Target} : call'.given[h] =
                IF \E k \in 1..call.i : View(k) = h THEN 1 ELSE 0
        BY <1>0, <2>1, <2>2, <3>1, <3>3, <3>4 DEF Walked, CallInv, CallShape
      <3>9. \A h \in Groups : call'.given[h] =
                IF \E k \in 1..call.i : View(k) = h THEN 1 ELSE 0
        BY <1>0, <2>1, <3>5, <3>7, <3>8
      <3> QED
        BY <1>1, <2>2, <2>4, <3>1, <3>2, <3>9, SMTT(30) DEF Walked
    <2>6. ~call.moved => FanOut'
      BY <2>3, <2>5, WalkedFansOut, PTL
    <2>7. Calling' => Calling
      BY <1>1
    <2> QED
      BY <1>1, <2>2, <2>3, <2>5, <2>6 DEF CallInv
  <1>3. CASE Target \notin groups
    <2>1. call' = [call EXCEPT !.failed = TRUE]
      BY <1>3 DEF Dispatch
    <2>2. CallShape' /\ ~Calling'
      BY <2>1 DEF CallInv, CallShape, Calling
    <2>3. ~call.moved => Walked'
      <3>1. ~call.moved => Walked
        BY <1>1 DEF CallInv
      <3>2. call'.own = call.own /\ call'.cells = call.cells /\ call'.n = call.n
            /\ call'.i = call.i /\ call'.start = call.start
            /\ call'.given = call.given
        BY <2>1 DEF CallInv, CallShape
      <3>3. \A k : View(k)' = View(k)
        BY <1>1, <3>2 DEF View
      <3> QED
        BY <1>1, <3>1, <3>2, <3>3 DEF Walked
    <2>4. ~call.moved => FanOut'
      BY <2>2, <2>3, WalkedFansOut, PTL
    <2>5. call'.moved = call.moved
      BY <2>1 DEF CallInv, CallShape
    <2> QED
      BY <2>2, <2>4, <2>5 DEF CallInv
  <1> QED
    BY <1>2, <1>3

LEMMA TornCall ==
    ASSUME CallInv, DispatchTorn
    PROVE  CallInv'
  <1>1. call' = [call EXCEPT !.failed = TRUE] /\ call.moved
    BY DEF DispatchTorn
  <1>2. CallShape' /\ ~Calling' /\ call'.moved
    BY <1>1 DEF CallInv, CallShape, Calling
  <1> QED
    BY <1>2 DEF CallInv

(* The resolver turns to another array, or writes where no call looks: the *)
(* call sees the cells it saw.                                             *)
LEMMA CallKept ==
    ASSUME CallInv,
           \/ UNCHANGED call
           \/ call' = [call EXCEPT !.own = TRUE, !.cells = cells] /\ ~call.own,
           Calling => /\ \A k \in 1..call.n : View(k)' = View(k)
                      /\ ~call'.own => len' >= len /\ len \in Nat /\ len' \in Nat
                      /\ producer' = "down" => call'.own
    PROVE  CallInv'
  <1>1. /\ call'.n = call.n /\ call'.i = call.i /\ call'.start = call.start
        /\ call'.given = call.given /\ call'.moved = call.moved
        /\ call'.failed = call.failed
        /\ call'.own => TRUE
        /\ ~call'.own => ~call.own
        /\ CallShape'
    BY DEF CallInv, CallShape
  <1>2. Calling' <=> Calling
    BY <1>1 DEF Calling
  <1>3. FanOut' <=> FanOut
    BY <1>1, <1>2, SMTT(30) DEF FanOut
  <1>4. ASSUME Calling, ~call.moved PROVE Walked'
    <2>1. Walked
      BY <1>4 DEF CallInv
    <2>2. \A k \in 1..(call.i - 1) : k \in 1..call.n
      BY <2>1, SMTT(30) DEF Walked, CallInv, CallShape
    <2>3. ~call'.own => call'.n <= len'
      BY <1>1, <1>4, <2>1, SMTT(30) DEF Walked, CallInv, CallShape
    <2> QED
      BY <1>1, <1>4, <2>1, <2>2, <2>3, SMTT(30) DEF Walked
  <1> QED
    BY <1>1, <1>2, <1>3, <1>4 DEF CallInv

LEMMA DeliverCall ==
    ASSUME CacheInv, CallInv, Deliver
    PROVE  CallInv'
  <1> DEFINE g == Head(wire).group
  <1>1. ResolverShape /\ UNCHANGED producer
    BY DEF Deliver, CacheInv
  <1>2. CASE UNCHANGED <<cells, len, cap, call>>
    BY <1>1, <1>2, CallKept, SMTT(30) DEF View, ResolverShape, CallInv
  <1>3. CASE AddGroup(g) /\ g \notin Cached
    <2>1. len \in Nat /\ len' = len + 1
      BY <1>1, <1>3 DEF AddGroup, ResolverShape
    <2>2. CASE len < cap
      <3>1. UNCHANGED call /\ cells' = [cells EXCEPT ![len + 1] = g]
        BY <1>3, <2>2 DEF AddGroup
      <3>2. \A k \in 1..len : cells'[k] = cells[k]
        BY <1>1, <2>1, <3>1, SMTT(30) DEF ResolverShape
      <3>3. Calling /\ ~call.moved /\ ~call.own => call.n <= len
        BY DEF CallInv, Walked
      <3>4. CASE call.moved \/ ~Calling
        <4>1. CallShape' /\ (Calling' <=> Calling) /\ (FanOut' <=> FanOut)
          BY <3>1 DEF CallInv, CallShape, Calling, FanOut
        <4> QED
          BY <1>1, <3>1, <3>4, <4>1 DEF CallInv
      <3>5. CASE ~call.moved /\ Calling
        <4>1. \A k \in 1..call.n : View(k)' = View(k)
          BY <2>1, <3>1, <3>2, <3>3, <3>5, SMTT(30) DEF View, CallInv, CallShape
        <4> QED
          BY <1>1, <2>1, <3>1, <4>1, CallKept, SMTT(30) DEF CallInv
      <3> QED
        BY <3>4, <3>5
    <2>3. CASE ~(len < cap)
      <3>1. Freeze
        BY <1>3, <2>3 DEF AddGroup
      <3>2. CASE Calling /\ ~call.own
        <4>1. call' = [call EXCEPT !.own = TRUE, !.cells = cells]
          BY <3>1, <3>2 DEF Freeze
        <4>2. call'.own = TRUE /\ call'.cells = cells
          BY <4>1 DEF CallInv, CallShape
        <4>3. \A k : View(k)' = View(k)
          BY <3>2, <4>2 DEF View
        <4> QED
          BY <3>2, <4>1, <4>2, <4>3, CallKept
      <3>3. CASE ~(Calling /\ ~call.own)
        <4>1. UNCHANGED call
          BY <3>1, <3>3 DEF Freeze
        <4>2. Calling => \A k : View(k)' = View(k)
          BY <3>3, <4>1 DEF View
        <4> QED
          BY <1>1, <3>3, <4>1, <4>2, CallKept DEF CallInv
      <3> QED
        BY <3>2, <3>3
    <2> QED
      BY <2>2, <2>3
  <1>4. CASE RemoveGroup(g) /\ g \in Cached
    <2>1. CASE Calling /\ ~call.own
      <3>1. call' = [call EXCEPT !.moved = TRUE]
        BY <1>4, <2>1 DEF RemoveGroup
      <3>2. CallShape' /\ call'.moved /\ (Calling' <=> Calling)
            /\ call'.own = call.own
        BY <3>1 DEF CallInv, CallShape, Calling
      <3> QED
        BY <1>1, <2>1, <3>2 DEF CallInv
    <2>2. CASE ~(Calling /\ ~call.own)
      <3>1. UNCHANGED call
        BY <1>4, <2>2 DEF RemoveGroup
      <3>2. Calling => \A k : View(k)' = View(k)
        BY <2>2, <3>1 DEF View
      <3> QED
        BY <1>1, <2>2, <3>1, <3>2, CallKept DEF CallInv
    <2> QED
      BY <2>1, <2>2
  <1>5. AddGroup(g) \/ RemoveGroup(g)
    BY DEF Deliver
  <1>6. AddGroup(g) /\ g \in Cached => UNCHANGED <<cells, len, cap, call>>
    BY DEF AddGroup
  <1>7. RemoveGroup(g) /\ g \notin Cached => UNCHANGED <<cells, len, cap, call>>
    BY DEF RemoveGroup
  <1> QED
    BY <1>2, <1>3, <1>4, <1>5, <1>6, <1>7

(* The producer starts, stops or leaves its slice alone.                   *)
LEMMA ProducerCall ==
    ASSUME CacheInv, CallInv, Load \/ Subscribe \/ Clear
    PROVE  CallInv'
  <1>1. CASE Load
    <2>1. UNCHANGED call /\ producer = "down" /\ producer' = "loaded"
      BY <1>1 DEF Load
    <2>2. Calling => call.own
      BY <2>1 DEF CallInv
    <2>3. Calling => \A k : View(k)' = View(k)
      BY <2>1, <2>2 DEF View
    <2> QED
      BY <2>1, <2>2, <2>3, CallKept
  <1>2. CASE Subscribe
    <2>1. UNCHANGED <<call, cells, len>> /\ producer' # "down" /\ len \in Nat
      BY <1>2 DEF Subscribe, CacheInv, ResolverShape
    <2>2. \A k : View(k)' = View(k)
      BY <2>1 DEF View
    <2> QED
      BY <2>1, <2>2, CallKept, SMTT(30)
  <1>3. CASE Clear
    <2>1. Freeze
      BY <1>3 DEF Clear
    <2>2. CASE Calling /\ ~call.own
      <3>1. call' = [call EXCEPT !.own = TRUE, !.cells = cells]
        BY <2>1, <2>2 DEF Freeze
      <3>2. call'.own = TRUE /\ call'.cells = cells
        BY <3>1 DEF CallInv, CallShape
      <3>3. \A k : View(k)' = View(k)
        BY <2>2, <3>2 DEF View
      <3> QED
        BY <2>2, <3>1, <3>2, <3>3, CallKept
    <2>3. CASE ~(Calling /\ ~call.own)
      <3>1. UNCHANGED call
        BY <2>1, <2>3 DEF Freeze
      <3>2. Calling => \A k : View(k)' = View(k)
        BY <2>3, <3>1 DEF View
      <3> QED
        BY <2>3, <3>1, <3>2, CallKept
    <2> QED
      BY <2>2, <2>3
  <1> QED
    BY <1>1, <1>2, <1>3

LEMMA CallFrame ==
    ASSUME CallInv, UNCHANGED <<call, resolverVars>>
    PROVE  CallInv'
  <1>1. UNCHANGED <<call, cells, len, producer>>
    BY DEF resolverVars
  <1>2. \A k : View(k)' = View(k)
    BY <1>1 DEF View
  <1>3. CallShape' /\ (Calling' <=> Calling) /\ (FanOut' <=> FanOut)
    BY <1>1 DEF CallInv, CallShape, Calling, FanOut
  <1>4. Walked => Walked'
    BY <1>1, <1>2, SMTT(30) DEF Walked
  <1> QED
    BY <1>1, <1>3, <1>4 DEF CallInv

LEMMA NextCall ==
    MemberInv /\ CacheInv /\ CallInv /\ [Next]_vars => CallInv'
  <1> SUFFICES ASSUME MemberInv, CacheInv, CallInv, [Next]_vars PROVE CallInv'
    OBVIOUS
  <1>1. CASE \E g \in Named : Save(g) \/ Delete(g)
    BY <1>1, CallFrame DEF Save, Delete
  <1>2. CASE \E e \in unpublished : PublishEvent(e)
    BY <1>2, CallFrame DEF PublishEvent
  <1>3. CASE \E c \in Consumers :
                \/ PrepareConsumerGroup(c) \/ Announce(c) \/ SubscribeConsumer(c)
                \/ UnsubscribeConsumer(c) \/ DeleteEphemeral(c)
    BY <1>3, CallFrame DEF PrepareConsumerGroup, Announce, SubscribeConsumer,
       UnsubscribeConsumer, DeleteEphemeral
  <1>4. CASE \E c \in Consumers : Take(c) \/ Settle(c) \/ Die(c) \/ Reap(c)
    BY <1>4, CallFrame DEF Take, Settle, Die, Reap
  <1>5. CASE \/ \E g \in Groups : Requeue(g)
             \/ ReapMessages \/ ReapGroup \/ ReapRegistration \/ LoseEvent
    BY <1>5, CallFrame DEF Requeue, ReapMessages, ReapGroup, ReapRegistration,
       LoseEvent
  <1>6. CASE UNCHANGED vars
    BY <1>6, CallFrame DEF vars
  <1> QED
    BY <1>1, <1>2, <1>3, <1>4, <1>5, <1>6, ProducerCall, DeliverCall,
       ProduceCall, DispatchCall, TornCall DEF Next

(* A call of Produce walks over the slice it took: the groups before its   *)
(* index have one copy each, whichever array the resolver writes to.       *)
THEOREM CallInvariant == Spec => []CallInv
  BY MembersInvariant, CacheInvariant, InitCall, NextCall, PTL DEF Spec

(* Produce gives every group of the slice it took from the resolver one    *)
(* copy and no other group any, although the resolver may append to the    *)
(* slice, reallocate or clear it while the loop runs.                      *)
THEOREM ProduceFansOut == Spec => []FanOut
  <1>1. CallInv => FanOut
    BY DEF CallInv, FanOut
  <1> QED
    BY <1>1, CallInvariant, PTL
=============================================================================
