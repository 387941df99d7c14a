--------------------------- MODULE ClusterProofs ---------------------------
(***************************************************************************)
(* Safety of the coordinator for every set of nodes and objects, every      *)
(* bound, and any number of crashes, also in the middle of a save; then     *)
(* safety of a cluster of any number of nodes, objects and requests.  What  *)
(* holds of the coordinator on its own is used for the coordinator among    *)
(* its nodes: every step of the cluster is a step of the coordinator or     *)
(* leaves it alone.                                                         *)
(***************************************************************************)
EXTENDS Cluster, TLAPS

-----------------------------------------------------------------------------
(* The coordinator on its own *)

\* The process has a snapshot path and its saves succeed.
Reliable == HasSnapshot /\ ~SaveErrors

Empty == [o \in Object |-> None]

\* Memory: a stopped process has none, and a pending migration is the next one.
Memory ==
  /\ TypeOK
  /\ PendingIsNext
  /\ ~up => objects = Empty /\ migrations = Empty

\* What an action that handles a message leaves to prove.
LEMMA ServedType ==
  ASSUME TypeOK, Served, objects' \in [Object -> Owned \cup {None}]
  PROVE  /\ up /\ up' = up /\ epoch' = epoch /\ boot' = boot
         /\ snapshot' \in Snapshot \cup {None, Torn}
         /\ ledger' \in [Object -> Owned \cup {None}]
<1>1. [epoch |-> epoch, objects |-> objects'] \in Snapshot
  BY DEF TypeOK, Snapshot
<1> QED
  BY <1>1 DEF Served, Save, TypeOK

\* The initial state satisfies the memory invariant.
LEMMA InitMemory == Init => Memory
BY DEF Init, Memory, TypeOK, PendingIsNext, Empty

\* Every step preserves the memory invariant.
LEMMA NextMemory == Memory /\ [Next]_vars => Memory'
<1> SUFFICES ASSUME Memory, [Next]_vars PROVE Memory'
  OBVIOUS
<1> USE DEF Memory
<1>1. CASE UNCHANGED vars
  BY <1>1 DEF vars, TypeOK, PendingIsNext, Empty
<1>2. ASSUME NEW n \in Node, Register(n) PROVE Memory'
  <2>1. objects' = objects /\ migrations' = migrations /\ grants' = grants /\ Served
    BY <1>2 DEF Register
  <2>2. nodes' \subseteq Node /\ hellos' \subseteq Hello
    BY <1>2 DEF Register, TypeOK, Hello
  <2>3. TypeOK'
    BY <2>1, <2>2, ServedType DEF TypeOK
  <2>4. PendingIsNext' /\ up'
    BY <2>1 DEF PendingIsNext, Served
  <2> QED BY <2>3, <2>4
<1>3. ASSUME NEW o \in Object, NEW n \in Node, Create(o, n) PROVE Memory'
  <2>1. migrations' = migrations /\ hellos' = hellos /\ nodes' = nodes /\ Served
    BY <1>3 DEF Create
  <2>2. CASE /\ objects[o] = None /\ Granted(o, n, 0)
             /\ objects' = [objects EXCEPT ![o] = [owner |-> n, fence |-> 0]]
    <3>1. objects' \in [Object -> Owned \cup {None}] /\ grants' \subseteq Grant
      BY <2>2 DEF TypeOK, Owned, Granted, Grant
    <3>2. TypeOK'
      BY <2>1, <3>1, ServedType DEF TypeOK
    <3>3. \A p \in Object : migrations[p] # None => objects'[p] = objects[p]
      BY <2>2 DEF PendingIsNext, TypeOK
    <3>4. PendingIsNext' /\ up'
      BY <2>1, <3>3 DEF PendingIsNext, Served
    <3> QED BY <3>2, <3>4
  <2>3. CASE /\ objects[o] # None /\ Granted(o, n, objects[o].fence) /\ objects' = objects
    <3>1. objects[o].fence \in Nat
      BY <2>3 DEF TypeOK, Owned
    <3>2. grants' \subseteq Grant
      BY <2>3, <3>1 DEF TypeOK, Granted, Grant
    <3>3. TypeOK'
      BY <2>1, <2>3, <3>2, ServedType DEF TypeOK
    <3>4. PendingIsNext' /\ up'
      BY <2>1, <2>3 DEF PendingIsNext, Served
    <3> QED BY <3>3, <3>4
  <2> QED BY <1>3, <2>2, <2>3 DEF Create
<1>4. ASSUME NEW o \in Object, NEW f \in 0..MaxFence, LeaseRenew(o, f) PROVE Memory'
  <2>1. objects' = objects /\ migrations' = migrations /\ hellos' = hellos
          /\ nodes' = nodes /\ Served
    BY <1>4 DEF LeaseRenew
  <2>2. objects[o].owner \in Node /\ objects[o].fence = f /\ f \in Nat
    BY <1>4 DEF LeaseRenew, TypeOK, Owned
  <2>3. grants' \subseteq Grant
    BY <1>4, <2>2 DEF LeaseRenew, Granted, Grant, TypeOK
  <2>4. TypeOK'
    BY <2>1, <2>3, ServedType DEF TypeOK
  <2>5. PendingIsNext' /\ up'
    BY <2>1 DEF PendingIsNext, Served
  <2> QED BY <2>4, <2>5
<1>5. ASSUME NEW o \in Object, NEW n \in Node, NEW f \in 0..MaxFence, Migrate(o, n, f)
      PROVE  Memory'
  <2> DEFINE m == [new_owner |-> n, to_fence |-> objects[o].fence + 1]
  <2>1. /\ objects' = objects /\ hellos' = hellos /\ nodes' = nodes /\ grants' = grants
        /\ Served /\ objects[o] # None /\ migrations' = [migrations EXCEPT ![o] = m]
    BY <1>5 DEF Migrate
  <2>2. m \in Migration /\ m.to_fence = objects[o].fence + 1
    BY <2>1 DEF TypeOK, Owned, Migration
  <2> HIDE DEF m
  <2>3. TypeOK'
    BY <2>1, <2>2, ServedType DEF TypeOK
  <2>4. PendingIsNext' /\ up'
    BY <2>1, <2>2 DEF PendingIsNext, Served, TypeOK
  <2> QED BY <2>3, <2>4
<1>6. ASSUME NEW o \in Object, NEW n \in Node, NEW f \in 0..MaxFence, MigrateAck(o, n, f)
      PROVE  Memory'
  <2>1. /\ hellos' = hellos /\ nodes' = nodes /\ grants' = grants /\ Served
        /\ migrations[o] = [new_owner |-> n, to_fence |-> f]
        /\ migrations' = [migrations EXCEPT ![o] = None]
    BY <1>6 DEF MigrateAck
  <2>2. f \in Nat
    OBVIOUS
  <2>3. /\ objects' \in [Object -> Owned \cup {None}]
        /\ \A p \in Object : p # o => objects'[p] = objects[p]
    BY <1>6, <2>2 DEF MigrateAck, TypeOK, Owned
  <2>4. TypeOK'
    BY Zenon, <2>1, <2>3, ServedType DEF TypeOK
  <2>5. PendingIsNext' /\ up'
    BY <2>1, <2>3 DEF PendingIsNext, Served, TypeOK
  <2> QED BY <2>4, <2>5
<1>7. CASE ReadOrRefuse
  <2>1. TypeOK'
    BY <1>7, ServedType DEF ReadOrRefuse, TypeOK
  <2>2. PendingIsNext' /\ up'
    BY <1>7 DEF ReadOrRefuse, PendingIsNext, Served
  <2> QED BY <2>1, <2>2
<1>8. CASE Crash
  BY Zenon, <1>8 DEF Crash, TypeOK, PendingIsNext, Empty
<1>9. CASE Start
  <2>1. objects' \in [Object -> Owned \cup {None}] /\ epoch' \in Nat
    BY <1>9 DEF Start, TypeOK, Snapshot
  <2>2. TypeOK'
    BY <1>9, <2>1 DEF Start, TypeOK
  <2>3. PendingIsNext' /\ up'
    BY <1>9 DEF Start, PendingIsNext, Empty
  <2> QED BY <2>2, <2>3
<1> QED
  BY <1>1, <1>2, <1>3, <1>4, <1>5, <1>6, <1>7, <1>8, <1>9 DEF Next

\* The memory invariant holds in every reachable state.
LEMMA MemoryInvariance == Spec => []Memory
BY InitMemory, NextMemory, PTL DEF Spec

-----------------------------------------------------------------------------
(* A snapshot after every message *)

\* The snapshot agrees with the last handled message; a torn one is never
\* loaded; nothing was promised before the first save.
Saved ==
  /\ up => objects = ledger /\ snapshot # Torn
  /\ snapshot \in Snapshot => snapshot.objects = ledger
  /\ snapshot = None => ledger = Empty /\ hellos = {} /\ grants = {}

\* No reply carries an epoch beyond the snapshot's, and the current epoch is
\* announced under the current boot identity only.
Epochs ==
  /\ snapshot \in Snapshot =>
       /\ up => snapshot.epoch <= epoch
       /\ \A h \in hellos : h.epoch <= snapshot.epoch
       /\ \A g \in grants : g.epoch <= snapshot.epoch
  /\ up => \A h \in hellos : h.epoch = epoch => h.boot = boot
  /\ EpochNamesBoot

\* Grants never exceed the fence on record, and those that reach it name the
\* owner on record.
Fences ==
  /\ \A g \in grants :
       /\ ledger[g.object] # None
       /\ g.fence <= ledger[g.object].fence
       /\ g.fence = ledger[g.object].fence => g.owner = ledger[g.object].owner
  /\ OneOwnerPerFence
  /\ GrantsOrdered

Durable == Saved /\ Epochs /\ Fences

\* Handling a message leaves a snapshot of the new state.
LEMMA ServedSaves ==
  ASSUME Reliable, TypeOK, TypeOK', Served
  PROVE  /\ up /\ up' /\ epoch' = epoch /\ boot' = boot
         /\ ledger' = objects'
         /\ snapshot' \in Snapshot /\ snapshot' # None /\ snapshot' # Torn
         /\ snapshot'.objects = objects' /\ snapshot'.epoch = epoch
<1>1. snapshot' = [epoch |-> epoch, objects |-> objects']
  BY DEF Reliable, Served, Save
<1>2. snapshot' \in Snapshot
  BY <1>1 DEF Snapshot, TypeOK
<1> QED
  BY <1>1, <1>2, CoordinatorAssumption DEF Served

\* Handling a message re-establishes the agreement.
LEMMA SavedStep ==
  ASSUME Reliable, TypeOK, TypeOK', Served
  PROVE  Saved'
BY ServedSaves DEF Saved

\* In a running process every reply so far carries at most the current epoch.
LEMMA EpochBound ==
  ASSUME TypeOK, Saved, Epochs, up
  PROVE  /\ \A h \in hellos : h.epoch <= epoch
         /\ \A g \in grants : g.epoch <= epoch
<1>1. CASE snapshot = None
  BY <1>1 DEF Saved
<1>2. CASE snapshot \in Snapshot
  <2>1. snapshot.epoch \in Nat /\ epoch \in Nat
    BY <1>2 DEF Snapshot, TypeOK
  <2>2. /\ \A h \in hellos : h.epoch \in Nat
        /\ \A g \in grants : g.epoch \in Nat
    BY DEF TypeOK, Hello, Grant
  <2> QED BY <1>2, <2>1, <2>2 DEF Epochs
<1> QED
  BY <1>1, <1>2 DEF Saved, TypeOK

\* A message that announces nothing keeps the epochs in order.
LEMMA EpochsStep ==
  ASSUME Reliable, TypeOK, TypeOK', Saved, Epochs, Served, hellos' = hellos,
         \A g \in grants' : g \in grants \/ g.epoch = epoch
  PROVE  Epochs'
<1>1. epoch \in Nat
  BY DEF TypeOK
<1> QED
  BY <1>1, ServedSaves, EpochBound DEF Epochs, EpochNamesBoot, Served

\* A message that neither grants nor moves anything keeps the fences.
LEMMA FencesKept ==
  ASSUME Fences, ledger' = ledger, grants' = grants
  PROVE  Fences'
BY DEF Fences, OneOwnerPerFence, GrantsOrdered

\* A grant of the fence on record keeps the fences.
LEMMA FencesGrant ==
  ASSUME TypeOK, Saved, Epochs, Fences, up, ledger' = ledger,
         NEW o \in Object, objects[o] # None,
         Granted(o, objects[o].owner, objects[o].fence)
  PROVE  Fences'
<1> DEFINE x == [object |-> o, epoch |-> epoch, fence |-> objects[o].fence,
                 owner |-> objects[o].owner]
<1>1. /\ x.object = o /\ x.epoch = epoch /\ x.fence = objects[o].fence
      /\ x.owner = objects[o].owner
  OBVIOUS
<1>2. grants' = grants \cup {x} \/ grants' = grants
  BY DEF Granted
<1>3. ledger = objects /\ objects[o].fence \in Nat /\ epoch \in Nat
  BY DEF Saved, TypeOK, Owned
<1> HIDE DEF x
<1>4. \A g \in grants : g.fence \in Nat /\ g.epoch \in Nat /\ g.epoch <= epoch
  BY EpochBound DEF TypeOK, Grant
<1>5. \A g \in grants' :
        /\ ledger'[g.object] # None
        /\ g.fence <= ledger'[g.object].fence
        /\ g.fence = ledger'[g.object].fence => g.owner = ledger'[g.object].owner
  BY <1>1, <1>2, <1>3 DEF Fences
<1>6. OneOwnerPerFence'
  BY <1>1, <1>2, <1>3, <1>4 DEF Fences, OneOwnerPerFence
<1>7. GrantsOrdered'
  BY <1>1, <1>2, <1>3, <1>4 DEF Fences, GrantsOrdered
<1> QED
  BY <1>5, <1>6, <1>7 DEF Fences

\* Nothing is promised initially.
LEMMA InitDurable == Init => Durable
BY CoordinatorAssumption DEF Init, Durable, Saved, Epochs, Fences, Empty, EpochNamesBoot,
   OneOwnerPerFence, GrantsOrdered

\* register: the new Hello carries the epoch of the snapshot just written.
LEMMA RegisterDurable ==
  ASSUME Reliable, Memory, Memory', Durable, NEW n \in Node, Register(n)
  PROVE  Durable'
<1> USE DEF Memory, Durable
<1> DEFINE x == [node |-> n, epoch |-> epoch, boot |-> boot]
<1>1. x.epoch = epoch /\ x.boot = boot /\ epoch \in Nat
  BY DEF TypeOK
<1>2. /\ hellos' = hellos \cup {x} \/ hellos' = hellos
      /\ grants' = grants /\ objects' = objects /\ Served
  BY DEF Register
<1> HIDE DEF x
<1>3. Saved'
  BY <1>2, SavedStep
<1>4. Epochs'
  BY <1>1, <1>2, ServedSaves, EpochBound DEF Epochs, EpochNamesBoot, Served
<1>5. ledger' = ledger
  BY <1>2 DEF Served, Saved
<1> QED
  BY <1>2, <1>3, <1>4, <1>5, FencesKept

\* create and renew: the grant is of the fence on record.
LEMMA GrantDurable ==
  ASSUME Reliable, Memory, Memory', Durable, Served, objects' = objects,
         hellos' = hellos, NEW o \in Object, objects[o] # None,
         Granted(o, objects[o].owner, objects[o].fence)
  PROVE  Durable'
<1> USE DEF Memory, Durable
<1>1. Saved'
  BY SavedStep
<1>2. Epochs'
  BY EpochsStep DEF Granted
<1>3. up /\ ledger' = ledger
  BY DEF Served, Saved
<1> QED
  BY <1>1, <1>2, <1>3, FencesGrant

\* The first claim of an object: no grant for it exists.
LEMMA ClaimDurable ==
  ASSUME Reliable, Memory, Memory', Durable, Served, hellos' = hellos,
         NEW o \in Object, NEW n \in Node, objects[o] = None, Granted(o, n, 0),
         objects' = [objects EXCEPT ![o] = [owner |-> n, fence |-> 0]]
  PROVE  Durable'
<1> USE DEF Memory, Durable
<1> DEFINE x == [object |-> o, epoch |-> epoch, fence |-> 0, owner |-> n]
<1>1. x.object = o /\ x.epoch = epoch /\ x.fence = 0 /\ x.owner = n /\ epoch \in Nat
  BY DEF TypeOK
<1>2. grants' = grants \cup {x} \/ grants' = grants
  BY DEF Granted
<1> HIDE DEF x
<1>3. Saved'
  BY SavedStep
<1>4. Epochs'
  BY <1>1, <1>2, EpochsStep
<1>5. ledger = objects /\ ledger' = objects'
  BY DEF Served, Saved
<1>6. /\ ledger'[o] = [owner |-> n, fence |-> 0]
      /\ \A p \in Object : p # o => ledger'[p] = ledger[p]
  BY <1>5 DEF TypeOK
<1>7. ledger'[o].owner = n /\ ledger'[o].fence = 0 /\ ledger'[o] # None
  <2>1. [owner |-> n, fence |-> 0] \in Owned
    BY DEF Owned
  <2> QED BY <1>6, <2>1, CoordinatorAssumption
<1>8. \A g \in grants : g.object \in Object /\ g.object # o
  BY <1>5 DEF Fences, TypeOK, Grant
<1>9. \A g \in grants' :
        /\ ledger'[g.object] # None
        /\ g.fence <= ledger'[g.object].fence
        /\ g.fence = ledger'[g.object].fence => g.owner = ledger'[g.object].owner
  BY <1>1, <1>2, <1>6, <1>7, <1>8 DEF Fences
<1>10. OneOwnerPerFence' /\ GrantsOrdered'
  BY <1>1, <1>2, <1>8 DEF Fences, OneOwnerPerFence, GrantsOrdered
<1> QED
  BY <1>3, <1>4, <1>9, <1>10 DEF Fences

\* A transfer moves to a fence above every grant.
LEMMA AckDurable ==
  ASSUME Reliable, Memory, Memory', Durable, NEW o \in Object, NEW n \in Node,
         NEW f \in 0..MaxFence, MigrateAck(o, n, f)
  PROVE  Durable'
<1> USE DEF Memory, Durable
<1>1. /\ hellos' = hellos /\ grants' = grants /\ Served
      /\ migrations[o] = [new_owner |-> n, to_fence |-> f]
  BY DEF MigrateAck
<1>2. f \in Nat
  OBVIOUS
<1>3. migrations[o] # None /\ migrations[o].to_fence = f
  BY SMTT(30), <1>1, <1>2, CoordinatorAssumption
<1>4. /\ objects[o] # None /\ objects[o].fence \in Nat /\ f = objects[o].fence + 1
      /\ objects' = [objects EXCEPT ![o] = [owner |-> n, fence |-> f]]
  BY <1>3 DEF PendingIsNext, MigrateAck, TypeOK, Owned
<1>5. Saved'
  BY <1>1, SavedStep
<1>6. Epochs'
  BY <1>1, EpochsStep
<1>7. ledger = objects /\ ledger' = objects'
  BY <1>1 DEF Served, Saved
<1>8. /\ ledger'[o].owner = n /\ ledger'[o].fence = f /\ ledger'[o] # None
      /\ \A p \in Object : p # o => ledger'[p] = ledger[p]
  <2>1. [owner |-> n, fence |-> f] \in Owned
    BY <1>2 DEF Owned
  <2> QED BY <1>4, <1>7, <2>1, CoordinatorAssumption DEF TypeOK
<1>9. \A g \in grants : g.object \in Object /\ g.fence \in Nat
  BY DEF TypeOK, Grant
<1>10. \A g \in grants' :
         /\ ledger'[g.object] # None
         /\ g.fence <= ledger'[g.object].fence
         /\ g.fence = ledger'[g.object].fence => g.owner = ledger'[g.object].owner
  BY <1>1, <1>4, <1>7, <1>8, <1>9 DEF Fences
<1>11. OneOwnerPerFence' /\ GrantsOrdered'
  BY <1>1 DEF Fences, OneOwnerPerFence, GrantsOrdered
<1> QED
  BY <1>5, <1>6, <1>10, <1>11 DEF Fences

\* A restart loads what was promised, under an epoch nobody was told.
LEMMA StartDurable ==
  ASSUME Reliable, Memory, Memory', Durable, Start
  PROVE  Durable'
<1> USE DEF Memory, Durable
<1>1. UNCHANGED <<snapshot, ledger, hellos, grants>> /\ snapshot # Torn
  BY DEF Start
<1>2. CASE snapshot = None
  <2>1. objects' = Empty /\ ledger = Empty /\ hellos = {} /\ grants = {}
    BY <1>2, CoordinatorAssumption DEF Start, Saved
  <2>2. Saved'
    BY SMTT(30), <1>1, <1>2, <2>1, CoordinatorAssumption DEF Saved, Empty
  <2>3. Epochs' /\ Fences'
    BY <1>1, <1>2, <2>1, CoordinatorAssumption
       DEF Epochs, Fences, EpochNamesBoot, OneOwnerPerFence, GrantsOrdered
  <2> QED BY <2>2, <2>3
<1>3. CASE snapshot \in Snapshot
  <2>1. /\ epoch' = snapshot.epoch + 1 /\ objects' = snapshot.objects
        /\ snapshot.epoch \in Nat /\ snapshot # None
    BY <1>3, CoordinatorAssumption DEF Start, Snapshot
  <2>2. Saved'
    BY <1>1, <1>3, <2>1 DEF Saved
  <2>3. \A h \in hellos : h.epoch \in Nat
    BY DEF TypeOK, Hello
  <2>4. Epochs'
    BY SMTT(30), <1>1, <1>3, <2>1, <2>3 DEF Epochs, EpochNamesBoot
  <2> QED BY <1>1, <2>2, <2>4, FencesKept
<1> QED
  BY <1>1, <1>2, <1>3 DEF TypeOK

\* Every step keeps what the coordinator promised.
LEMMA NextDurable ==
  ASSUME Reliable, Memory, Memory', Durable, [Next]_vars
  PROVE  Durable'
<1> USE DEF Memory, Durable
<1>1. CASE UNCHANGED vars
  BY SMTT(30), <1>1 DEF vars, Saved, Epochs, Fences, EpochNamesBoot, OneOwnerPerFence,
     GrantsOrdered, Empty
<1>2. ASSUME NEW o \in Object, NEW n \in Node, Create(o, n) PROVE Durable'
  BY SMTT(30), <1>2, ClaimDurable, GrantDurable DEF Create
<1>3. ASSUME NEW o \in Object, NEW f \in 0..MaxFence, LeaseRenew(o, f) PROVE Durable'
  BY <1>3, GrantDurable DEF LeaseRenew
<1>4. ASSUME Served, objects' = objects, hellos' = hellos, grants' = grants
      PROVE  Durable'
  <2>1. Saved' /\ Epochs'
    BY <1>4, SavedStep, EpochsStep
  <2>2. ledger' = ledger
    BY <1>4 DEF Served, Saved
  <2> QED BY <1>4, <2>1, <2>2, FencesKept
<1>5. CASE Crash
  <2>1. UNCHANGED <<epoch, boot, ledger, hellos, grants>> /\ ~up'
          /\ snapshot' \in {snapshot, Torn}
    BY <1>5 DEF Crash
  <2>2. Saved' /\ Epochs'
    BY <2>1, CoordinatorAssumption DEF Saved, Epochs, EpochNamesBoot, Empty
  <2> QED BY <2>1, <2>2, FencesKept
<1>6. ASSUME NEW o \in Object, NEW n \in Node, NEW f \in 0..MaxFence, Migrate(o, n, f)
      PROVE  Durable'
  BY <1>4, <1>6 DEF Migrate
<1>7. CASE ReadOrRefuse
  BY <1>4, <1>7 DEF ReadOrRefuse
<1> QED
  BY <1>1, <1>2, <1>3, <1>5, <1>6, <1>7, RegisterDurable, AckDurable, StartDurable DEF Next

\* With reliable saves the coordinator keeps its promises in every state.
LEMMA Durability ==
  ASSUME Reliable
  PROVE  Spec => []Durable
<1>1. Memory /\ Memory' /\ Durable /\ [Next]_vars => Durable'
  BY NextDurable
<1> QED
  BY <1>1, InitDurable, MemoryInvariance, PTL DEF Spec

-----------------------------------------------------------------------------
(* Theorems *)

\* Every variable of the coordinator keeps its type.
THEOREM CoordinatorTypeCorrect == Spec => []TypeOK
<1>1. Memory => TypeOK
  BY DEF Memory
<1> QED
  BY <1>1, MemoryInvariance, PTL

\* An ack always moves the fence by exactly one, whatever requests, crashes and
\* failed saves came before it.
THEOREM MigrationIsNextFence == Spec => []PendingIsNext
<1>1. Memory => PendingIsNext
  BY DEF Memory
<1> QED
  BY <1>1, MemoryInvariance, PTL

\* With a snapshot path and saves that succeed there are never two owners with
\* the same fence, through any number of crashes and restarts.
THEOREM SingleOwner ==
  ASSUME Reliable
  PROVE  Spec => []OneOwnerPerFence
<1>1. Durable => OneOwnerPerFence
  BY DEF Durable, Fences
<1> QED
  BY <1>1, Durability, PTL

\* Under the same assumption fences never fall as epochs advance.
THEOREM FencesFollowEpochs ==
  ASSUME Reliable
  PROVE  Spec => []GrantsOrdered
<1>1. Durable => GrantsOrdered
  BY DEF Durable, Fences
<1> QED
  BY <1>1, Durability, PTL

\* Under the same assumption an announced epoch identifies one incarnation of
\* the coordinator, although load_state does not save the epoch it advances to.
THEOREM EpochsIdentify ==
  ASSUME Reliable
  PROVE  Spec => []EpochNamesBoot
<1>1. Durable => EpochNamesBoot
  BY DEF Durable, Epochs
<1> QED
  BY <1>1, Durability, PTL

\* Under the same assumption a running coordinator always has the ownership its
\* last reply was based on.
THEOREM OwnershipSurvives ==
  ASSUME Reliable
  PROVE  Spec => []OwnershipKept
<1>1. Durable => OwnershipKept
  BY DEF Durable, Saved, OwnershipKept
<1> QED
  BY <1>1, Durability, PTL

\* Every step of the coordinator claims one free object, transfers one owned
\* object to the next fence, or leaves the ownership as it is.
LEMMA OwnershipStep ==
  ASSUME Memory, Durable, [Next]_vars
  PROVE  [Abstract!Next]_ledger
<1> USE DEF Memory, Durable
<1> SUFFICES ASSUME ledger' # ledger PROVE Abstract!Next
  BY SMTT(30)
<1>1. PICK o \in Object, n \in Node :
         Create(o, n) \/ \E f \in 0..MaxFence : MigrateAck(o, n, f)
  <2>1. objects' = objects /\ Served => ledger' = ledger
    BY DEF Served, Saved
  <2> QED
    BY <2>1 DEF Next, vars, Register, LeaseRenew, Migrate, ReadOrRefuse, Crash, Start
<1>2. up /\ ledger = objects /\ ledger' = objects'
  BY Zenon, <1>1 DEF Create, MigrateAck, Served, Saved
<1>3. CASE Create(o, n)
  BY <1>2, <1>3 DEF Create, Abstract!Next, Abstract!Claim
<1>4. ASSUME NEW f \in 0..MaxFence, MigrateAck(o, n, f) PROVE Abstract!Next
  <2>1. f \in Nat /\ migrations[o] = [new_owner |-> n, to_fence |-> f]
    BY <1>4 DEF MigrateAck
  <2>2. migrations[o] # None /\ migrations[o].to_fence = f
    BY <2>1, CoordinatorAssumption
  <2>3. objects[o] # None /\ f = objects[o].fence + 1
    BY <2>2 DEF PendingIsNext
  <2> QED BY Zenon, <1>2, <1>4, <2>3 DEF MigrateAck, Abstract!Next, Abstract!Transfer
<1> QED
  BY <1>1, <1>3, <1>4

\* With a snapshot path and saves that succeed the coordinator implements the
\* abstract ownership specification.
THEOREM Refinement ==
  ASSUME Reliable
  PROVE  Spec => ImplementsOwnership
<1>1. Init => Abstract!Init
  BY DEF Init, Abstract!Init
<1>2. Memory /\ Durable /\ [Next]_vars => [Abstract!Next]_ledger
  BY OwnershipStep
<1> QED
  BY <1>1, <1>2, MemoryInvariance, Durability, PTL DEF Spec, ImplementsOwnership, Abstract!Spec

-----------------------------------------------------------------------------
(* The coordinator among its nodes *)

\* What is known of a request under way, given the copies made so far: its
\* fence is within the coordinator's bound, a migration names its new owner
\* and stores its copy there, and a claim or an acknowledgement follows a copy.
JobOK(j, copies) ==
  /\ j \in Job
  /\ j.fence \in 0..MaxFence
  /\ j.stage = "ask" => j.to \in Node
  /\ j.stage = "register" => j.payload \in Payload
  /\ j.stage \in {"find", "fetch", "replica"} => j.to = None
  /\ j.stage = "ack" => j.to # None
  /\ j.stage \in {"lookup", "create", "ack"} => <<j.object, j.peer>> \in copies
  /\ ~AnyAddress /\ j.to # None => j.peer = j.to

\* What is known of a frame that acknowledges a migration.
AckOK(a, copies) ==
  /\ a \in Ack
  /\ a.fence \in 0..MaxFence
  /\ ~AnyAddress => <<a.object, a.new_owner>> \in copies

Requests ==
  /\ \A t \in Thread : job[t] # None => JobOK(job[t], stored)
  /\ \A a \in acks : AckOK(a, stored)
  /\ \A n \in Node, o \in Object : held[n][o] # None => <<o, n>> \in stored

Shape == Memory /\ ClusterTypeOK /\ Requests

\* A request under way has the fields of one.
LEMMA JobFields ==
  ASSUME ClusterTypeOK, NEW t \in Thread, job[t] # None
  PROVE  /\ job[t] \in Job
         /\ job[t].node \in Node /\ job[t].peer \in Node /\ job[t].object \in Object
BY DEF ClusterTypeOK, Job

\* A step of the cluster is one of the coordinator, or leaves it as it is.
LEMMA CoordinatorStep ==
  ASSUME Shape, [ClusterNext]_clusterVars
  PROVE  [Next]_vars
<1>1. CASE UNCHANGED clusterVars
  BY <1>1 DEF clusterVars, vars
<1>2. ASSUME NEW t \in Thread, Begin(t) PROVE UNCHANGED vars
  BY ZenonT(30), <1>2 DEF Begin, BeginStore, BeginLookup, BeginMigrate, vars
<1>3. ASSUME NEW t \in Thread, Step(t) PROVE [Next]_vars
  <2>1. CASE RegisterCopy(t) \/ FetchCopy(t) \/ KeepReplica(t) \/ RestoreLocal(t)
             \/ SendAck(t) \/ PeerDown(t)
    BY <2>1 DEF RegisterCopy, FetchCopy, KeepReplica, RestoreLocal, SendAck, PeerDown, vars
  <2>2. CASE LookupOwner(t) \/ FindOwner(t)
    BY SMTT(30), <2>2 DEF LookupOwner, FindOwner, Next
  <2>3. CASE ClaimOwner(t)
    BY <2>3, JobFields DEF ClaimOwner, At, Shape, Next
  <2>4. CASE AskCoordinator(t)
    <3>1. CASE ReadOrRefuse
      BY <3>1 DEF Next
    <3>2. CASE Migrate(job[t].object, job[t].to, job[t].fence)
      <4>1. job[t] # None /\ job[t].stage = "ask"
        BY <2>4 DEF AskCoordinator, At
      <4>2. job[t].fence \in 0..MaxFence /\ job[t].object \in Object /\ job[t].to \in Node
        BY Zenon, <4>1, JobFields DEF Shape, Requests, JobOK
      <4> QED BY <3>2, <4>2 DEF Next
    <3> QED BY <2>4, <3>1, <3>2 DEF AskCoordinator
  <2> QED BY <1>3, <2>1, <2>2, <2>3, <2>4 DEF Step
<1>4. ASSUME NEW t \in Thread, Fail(t) PROVE UNCHANGED vars
  BY SMTT(30), <1>4 DEF Fail, vars
<1>5. ASSUME NEW a \in acks, AckArrives(a) PROVE [Next]_vars
  <2>1. a.object \in Object /\ a.new_owner \in Node /\ a.fence \in 0..MaxFence
    BY Zenon DEF Shape, Requests, AckOK, Ack
  <2> QED BY <1>5, <2>1 DEF AckArrives, Next
<1>6. ASSUME NEW n \in Node, StartNode(n) PROVE [Next]_vars
  BY <1>6 DEF StartNode, Next
<1>7. ASSUME NEW n \in Node, StopNode(n) PROVE UNCHANGED vars
  BY <1>7 DEF StopNode, vars
<1>8. ASSUME NEW n \in Node, NEW o \in Object, Reclaim(n, o) PROVE UNCHANGED vars
  BY <1>8 DEF Reclaim, vars
<1>9. CASE CrashCoordinator \/ StartCoordinator
  BY <1>9 DEF CrashCoordinator, StartCoordinator, Next
<1> QED
  BY <1>1, <1>2, <1>3, <1>4, <1>5, <1>6, <1>7, <1>8, <1>9 DEF ClusterNext

\* Requests stay sound while copies are added and one of them changes.
LEMMA JobChange ==
  ASSUME Shape, NEW t \in Thread, NEW j, j = None \/ JobOK(j, stored'),
         job' = [job EXCEPT ![t] = j], stored \subseteq stored'
  PROVE  /\ job' \in [Thread -> Job \cup {None}]
         /\ \A u \in Thread : job'[u] # None => JobOK(job'[u], stored')
<1>1. \A u \in Thread : job[u] # None => JobOK(job[u], stored')
  BY DEF Shape, Requests, JobOK
<1>2. job \in [Thread -> Job \cup {None}]
  BY DEF Shape, ClusterTypeOK
<1>3. j \in Job \cup {None}
  BY DEF JobOK
<1> QED
  BY SMTT(30), <1>1, <1>2, <1>3

\* Frames stay sound while copies are added.
LEMMA AcksKept ==
  ASSUME Shape, stored \subseteq stored', acks' \subseteq acks
  PROVE  acks' \subseteq Ack /\ \A a \in acks' : AckOK(a, stored')
BY SMTT(30) DEF Shape, Requests, ClusterTypeOK, AckOK

\* Every step preserves the shape of the cluster.
LEMMA ShapeStep ==
  ASSUME Shape, [ClusterNext]_clusterVars
  PROVE  Shape'
<1>1. Memory'
  BY CoordinatorStep, NextMemory DEF Shape
<1>2. TypeOK'
  BY <1>1 DEF Memory
<1> DEFINE NodesOK ==
      /\ serving \subseteq Node
      /\ held \in [Node -> [Object -> Payload \cup {None, Gone}]]
      /\ acks \subseteq Ack
      /\ stored \subseteq Object \X Node
      /\ acked \subseteq Object
      /\ job \in [Thread -> Job \cup {None}]
<1>3. NodesOK
  BY DEF Shape, ClusterTypeOK
<1>4. SUFFICES NodesOK' /\ Requests'
  BY SMTT(30), <1>1, <1>2 DEF Shape, ClusterTypeOK
<1>5. CASE UNCHANGED clusterVars
  BY <1>3, <1>5 DEF clusterVars, Shape, Requests
<1>6. ASSUME NEW t \in Thread, Begin(t) PROVE NodesOK' /\ Requests'
  <2>1. UNCHANGED <<serving, held, acks, stored, acked>>
    BY ZenonT(30), <1>6 DEF Begin, BeginStore, BeginLookup, BeginMigrate
  <2>2. PICK j : JobOK(j, stored) /\ job' = [job EXCEPT ![t] = j]
    <3>1. ASSUME NEW n \in Node, NEW o \in Object, NEW p \in Payload, BeginStore(t, n, o, p)
          PROVE  \E j : JobOK(j, stored) /\ job' = [job EXCEPT ![t] = j]
      <4> DEFINE j == [Request(n, o, "register") EXCEPT !.payload = p]
      <4>1. JobOK(j, stored)
        BY ClusterAssumption, CoordinatorAssumption DEF JobOK, Job, Request, Stage
      <4> QED BY Zenon, <3>1, <4>1 DEF BeginStore
    <3>2. ASSUME NEW n \in Node, NEW o \in Object, BeginLookup(t, n, o)
          PROVE  \E j : JobOK(j, stored) /\ job' = [job EXCEPT ![t] = j]
      <4>1. JobOK(Request(n, o, "find"), stored)
        BY ClusterAssumption, CoordinatorAssumption DEF JobOK, Job, Request, Stage
      <4> QED BY Zenon, <3>2, <4>1 DEF BeginLookup
    <3>3. ASSUME NEW n \in Node, NEW o \in Object, NEW to \in Node, NEW addr \in Node,
                 NEW f \in 0..MaxFence, BeginMigrate(t, n, o, to, addr, f)
          PROVE  \E j : JobOK(j, stored) /\ job' = [job EXCEPT ![t] = j]
      <4> DEFINE j == [Request(n, o, "ask") EXCEPT !.to = to, !.peer = addr, !.fence = f]
      <4>1. AnyAddress \/ addr = to
        BY <3>3 DEF BeginMigrate
      <4>2. f \in Nat
        BY ClusterAssumption
      <4>3. /\ j \in Job /\ j.stage = "ask" /\ j.to = to /\ j.peer = addr /\ j.fence = f
        BY Zenon, <4>2 DEF Job, Request, Stage
      <4>4. job' = [job EXCEPT ![t] = j]
        BY <3>3 DEF BeginMigrate
      <4> HIDE DEF j
      <4>5. JobOK(j, stored)
        BY SMTT(30), <4>1, <4>3 DEF JobOK
      <4> QED BY Zenon, <4>4, <4>5
    <3> QED BY <1>6, <3>1, <3>2, <3>3 DEF Begin
  <2> QED BY Zenon, <1>3, <2>1, <2>2, JobChange, AcksKept DEF Requests, Shape
<1>7. ASSUME NEW t \in Thread, Step(t) PROVE NodesOK' /\ Requests'
  <2> DEFINE j == job[t]
  <2>1. j # None /\ JobOK(j, stored) /\ j \in Job
    BY ZenonT(30), <1>7, JobFields
       DEF Shape, Requests, Step, RegisterCopy, LookupOwner, ClaimOwner, FindOwner,
            FetchCopy, KeepReplica, AskCoordinator, RestoreLocal, SendAck, PeerDown, At
  <2>2. j.peer \in Node /\ j.node \in Node /\ j.object \in Object
    BY SMTT(30), <2>1 DEF Job
  <2>3. CASE job' = [job EXCEPT ![t] = None] /\ UNCHANGED <<serving, held, acks, stored, acked>>
    BY <1>3, <2>3, JobChange, AcksKept DEF Requests, Shape
  <2>4. ASSUME NEW k, JobOK(k, stored), job' = [job EXCEPT ![t] = k],
               UNCHANGED <<serving, held, acks, stored, acked>>
        PROVE  NodesOK' /\ Requests'
    BY ZenonT(40), <1>3, <2>4, JobChange, AcksKept DEF Requests, Shape
  <2>5. CASE RegisterCopy(t)
    <3>1. UNCHANGED <<serving, acks, acked>> /\ j.stage = "register"
      BY <2>5 DEF RegisterCopy, At
    <3>2. CASE End(t) /\ UNCHANGED <<held, stored>>
      BY <2>3, <3>1, <3>2 DEF End
    <3> DEFINE k == [j EXCEPT !.stage = "lookup"]
    <3>3. CASE /\ held[j.peer][j.object] = j.payload /\ Goto(t, "lookup")
               /\ UNCHANGED <<held, stored>>
      <4>1. j.payload # None
        BY SMTT(30), <2>1, <3>1, ClusterAssumption DEF JobOK
      <4>2. <<j.object, j.peer>> \in stored
        BY <2>2, <3>3, <4>1 DEF Requests, Shape
      <4>3. JobOK(k, stored)
        BY <2>1, <4>2 DEF JobOK, Job, Stage
      <4> QED BY Zenon, <2>4, <3>1, <3>3, <4>3 DEF Goto
    <3>4. CASE Keep(j.peer, j.object, j.payload) /\ Goto(t, "lookup")
      <4>1. stored' = stored \cup {<<j.object, j.peer>>}
        BY <3>4 DEF Keep
      <4>2. JobOK(k, stored')
        BY <2>1, <4>1 DEF JobOK, Job, Stage
      <4>3. held' \in [Node -> [Object -> Payload \cup {None, Gone}]]
        BY <1>3, <2>1, <2>2, <3>4 DEF Keep, Job
      <4>4. \A n \in Node, o \in Object : held'[n][o] # None => <<o, n>> \in stored'
        BY <1>3, <2>2, <3>4 DEF Keep, Requests, Shape
      <4>5. job' = [job EXCEPT ![t] = k]
        BY <3>4 DEF Goto
      <4>6. stored' \subseteq Object \X Node
        BY <1>3, <2>2, <4>1
      <4> HIDE DEF k
      <4> QED BY Zenon, <1>3, <3>1, <4>1, <4>2, <4>3, <4>4, <4>5, <4>6, JobChange,
           AcksKept DEF Requests
    <3> QED BY SMTT(30), <2>5, <3>2, <3>3, <3>4 DEF RegisterCopy
  <2>6. CASE LookupOwner(t) \/ ClaimOwner(t)
    <3>1. UNCHANGED <<serving, held, acks, stored>> /\ j.stage \in {"lookup", "create"}
      BY <2>6 DEF LookupOwner, ClaimOwner, At
    <3>2. CASE Goto(t, "create") /\ UNCHANGED acked
      <4> DEFINE k == [j EXCEPT !.stage = "create"]
      <4>1. JobOK(k, stored)
        BY <2>1, <3>1 DEF JobOK, Job, Stage
      <4> QED BY Zenon, <2>4, <3>1, <3>2, <4>1 DEF Goto
    <3>3. CASE StoreAcked(t) /\ j.to = None
      <4>1. job' = [job EXCEPT ![t] = None] /\ acked' = acked \cup {j.object}
        BY <3>3 DEF StoreAcked, End
      <4> QED BY Zenon, <1>3, <2>2, <3>1, <4>1, JobChange, AcksKept DEF Requests, Shape
    <3>4. CASE StoreAcked(t) /\ j.to # None
      <4> DEFINE k == [j EXCEPT !.stage = "ack"]
      <4>1. JobOK(k, stored)
        BY <2>1, <3>1, <3>4 DEF JobOK, Job, Stage
      <4> QED BY <2>4, <3>1, <3>4, <4>1 DEF Goto, StoreAcked
    <3> QED BY Zenon, <2>6, <3>2, <3>3, <3>4 DEF LookupOwner, ClaimOwner
  <2>7. CASE FindOwner(t)
    <3>1. UNCHANGED <<serving, held, acks, stored, acked>> /\ j.stage = "find"
      BY <2>7 DEF FindOwner, At
    <3> DEFINE k == [j EXCEPT !.stage = "fetch", !.peer = objects[j.object].owner]
    <3>2. CASE objects[j.object] # None /\ job' = [job EXCEPT ![t] = k]
      <4>1. objects[j.object].owner \in Node
        BY <2>2, <3>2 DEF Shape, Memory, TypeOK, Owned
      <4>2. JobOK(k, stored)
        BY Zenon, <2>1, <3>1, <4>1 DEF JobOK, Job, Stage
      <4> QED BY Zenon, <2>4, <3>1, <3>2, <4>2
    <3>3. CASE End(t)
      BY <2>3, <3>1, <3>3 DEF End
    <3> QED BY <2>7, <3>2, <3>3 DEF FindOwner
  <2>8. CASE FetchCopy(t)
    <3>1. UNCHANGED <<serving, held, acks, stored, acked>> /\ j.stage = "fetch"
      BY <2>8 DEF FetchCopy, At
    <3> DEFINE k == [j EXCEPT !.stage = "replica", !.payload = held[j.peer][j.object]]
    <3>2. CASE held[j.peer][j.object] \in Payload /\ job' = [job EXCEPT ![t] = k]
      <4>1. JobOK(k, stored)
        BY Zenon, <2>1, <3>1, <3>2 DEF JobOK, Job, Stage
      <4> QED BY Zenon, <2>4, <3>1, <3>2, <4>1
    <3>3. CASE End(t)
      BY <2>3, <3>1, <3>3 DEF End
    <3> QED BY <2>8, <3>2, <3>3 DEF FetchCopy
  <2>9. CASE KeepReplica(t)
    <3>1. UNCHANGED <<serving, acks, acked>> /\ job' = [job EXCEPT ![t] = None]
      BY <2>9 DEF KeepReplica, End
    <3>2. CASE UNCHANGED <<held, stored>>
      BY <2>3, <3>1, <3>2
    <3>3. CASE Keep(j.node, j.object, j.payload)
      <4>1. stored' = stored \cup {<<j.object, j.node>>} /\ stored' \subseteq Object \X Node
        BY <1>3, <2>2, <3>3 DEF Keep
      <4>2. held' \in [Node -> [Object -> Payload \cup {None, Gone}]]
        BY <1>3, <2>1, <2>2, <3>3 DEF Keep, Job
      <4>3. \A n \in Node, o \in Object : held'[n][o] # None => <<o, n>> \in stored'
        BY <1>3, <2>2, <3>3 DEF Keep, Requests, Shape
      <4> QED BY Zenon, <1>3, <3>1, <4>1, <4>2, <4>3, JobChange, AcksKept DEF Requests
    <3> QED BY SMTT(30), <2>9, <3>2, <3>3 DEF KeepReplica
  <2>10. CASE AskCoordinator(t)
    <3>1. UNCHANGED <<serving, held, acks, stored, acked>> /\ j.stage = "ask"
      BY <2>10 DEF AskCoordinator, At
    <3> DEFINE own == objects[j.object]
               k == [j EXCEPT !.stage = "restore", !.fence = own.fence + 1, !.boot = boot]
    <3>2. CASE /\ own # None /\ Migrate(j.object, j.to, j.fence)
               /\ job' = [job EXCEPT ![t] = k]
      <4>1. own.fence \in Nat /\ own.fence < MaxFence /\ boot \in Nat
        BY <2>2, <3>2 DEF Shape, Memory, TypeOK, Owned, Migrate
      <4>2. own.fence + 1 \in 0..MaxFence /\ own.fence + 1 \in Nat
        BY <4>1, CoordinatorAssumption
      <4> HIDE DEF own
      <4>3. JobOK(k, stored)
        BY Zenon, <2>1, <3>1, <4>1, <4>2 DEF JobOK, Job, Stage
      <4> QED BY Zenon, <2>4, <3>1, <3>2, <4>3
    <3>3. CASE End(t)
      BY <2>3, <3>1, <3>3 DEF End
    <3> QED BY <2>10, <3>2, <3>3 DEF AskCoordinator
  <2>11. CASE RestoreLocal(t)
    <3>1. UNCHANGED <<serving, held, acks, stored, acked>> /\ j.stage = "restore"
      BY <2>11 DEF RestoreLocal, At
    <3> DEFINE k == [j EXCEPT !.stage = "register", !.payload = held[j.node][j.object]]
    <3>2. CASE held[j.node][j.object] \in Payload /\ job' = [job EXCEPT ![t] = k]
      <4>1. JobOK(k, stored)
        BY Zenon, <2>1, <3>1, <3>2 DEF JobOK, Job, Stage
      <4> QED BY Zenon, <2>4, <3>1, <3>2, <4>1
    <3>3. CASE End(t)
      BY SMTT(30), <2>3, <3>1, <3>3 DEF End
    <3> QED BY <2>11, <3>2, <3>3 DEF RestoreLocal
  <2>12. CASE SendAck(t)
    <3> DEFINE a == [object |-> j.object, new_owner |-> j.to, fence |-> j.fence]
    <3>1. /\ UNCHANGED <<serving, held, stored, acked>> /\ j.stage = "ack"
          /\ job' = [job EXCEPT ![t] = None]
          /\ acks' \in {acks, acks \cup {a}}
      BY <2>12 DEF SendAck, At, End
    <3>2. AckOK(a, stored)
      BY Zenon, <2>1, <3>1 DEF JobOK, Job, AckOK, Ack
    <3>3. a \in Ack
      BY Zenon, <3>2 DEF AckOK
    <3> HIDE DEF a
    <3>4. acks' \subseteq Ack /\ \A b \in acks' : AckOK(b, stored')
      BY <1>3, <3>1, <3>2, <3>3 DEF Requests, Shape
    <3> QED BY SMTT(30), <1>3, <3>1, <3>4, JobChange DEF Requests, Shape
  <2>13. CASE PeerDown(t)
    BY SMTT(30), <2>3, <2>13 DEF PeerDown, End
  <2> QED
    BY <1>7, <2>5, <2>6, <2>7, <2>8, <2>9, <2>10, <2>11, <2>12, <2>13 DEF Step
<1>8. ASSUME NEW t \in Thread, Fail(t) PROVE NodesOK' /\ Requests'
  <2>1. job' = [job EXCEPT ![t] = None] /\ UNCHANGED <<serving, held, acks, stored, acked>>
    BY <1>8 DEF Fail, End
  <2> QED BY <1>3, <2>1, JobChange, AcksKept DEF Requests, Shape
<1>9. ASSUME NEW a \in acks, AckArrives(a) PROVE NodesOK' /\ Requests'
  <2>1. acks' = acks \ {a} /\ UNCHANGED <<serving, held, job, stored, acked>>
    BY <1>9 DEF AckArrives
  <2> QED BY <1>3, <2>1, AcksKept DEF Requests, Shape
<1>10. ASSUME NEW n \in Node, StartNode(n) PROVE NodesOK' /\ Requests'
  BY <1>3, <1>10 DEF StartNode, Requests, Shape
<1>11. ASSUME NEW n \in Node, StopNode(n) PROVE NodesOK' /\ Requests'
  <2>1. UNCHANGED <<acks, stored, acked>> /\ serving' \subseteq serving
    BY <1>11 DEF StopNode
  <2>2. held' \in [Node -> [Object -> Payload \cup {None, Gone}]]
    BY <1>3, <1>11 DEF StopNode
  <2>3. job' \in [Thread -> Job \cup {None}]
    BY <1>3, <1>11 DEF StopNode
  <2>4. \A u \in Thread : job'[u] \in {None, job[u]}
    BY <1>11 DEF StopNode
  <2>5. \A m \in Node, o \in Object : held'[m][o] \in {None, held[m][o]}
    BY <1>3, <1>11 DEF StopNode
  <2> QED BY <1>3, <2>1, <2>2, <2>3, <2>4, <2>5 DEF Requests, Shape
<1>12. ASSUME NEW n \in Node, NEW o \in Object, Reclaim(n, o) PROVE NodesOK' /\ Requests'
  <2>1. UNCHANGED <<serving, job, acks, stored, acked>>
    BY <1>12 DEF Reclaim
  <2>2. held' \in [Node -> [Object -> Payload \cup {None, Gone}]]
    BY <1>3, <1>12 DEF Reclaim
  <2>3. \A m \in Node, p \in Object : held'[m][p] # None => held[m][p] # None
    BY <1>3, <1>12, ClusterAssumption DEF Reclaim
  <2> QED BY <1>3, <2>1, <2>2, <2>3 DEF Requests, Shape
<1>13. CASE CrashCoordinator \/ StartCoordinator
  BY <1>3, <1>13 DEF CrashCoordinator, StartCoordinator, Requests, Shape
<1> QED
  BY <1>5, <1>6, <1>7, <1>8, <1>9, <1>10, <1>11, <1>12, <1>13 DEF ClusterNext

\* The initial state has the shape of a cluster.
LEMMA ShapeInit == ClusterInit => Shape
<1> SUFFICES ASSUME ClusterInit PROVE Shape
  OBVIOUS
<1>1. Memory
  BY InitMemory DEF ClusterInit
<1>2. TypeOK
  BY <1>1 DEF Memory, TypeOK, Snapshot, Owned, Migration, Hello, Grant
<1> QED
  BY <1>1, <1>2 DEF ClusterInit, Shape, ClusterTypeOK, Requests

\* The shape of a cluster holds in every reachable state.
LEMMA ShapeInvariance == ClusterSpec => []Shape
<1>1. Shape /\ [ClusterNext]_clusterVars => Shape'
  BY ShapeStep
<1> QED
  BY ShapeInit, <1>1, PTL DEF ClusterSpec

\* The state of nodes, requests and frames stays well formed through every
\* interleaving of handlers, failures and restarts; in particular no request
\* carries an entry without a copy as if it were a payload.
THEOREM ClusterTypeCorrect == ClusterSpec => []ClusterTypeOK
<1>1. Shape => ClusterTypeOK
  BY DEF Shape
<1> QED
  BY ShapeInvariance, <1>1, PTL

\* The coordinator among its nodes is the coordinator of module Coordinator:
\* what the handlers of the nodes make it do, it does on its own as well.
THEOREM CoordinatorRefined == ClusterSpec => Spec
<1>1. ClusterInit => Init
  BY DEF ClusterInit
<1>2. Shape /\ [ClusterNext]_clusterVars => [Next]_vars
  BY CoordinatorStep
<1> QED
  BY ShapeInvariance, <1>1, <1>2, PTL DEF ClusterSpec, Spec

-----------------------------------------------------------------------------
(* Authority follows data *)

\* The owners on record had a copy.
Backed(record, copies) ==
  \A o \in Object : record[o] # None => <<o, record[o].owner>> \in copies

\* So have the owners in the snapshot, from which a restart takes them.
Owners ==
  /\ Backed(objects, stored)
  /\ snapshot \in Snapshot => Backed(snapshot.objects, stored)

\* Handling a message whose outcome is backed leaves a backed snapshot.
LEMMA ServedOwners ==
  ASSUME Owners, stored' = stored, Served, Backed(objects', stored)
  PROVE  Owners'
<1>1. \/ snapshot' = [epoch |-> epoch, objects |-> objects']
      \/ snapshot' = snapshot \/ snapshot' = Torn
  BY DEF Served, Save
<1>2. CASE snapshot' = [epoch |-> epoch, objects |-> objects']
  BY <1>2 DEF Owners, Backed
<1>3. CASE snapshot' = snapshot
  BY <1>3 DEF Owners, Backed
<1>4. CASE snapshot' = Torn
  BY <1>4, CoordinatorAssumption DEF Owners, Backed
<1> QED
  BY <1>1, <1>2, <1>3, <1>4

\* A step that leaves the coordinator alone may add copies.
LEMMA OwnersKept ==
  ASSUME Owners, UNCHANGED vars, stored \subseteq stored'
  PROVE  Owners'
BY DEF Owners, Backed, vars

\* Every step keeps owners backed by copies.
LEMMA OwnersStep ==
  ASSUME ~AnyAddress, Shape, Owners, [ClusterNext]_clusterVars
  PROVE  Owners'
<1>1. CASE UNCHANGED clusterVars
  BY <1>1, OwnersKept DEF clusterVars, vars
<1>2. ASSUME NEW t \in Thread, Begin(t) \/ Fail(t) PROVE Owners'
  BY ZenonT(30), <1>2, OwnersKept
     DEF Begin, BeginStore, BeginLookup, BeginMigrate, Fail, vars
<1>3. ASSUME NEW t \in Thread, Step(t) PROVE Owners'
  <2>1. CASE RegisterCopy(t) \/ FetchCopy(t) \/ KeepReplica(t) \/ RestoreLocal(t)
             \/ SendAck(t) \/ PeerDown(t)
    <3>1. UNCHANGED vars
      BY Zenon, <2>1 DEF RegisterCopy, FetchCopy, KeepReplica, RestoreLocal, SendAck,
           PeerDown, vars
    <3>2. stored \subseteq stored'
      BY ZenonT(30), <2>1
         DEF RegisterCopy, FetchCopy, KeepReplica, RestoreLocal, SendAck, PeerDown, Keep
    <3> QED BY SMTT(30), <3>1, <3>2, OwnersKept
  <2>2. CASE LookupOwner(t) \/ FindOwner(t) \/ AskCoordinator(t)
    <3>1. stored' = stored /\ objects' = objects /\ Served
      BY Zenon, <2>2 DEF LookupOwner, FindOwner, AskCoordinator, ReadOrRefuse, Migrate
    <3> QED BY <3>1, ServedOwners DEF Owners
  <2>3. CASE ClaimOwner(t)
    <3>1. /\ stored' = stored /\ Served
          /\ objects' \in {objects,
               [objects EXCEPT ![job[t].object] = [owner |-> job[t].peer, fence |-> 0]]}
      <4>1. stored' = stored /\ (Create(job[t].object, job[t].peer) \/ ReadOrRefuse)
        BY Zenon, <2>3 DEF ClaimOwner
      <4>2. CASE Create(job[t].object, job[t].peer)
        BY Zenon, <4>1, <4>2 DEF Create
      <4>3. CASE ReadOrRefuse
        BY <4>1, <4>3 DEF ReadOrRefuse
      <4> QED BY <4>1, <4>2, <4>3
    <3>2. job[t].object \in Object /\ <<job[t].object, job[t].peer>> \in stored
      BY Zenon, <2>3, JobFields DEF ClaimOwner, At, Shape, Requests, JobOK
    <3>3. objects \in [Object -> Owned \cup {None}]
      BY SMTT(30) DEF Shape, Memory, TypeOK
    <3>4. Backed(objects', stored)
      BY <3>1, <3>2, <3>3 DEF Owners, Backed
    <3> QED BY <3>1, <3>4, ServedOwners
  <2> QED BY <1>3, <2>1, <2>2, <2>3 DEF Step
<1>4. ASSUME NEW a \in acks, AckArrives(a) PROVE Owners'
  <2>1. /\ stored' = stored /\ Served
        /\ objects' \in {objects,
             [objects EXCEPT ![a.object] = [owner |-> a.new_owner, fence |-> a.fence]]}
    <3>1. stored' = stored /\ (MigrateAck(a.object, a.new_owner, a.fence) \/ ReadOrRefuse)
      BY Zenon, <1>4 DEF AckArrives
    <3>2. CASE MigrateAck(a.object, a.new_owner, a.fence)
      BY Zenon, <3>1, <3>2 DEF MigrateAck
    <3>3. CASE ReadOrRefuse
      BY <3>1, <3>3 DEF ReadOrRefuse
    <3> QED BY <3>1, <3>2, <3>3
  <2>2. <<a.object, a.new_owner>> \in stored
    BY DEF Shape, Requests, AckOK
  <2>3. objects \in [Object -> Owned \cup {None}]
    BY SMTT(30) DEF Shape, Memory, TypeOK
  <2>4. Backed(objects', stored)
    BY SMTT(30), <2>1, <2>2, <2>3 DEF Owners, Backed
  <2> QED BY <2>1, <2>4, ServedOwners
<1>5. ASSUME NEW n \in Node, StartNode(n) PROVE Owners'
  <2>1. stored' = stored /\ objects' = objects /\ Served
    BY <1>5 DEF StartNode, Register
  <2> QED BY <2>1, ServedOwners DEF Owners
<1>6. ASSUME NEW n \in Node, StopNode(n) PROVE Owners'
  BY <1>6, OwnersKept DEF StopNode, vars
<1>7. ASSUME NEW n \in Node, NEW o \in Object, Reclaim(n, o) PROVE Owners'
  BY <1>7, OwnersKept DEF Reclaim, vars
<1>8. CASE CrashCoordinator
  <2>1. /\ stored' = stored /\ objects' = [o \in Object |-> None]
        /\ snapshot' \in {snapshot, Torn}
    BY <1>8 DEF CrashCoordinator, Crash
  <2>2. Torn \notin Snapshot
    BY CoordinatorAssumption
  <2> QED BY <2>1, <2>2 DEF Owners, Backed
<1>9. CASE StartCoordinator
  <2>1. /\ stored' = stored /\ snapshot' = snapshot /\ snapshot # Torn
        /\ \/ objects' = objects
           \/ snapshot # None /\ objects' = snapshot.objects
    BY <1>9 DEF StartCoordinator, Start
  <2>2. snapshot # None => snapshot \in Snapshot
    BY <2>1 DEF Shape, Memory, TypeOK
  <2> QED BY SMTT(30), <2>1, <2>2 DEF Owners, Backed
<1> QED
  BY SMTT(30), <1>1, <1>2, <1>3, <1>4, <1>5, <1>6, <1>7, <1>8, <1>9 DEF ClusterNext

\* Authority follows data, in a cluster of any size, with any number of
\* requests under way, failing saves, torn snapshots and restarts: where
\* migrations name the address of their new owner, the owner the coordinator
\* names had a verified copy before.
THEOREM AuthorityFollowsData ==
  ASSUME ~AnyAddress
  PROVE  ClusterSpec => []OwnerHadCopy
<1>1. ClusterInit => Owners
  BY CoordinatorAssumption DEF ClusterInit, Init, Owners, Backed
<1>2. Shape /\ Owners /\ [ClusterNext]_clusterVars => Owners'
  BY OwnersStep
<1>3. Owners => OwnerHadCopy
  BY SMTT(30) DEF Owners, Backed, OwnerHadCopy
<1> QED
  BY ShapeInvariance, <1>1, <1>2, <1>3, PTL DEF ClusterSpec

-----------------------------------------------------------------------------
(* Acknowledged objects *)

\* Ownership on record is never lost.
LEMMA LedgerGrows ==
  ASSUME Memory, Saved, [Next]_vars
  PROVE  \A o \in Object : ledger[o] # None => ledger'[o] # None
<1>1. CASE UNCHANGED <<ledger>>
  BY <1>1
<1>2. ASSUME Served, objects' = objects
      PROVE  \A o \in Object : ledger[o] # None => ledger'[o] # None
  BY <1>2 DEF Served, Saved
<1>3. ASSUME Served, NEW p \in Object, NEW new \in Owned,
             objects' = [objects EXCEPT ![p] = new]
      PROVE  \A o \in Object : ledger[o] # None => ledger'[o] # None
  <2>1. new # None
    BY CoordinatorAssumption
  <2>2. objects \in [Object -> Owned \cup {None}]
    BY SMTT(30) DEF Memory, TypeOK
  <2> QED BY <1>3, <2>1, <2>2 DEF Served, Saved
<1>4. ASSUME NEW o \in Object, NEW n \in Node, Create(o, n)
      PROVE  \A p \in Object : ledger[p] # None => ledger'[p] # None
  <2>1. [owner |-> n, fence |-> 0] \in Owned
    BY SMTT(30) DEF Owned
  <2> QED BY <1>2, <1>3, <1>4, <2>1 DEF Create
<1>5. ASSUME NEW o \in Object, NEW n \in Node, NEW f \in 0..MaxFence, MigrateAck(o, n, f)
      PROVE  \A p \in Object : ledger[p] # None => ledger'[p] # None
  <2>1. f \in Nat
    BY ClusterAssumption
  <2>2. [owner |-> n, fence |-> f] \in Owned
    BY SMTT(30), <2>1 DEF Owned
  <2> QED BY <1>2, <1>3, <1>5, <2>2 DEF MigrateAck
<1>6. CASE \E n \in Node : Register(n)
  BY SMTT(30), <1>2, <1>6 DEF Register
<1>7. CASE \E o \in Object, f \in 0..MaxFence : LeaseRenew(o, f)
  BY SMTT(30), <1>2, <1>7 DEF LeaseRenew
<1>8. CASE \E o \in Object, n \in Node, f \in 0..MaxFence : Migrate(o, n, f)
  BY <1>2, <1>8 DEF Migrate
<1>9. CASE ReadOrRefuse
  BY SMTT(30), <1>2, <1>9 DEF ReadOrRefuse
<1>10. CASE Crash \/ Start
  BY <1>10 DEF Crash, Start
<1> QED
  BY SMTT(30), <1>1, <1>4, <1>5, <1>6, <1>7, <1>8, <1>9, <1>10 DEF Next, vars

\* Acknowledged objects are on record.
Claimed == \A o \in acked : ledger[o] # None

\* Every step keeps acknowledged objects on record.
LEMMA ClaimedStep ==
  ASSUME Shape, Saved, Claimed, [ClusterNext]_clusterVars
  PROVE  Claimed'
<1>1. \A o \in Object : ledger[o] # None => ledger'[o] # None
  BY CoordinatorStep, LedgerGrows DEF Shape
<1>2. acked \subseteq Object
  BY DEF Shape, ClusterTypeOK
<1>3. CASE acked' = acked
  BY <1>1, <1>2, <1>3 DEF Claimed
<1>4. ASSUME NEW t \in Thread, LookupOwner(t) \/ ClaimOwner(t) PROVE Claimed'
  <2>1. job[t].object \in Object
    BY SMTT(30), <1>4, JobFields DEF LookupOwner, ClaimOwner, At, Shape
  <2>2. acked' = acked \/ acked' = acked \cup {job[t].object}
    BY ZenonT(40), <1>4 DEF LookupOwner, ClaimOwner, StoreAcked
  <2>3. CASE acked' = acked
    BY <1>3, <2>3
  <2>4. CASE objects'[job[t].object] # None /\ Served
    BY SMTT(30), <1>1, <1>2, <2>2, <2>4 DEF Served, Claimed
  <2>5. CASE LookupOwner(t) /\ objects[job[t].object] # None
    <3>1. objects' = objects /\ Served
      BY SMTT(30), <2>5 DEF LookupOwner, ReadOrRefuse
    <3> QED BY SMTT(30), <2>4, <2>5, <3>1
  <2>6. CASE LookupOwner(t) /\ objects[job[t].object] = None
    BY SMTT(30), <2>3, <2>6 DEF LookupOwner
  <2>7. CASE ClaimOwner(t)
    <3>1. CASE Create(job[t].object, job[t].peer)
      <4>1. job[t].peer \in Node /\ objects \in [Object -> Owned \cup {None}]
        BY ZenonT(40), <1>4, JobFields DEF LookupOwner, ClaimOwner, At, Shape, Memory, TypeOK
      <4> DEFINE new == [owner |-> job[t].peer, fence |-> 0]
      <4>2. new \in Owned
        BY SMTT(30), <4>1 DEF Owned
      <4>3. new # None
        BY <4>2, CoordinatorAssumption
      <4> QED BY SMTT(30), <2>1, <2>4, <3>1, <4>1, <4>3 DEF Create
    <3>2. CASE objects[job[t].object] # None /\ ReadOrRefuse
      <4>1. objects' = objects /\ Served
        BY <3>2 DEF ReadOrRefuse
      <4> QED BY SMTT(30), <2>4, <3>2, <4>1
    <3> QED BY SMTT(30), <2>7, <3>1, <3>2 DEF ClaimOwner
  <2> QED BY SMTT(30), <1>4, <2>5, <2>6, <2>7
<1>5. CASE \E t \in Thread : Begin(t) \/ Fail(t)
  BY ZenonT(30), <1>3, <1>5 DEF Begin, BeginStore, BeginLookup, BeginMigrate, Fail
<1>6. ASSUME NEW t \in Thread, Step(t) PROVE Claimed'
  BY <1>3, <1>4, <1>6 DEF Step, RegisterCopy, FindOwner, FetchCopy, KeepReplica,
       AskCoordinator, RestoreLocal, SendAck, PeerDown
<1>7. CASE \E a \in acks : AckArrives(a)
  BY <1>3, <1>7 DEF AckArrives
<1>8. CASE \E n \in Node : StartNode(n) \/ StopNode(n)
  BY <1>3, <1>8 DEF StartNode, StopNode
<1>9. CASE \E n \in Node, o \in Object : Reclaim(n, o)
  BY <1>3, <1>9 DEF Reclaim
<1>10. CASE CrashCoordinator \/ StartCoordinator \/ UNCHANGED clusterVars
  BY <1>3, <1>10 DEF CrashCoordinator, StartCoordinator, clusterVars
<1> QED
  BY SMTT(30), <1>5, <1>6, <1>7, <1>8, <1>9, <1>10 DEF ClusterNext

\* Where a snapshot is configured and saves succeed, an object whose Store was
\* acknowledged has an owner whenever the coordinator runs, through races for
\* the claim, migrations and restarts, in a cluster of any size.
THEOREM AcknowledgedStaysOwned ==
  ASSUME HasSnapshot, ~SaveErrors
  PROVE  ClusterSpec => []AckedIsOwned
<1>1. Spec => []Durable
  <2>1. Reliable
    BY DEF Reliable
  <2> QED BY <2>1, Durability
<1>2. ClusterInit => Claimed
  BY DEF ClusterInit, Claimed
<1>3. Shape /\ Durable /\ Claimed /\ [ClusterNext]_clusterVars => Claimed'
  BY ClaimedStep DEF Durable
<1>4. Shape /\ Durable /\ Claimed => AckedIsOwned
  BY DEF Shape, Durable, Saved, Claimed, AckedIsOwned
<1> QED
  BY ShapeInvariance, CoordinatorRefined, <1>1, <1>2, <1>3, <1>4, PTL DEF ClusterSpec
=============================================================================
