----------------------------- MODULE Coordinator -----------------------------
(***************************************************************************)
(* The coordinator process (coordinator.rs) and its server loop (server.rs).*)
(* A step handles one message: `handle` and `save_state` run under one      *)
(* mutex, and the reply is written after the save.  A reply that is never   *)
(* received is a reply in `hellos` or `grants` nobody acts upon.  The       *)
(* process may crash between any two steps and in the middle of a save, and *)
(* is started again with the same snapshot path.                            *)
(*                                                                          *)
(* Node addresses are left out: they are kept in memory only and decide     *)
(* nothing.  ObjectState.epoch is left out: it is written, never read.      *)
(***************************************************************************)
EXTENDS Naturals

CONSTANTS
  Node,         \* node ids
  Object,       \* object ids
  HasSnapshot,  \* the process runs with --snapshot
  SaveErrors,   \* a save may fail: the server ignores the error
  TornWrites,   \* a crash may catch fs::write between truncation and the data
  RecordReplies, \* whether hellos and grants are kept
  MaxFence,     \* bound on fences
  MaxBoot,      \* bound on process incarnations
  None,         \* a missing map entry, a missing snapshot file
  Torn          \* a snapshot file load_state rejects

Owned == [owner: Node, fence: Nat]
Migration == [new_owner: Node, to_fence: Nat \ {0}]
Snapshot == [epoch: Nat, objects: [Object -> Owned \cup {None}]]

ASSUME CoordinatorAssumption ==
  /\ HasSnapshot \in BOOLEAN /\ SaveErrors \in BOOLEAN /\ TornWrites \in BOOLEAN
  /\ RecordReplies \in BOOLEAN
  /\ MaxFence \in Nat /\ MaxBoot \in Nat
  /\ None \notin Owned /\ None \notin [new_owner: Node, to_fence: Nat]
  /\ None \notin Snapshot /\ Torn \notin Snapshot /\ Torn # None

VARIABLES
  up,          \* the process runs
  epoch,       \* Coordinator.epoch
  boot,        \* Coordinator.boot_id: a fresh id is one never used before
  nodes,       \* Coordinator.nodes: the registered ids
  objects,     \* Coordinator.objects
  migrations,  \* Coordinator.migrations
  snapshot,    \* the snapshot file
  ledger,      \* history: the ownership after the last handled message
  hellos,      \* history: the Hello replies
  grants       \* history: the CreateAck and LeaseGrant replies

vars == <<up, epoch, boot, nodes, objects, migrations, snapshot, ledger, hellos, grants>>

Hello == [node: Node, epoch: Nat, boot: Nat]
Grant == [object: Object, epoch: Nat, fence: Nat, owner: Node]

TypeOK ==
  /\ up \in BOOLEAN
  /\ epoch \in Nat /\ boot \in Nat
  /\ nodes \subseteq Node
  /\ objects \in [Object -> Owned \cup {None}]
  /\ migrations \in [Object -> Migration \cup {None}]
  /\ snapshot \in Snapshot \cup {None, Torn}
  /\ ledger \in [Object -> Owned \cup {None}]
  /\ hellos \subseteq Hello
  /\ grants \subseteq Grant

-----------------------------------------------------------------------------
(* One message: handle, then save_state, then the reply *)

\* Mutant of Save: the snapshot is written before the message is handled.
SaveEarly ==
  snapshot' = IF HasSnapshot THEN [epoch |-> epoch, objects |-> objects] ELSE snapshot

\* save_state after every message, also one that changed nothing or was
\* refused.  A write that fails leaves the old file, or a truncated one.
Save ==
  \/ snapshot' = IF HasSnapshot THEN [epoch |-> epoch, objects |-> objects'] ELSE snapshot
  \/ HasSnapshot /\ SaveErrors /\ snapshot' \in {snapshot, Torn}

\* What every handled message has in common.
Served ==
  /\ up
  /\ Save
  /\ ledger' = objects'
  /\ UNCHANGED <<up, epoch, boot>>

Granted(o, n, f) ==
  grants' = IF RecordReplies
              THEN grants \cup {[object |-> o, epoch |-> epoch, fence |-> f, owner |-> n]}
              ELSE grants

Register(n) ==
  /\ nodes' = nodes \cup {n}
  /\ hellos' = IF RecordReplies
                  THEN hellos \cup {[node |-> n, epoch |-> epoch, boot |-> boot]}
                  ELSE hellos
  /\ UNCHANGED <<objects, migrations, grants>>
  /\ Served

\* The first claim, or a repeated one by the owner
Create(o, n) ==
  /\ \/ /\ objects[o] = None
        /\ objects' = [objects EXCEPT ![o] = [owner |-> n, fence |-> 0]]
        /\ Granted(o, n, 0)
     \/ /\ objects[o] # None /\ objects[o].owner = n
        /\ Granted(o, n, objects[o].fence)
        /\ UNCHANGED objects
  /\ UNCHANGED <<nodes, migrations, hellos>>
  /\ Served

\* LeaseRenew: any sender that names the current fence
LeaseRenew(o, f) ==
  /\ objects[o] # None /\ objects[o].fence = f
  /\ Granted(o, objects[o].owner, f)
  /\ UNCHANGED <<nodes, objects, migrations, hellos>>
  /\ Served

\* Mutant of Migrate: the new owner gets the old fence.
MigrateSameFence(o, n, f) ==
  /\ objects[o] # None /\ f >= objects[o].fence
  /\ migrations' = [migrations EXCEPT ![o] =
       [new_owner |-> n, to_fence |-> objects[o].fence]]
  /\ UNCHANGED <<nodes, objects, hellos, grants>>
  /\ Served

\* A later request replaces a pending one.
Migrate(o, n, f) ==
  /\ objects[o] # None /\ f >= objects[o].fence
  /\ objects[o].fence < MaxFence
  /\ migrations' = [migrations EXCEPT ![o] =
       [new_owner |-> n, to_fence |-> objects[o].fence + 1]]
  /\ UNCHANGED <<nodes, objects, hellos, grants>>
  /\ Served

MigrateAck(o, n, f) ==
  /\ migrations[o] = [new_owner |-> n, to_fence |-> f]
  /\ objects' = IF objects[o] = None THEN objects
                ELSE [objects EXCEPT ![o] = [owner |-> n, fence |-> f]]
  /\ migrations' = [migrations EXCEPT ![o] = None]
  /\ UNCHANGED <<nodes, hellos, grants>>
  /\ Served

\* Lookup, Heartbeat, unsupported messages and every refused one
ReadOrRefuse ==
  /\ UNCHANGED <<nodes, objects, migrations, hellos, grants>>
  /\ Served

-----------------------------------------------------------------------------
(* Crash and start *)

Crash ==
  /\ up
  /\ boot < MaxBoot
  /\ up' = FALSE
  /\ nodes' = {}
  /\ objects' = [o \in Object |-> None]
  /\ migrations' = [o \in Object |-> None]
  /\ snapshot' \in {snapshot} \cup (IF HasSnapshot /\ TornWrites THEN {Torn} ELSE {})
  /\ UNCHANGED <<epoch, boot, ledger, hellos, grants>>

\* Mutant of Start: load_state restores the epoch without advancing it.
StartSameEpoch ==
  /\ ~up /\ snapshot # Torn
  /\ up' = TRUE /\ boot' = boot + 1
  /\ \/ snapshot = None /\ epoch' = 1 /\ UNCHANGED objects
     \/ snapshot # None /\ epoch' = snapshot.epoch /\ objects' = snapshot.objects
  /\ UNCHANGED <<nodes, migrations, snapshot, ledger, hellos, grants>>

\* Mutant of Start: load_state restores the owners and not the fences.
StartZeroFence ==
  /\ ~up /\ snapshot # Torn
  /\ up' = TRUE /\ boot' = boot + 1
  /\ \/ snapshot = None /\ epoch' = 1 /\ UNCHANGED objects
     \/ /\ snapshot # None
        /\ epoch' = snapshot.epoch + 1
        /\ objects' = [o \in Object |->
             IF snapshot.objects[o] = None THEN None
             ELSE [snapshot.objects[o] EXCEPT !.fence = 0]]
  /\ UNCHANGED <<nodes, migrations, snapshot, ledger, hellos, grants>>

\* Mutant of Start: a missing snapshot file is an error, and the attempt to
\* start ends with it.
StartNeedsFile ==
  /\ ~up /\ snapshot # Torn
  /\ \/ snapshot = None /\ UNCHANGED <<up, epoch, boot, objects>>
     \/ /\ snapshot # None
        /\ up' = TRUE /\ boot' = boot + 1
        /\ epoch' = snapshot.epoch + 1 /\ objects' = snapshot.objects
  /\ UNCHANGED <<nodes, migrations, snapshot, ledger, hellos, grants>>

\* Coordinator::new, then load_state: a file it cannot decode ends the process.
Start ==
  /\ ~up /\ snapshot # Torn
  /\ up' = TRUE /\ boot' = boot + 1
  /\ \/ snapshot = None /\ epoch' = 1 /\ UNCHANGED objects
     \/ snapshot # None /\ epoch' = snapshot.epoch + 1 /\ objects' = snapshot.objects
  /\ UNCHANGED <<nodes, migrations, snapshot, ledger, hellos, grants>>

Init ==
  /\ up = TRUE
  /\ epoch = 1 /\ boot = 1
  /\ nodes = {}
  /\ objects = [o \in Object |-> None]
  /\ migrations = [o \in Object |-> None]
  /\ snapshot = None
  /\ ledger = [o \in Object |-> None]
  /\ hellos = {}
  /\ grants = {}

Next ==
  \/ \E n \in Node : Register(n)
  \/ \E o \in Object, n \in Node : Create(o, n)
  \/ \E o \in Object, f \in 0..MaxFence : LeaseRenew(o, f)
  \/ \E o \in Object, n \in Node, f \in 0..MaxFence : Migrate(o, n, f) \/ MigrateAck(o, n, f)
  \/ ReadOrRefuse
  \/ Crash
  \/ Start

Spec == Init /\ [][Next]_vars

\* The operator starts the process again after a crash.
FairSpec == Spec /\ WF_vars(Start)

-----------------------------------------------------------------------------
(* Properties *)

\* A pending migration names exactly the next fence, whatever requests, acks
\* and crashes came in between: an ack moves the fence by one and never back.
PendingIsNext ==
  \A o \in Object : migrations[o] # None =>
    /\ objects[o] # None
    /\ migrations[o].to_fence = objects[o].fence + 1

\* Two grants with the same fence for an object name the same owner, also
\* across restarts: a migration never makes two authoritative owners.
OneOwnerPerFence ==
  \A g, h \in grants : g.object = h.object /\ g.fence = h.fence => g.owner = h.owner

\* Fences never fall as epochs advance.
GrantsOrdered ==
  \A g, h \in grants : g.object = h.object /\ g.epoch < h.epoch => g.fence <= h.fence

\* An epoch that a node was told belongs to one process incarnation: a lease of
\* an earlier incarnation can be told apart by its epoch alone.
EpochNamesBoot ==
  \A g, h \in hellos : g.epoch = h.epoch => g.boot = h.boot

\* A restarted coordinator has the ownership its last reply was based on.
OwnershipKept == up => objects = ledger

\* A coordinator that crashed serves again.
Recovers == ~up ~> up

\* The coordinator implements single ownership with a fence that counts the
\* transfers, through any number of restarts.
Abstract == INSTANCE Ownership WITH own <- ledger
ImplementsOwnership == Abstract!Spec
=============================================================================
