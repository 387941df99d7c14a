------------------------------ MODULE Cluster ------------------------------
(***************************************************************************)
(* Storage nodes around one coordinator (node.rs, server.rs).  The actions  *)
(* of the coordinator are those of Coordinator; this module adds what nodes *)
(* do with it: every request a node serves runs in a thread of its own and  *)
(* makes several exchanges with the coordinator and with other nodes, and   *)
(* any other step may come in between.                                      *)
(*                                                                          *)
(* A node only ever registers objects in its own cache and never persists   *)
(* them, so a node that restarts recovers nothing and has lost its copies.  *)
(* Compatibility keys are left out: every request names the right one.      *)
(***************************************************************************)
EXTENDS Coordinator

CONSTANTS
  Thread,       \* requests under way at one time
  Migrating,    \* bound: the threads that may be asked to migrate
  Payload,      \* what clients store
  Gone,         \* an entry whose last copy was evicted
  Faults,       \* nodes may stop, copies may be evicted, exchanges may fail
  AnyAddress    \* a client may name a node and the address of another one

VARIABLES
  serving,      \* nodes whose server runs
  held,         \* each node's TensorCache: its copy of each object
  job,          \* what each thread is doing
  acks,         \* MigrateAck frames the coordinator has not read yet
  stored,       \* history: the nodes that had a verified copy of an object
  acked         \* history: objects whose Store was acknowledged

clusterVars == <<vars, serving, held, job, acks, stored, acked>>

ASSUME ClusterAssumption ==
  /\ Faults \in BOOLEAN /\ AnyAddress \in BOOLEAN
  /\ Migrating \subseteq Thread
  /\ {None, Gone} \cap Payload = {} /\ None # Gone

\* What a request still has to do.  A Store, and the Store a migration makes the
\* new owner perform, go through "register", "lookup" and "create".
Stage == {"ask", "restore", "register", "lookup", "create", "ack", "find", "fetch", "replica"}

\* node serves the request; peer is the node that executes the Store, or the
\* owner a Lookup fetches from; to and fence are a migration's.
Job == [node : Node, peer : Node, object : Object, payload : Payload \cup {None},
        stage : Stage, to : Node \cup {None}, fence : Nat, boot : Nat]

Ack == [object : Object, new_owner : Node, fence : Nat]

ClusterTypeOK ==
  /\ TypeOK
  /\ serving \subseteq Node
  /\ held \in [Node -> [Object -> Payload \cup {None, Gone}]]
  /\ job \in [Thread -> Job \cup {None}]
  /\ acks \subseteq Ack
  /\ stored \subseteq Object \X Node
  /\ acked \subseteq Object

-----------------------------------------------------------------------------
(* Helpers *)

At(t, stage) == job[t] # None /\ job[t].stage = stage

Goto(t, stage) == job' = [job EXCEPT ![t].stage = stage]

End(t) == job' = [job EXCEPT ![t] = None]

\* A request without the fields its kind does not use.
Request(n, o, stage) ==
  [node |-> n, peer |-> n, object |-> o, payload |-> None, stage |-> stage,
   to |-> None, fence |-> 0, boot |-> 0]

Keep(n, o, p) ==
  /\ held' = [held EXCEPT ![n][o] = p]
  /\ stored' = stored \cup {<<o, n>>}

-----------------------------------------------------------------------------
(* Requests arrive *)

BeginStore(t, n, o, p) ==
  /\ job[t] = None /\ n \in serving
  /\ job' = [job EXCEPT ![t] = [Request(n, o, "register") EXCEPT !.payload = p]]
  /\ UNCHANGED <<vars, serving, held, acks, stored, acked>>

BeginLookup(t, n, o) ==
  /\ job[t] = None /\ n \in serving
  /\ job' = [job EXCEPT ![t] = Request(n, o, "find")]
  /\ UNCHANGED <<vars, serving, held, acks, stored, acked>>

BeginMigrate(t, n, o, to, addr, f) ==
  /\ t \in Migrating
  /\ job[t] = None /\ n \in serving
  /\ AnyAddress \/ addr = to
  /\ job' = [job EXCEPT ![t] =
       [Request(n, o, "ask") EXCEPT !.to = to, !.peer = addr, !.fence = f]]
  /\ UNCHANGED <<vars, serving, held, acks, stored, acked>>

-----------------------------------------------------------------------------
(* Store *)

\* Mutant of RegisterCopy: the claim comes first.
RegisterLate(t) ==
  /\ At(t, "register")
  /\ job[t].peer \in serving
  /\ Goto(t, "lookup")
  /\ UNCHANGED <<vars, serving, held, acks, stored, acked>>

\* register, or the comparison with the copy that is already there.
RegisterCopy(t) ==
  /\ At(t, "register")
  /\ LET j == job[t]
         copy == held[j.peer][j.object]
     IN  /\ j.peer \in serving
         /\ \/ /\ copy = None
               /\ Keep(j.peer, j.object, j.payload)
               /\ Goto(t, "lookup")
            \/ /\ copy = j.payload
               /\ Goto(t, "lookup")
               /\ UNCHANGED <<held, stored>>
            \/ /\ copy \notin {None, j.payload}
               /\ End(t)
               /\ UNCHANGED <<held, stored>>
  /\ UNCHANGED <<vars, serving, acks, acked>>

\* The Store is acknowledged: to the client, or to the node that migrates.
StoreAcked(t) ==
  IF job[t].to = None
    THEN End(t) /\ acked' = acked \cup {job[t].object}
    ELSE Goto(t, "ack") /\ UNCHANGED acked

\* Mutant of LookupOwner: an object without an owner is not claimed.
LookupOnly(t) ==
  /\ At(t, "lookup")
  /\ ReadOrRefuse
  /\ StoreAcked(t)
  /\ UNCHANGED <<serving, held, acks, stored>>

LookupOwner(t) ==
  /\ At(t, "lookup")
  /\ ReadOrRefuse
  /\ IF objects[job[t].object] = None
       THEN Goto(t, "create") /\ UNCHANGED acked
       ELSE StoreAcked(t)
  /\ UNCHANGED <<serving, held, acks, stored>>

\* A refused Create is an answer like any other.
ClaimOwner(t) ==
  /\ At(t, "create")
  /\ LET j == job[t]
     IN  \/ Create(j.object, j.peer)
         \/ /\ objects[j.object] # None /\ objects[j.object].owner # j.peer
            /\ ReadOrRefuse
  /\ StoreAcked(t)
  /\ UNCHANGED <<serving, held, acks, stored>>

-----------------------------------------------------------------------------
(* Lookup *)

FindOwner(t) ==
  /\ At(t, "find")
  /\ ReadOrRefuse
  /\ LET j == job[t]
         own == objects[j.object]
     IN  IF own # None /\ own.owner # j.node /\ own.owner \in nodes
           THEN job' = [job EXCEPT ![t] = [j EXCEPT !.stage = "fetch", !.peer = own.owner]]
           ELSE End(t)
  /\ UNCHANGED <<serving, held, acks, stored, acked>>

\* Mutant of FetchCopy: an entry without a copy is answered like any other.
FetchAny(t) ==
  /\ At(t, "fetch")
  /\ LET j == job[t]
         copy == held[j.peer][j.object]
     IN  /\ j.peer \in serving
         /\ job' = [job EXCEPT ![t] = [j EXCEPT !.stage = "replica", !.payload = copy]]
  /\ UNCHANGED <<vars, serving, held, acks, stored, acked>>

\* Mutant of FetchCopy: an owner without a copy is asked for again.
FetchAgain(t) ==
  /\ At(t, "fetch")
  /\ LET j == job[t]
         copy == held[j.peer][j.object]
     IN  /\ j.peer \in serving
         /\ IF copy \in Payload
              THEN job' = [job EXCEPT ![t] = [j EXCEPT !.stage = "replica", !.payload = copy]]
              ELSE Goto(t, "find")
  /\ UNCHANGED <<vars, serving, held, acks, stored, acked>>

FetchCopy(t) ==
  /\ At(t, "fetch")
  /\ LET j == job[t]
         copy == held[j.peer][j.object]
     IN  /\ j.peer \in serving
         /\ \/ /\ copy \in Payload
               /\ job' = [job EXCEPT ![t] = [j EXCEPT !.stage = "replica", !.payload = copy]]
            \/ copy \notin Payload /\ End(t)
  /\ UNCHANGED <<vars, serving, held, acks, stored, acked>>

\* The result of register is ignored, whatever is there already stays.
KeepReplica(t) ==
  /\ At(t, "replica")
  /\ LET j == job[t]
     IN  IF held[j.node][j.object] = None
           THEN Keep(j.node, j.object, j.payload)
           ELSE UNCHANGED <<held, stored>>
  /\ End(t)
  /\ UNCHANGED <<vars, serving, acks, acked>>

-----------------------------------------------------------------------------
(* Migrate *)

\* The coordinator records the migration and answers with the next fence, or
\* refuses (fences are bounded by MaxFence).  Its answer also names the address
\* it knows; the node ignores it.
AskCoordinator(t) ==
  /\ At(t, "ask")
  /\ LET j == job[t]
         own == objects[j.object]
     IN  IF own = None \/ own.fence > j.fence \/ own.fence >= MaxFence
           THEN ReadOrRefuse /\ End(t)
           ELSE /\ Migrate(j.object, j.to, j.fence)
                /\ job' = [job EXCEPT ![t] = [j EXCEPT !.stage = "restore",
                                                       !.fence = own.fence + 1, !.boot = boot]]
  /\ UNCHANGED <<serving, held, acks, stored, acked>>

\* Any node with a copy may carry out the migration.
RestoreLocal(t) ==
  /\ At(t, "restore")
  /\ LET j == job[t]
         copy == held[j.node][j.object]
     IN  \/ /\ copy \in Payload
            /\ job' = [job EXCEPT ![t] = [j EXCEPT !.stage = "register", !.payload = copy]]
         \/ copy \notin Payload /\ End(t)
  /\ UNCHANGED <<vars, serving, held, acks, stored, acked>>

\* The frame is written on the connection of the request, and success is
\* reported without reading the answer.  A coordinator that restarted in
\* between never sees the frame.
SendAck(t) ==
  /\ At(t, "ack")
  /\ LET j == job[t]
     IN  acks' = IF up /\ boot = j.boot
                   THEN acks \cup {[object |-> j.object, new_owner |-> j.to, fence |-> j.fence]}
                   ELSE acks
  /\ End(t)
  /\ UNCHANGED <<vars, serving, held, stored, acked>>

\* The coordinator reads the frame: the pending migration, or a refusal.
AckArrives(a) ==
  /\ acks' = acks \ {a}
  /\ \/ MigrateAck(a.object, a.new_owner, a.fence)
     \/ /\ migrations[a.object] # [new_owner |-> a.new_owner, to_fence |-> a.fence]
        /\ ReadOrRefuse
  /\ UNCHANGED <<serving, held, job, stored, acked>>

-----------------------------------------------------------------------------
(* Faults *)

\* What the request needs next does not answer: an error to its sender.
PeerDown(t) ==
  /\ job[t] # None
  /\ \/ job[t].stage \in {"ask", "lookup", "create", "find"} /\ ~up
     \/ job[t].stage \in {"register", "fetch"} /\ job[t].peer \notin serving
  /\ End(t)
  /\ UNCHANGED <<vars, serving, held, acks, stored, acked>>

\* A connection breaks, or admission refuses the payload.
Fail(t) ==
  /\ Faults
  /\ job[t] # None
  /\ End(t)
  /\ UNCHANGED <<vars, serving, held, acks, stored, acked>>

\* evict_to_free on a node reclaims an object that is only in the host tier.
Reclaim(n, o) ==
  /\ Faults
  /\ held[n][o] \in Payload
  /\ held' = [held EXCEPT ![n][o] = Gone]
  /\ UNCHANGED <<vars, serving, job, acks, stored, acked>>

\* run_node: the handshake with the coordinator, then the listener.
StartNode(n) ==
  /\ n \notin serving
  /\ Register(n)
  /\ serving' = serving \cup {n}
  /\ UNCHANGED <<held, job, acks, stored, acked>>

\* Whether thread t runs on node n or is waiting for it.
Involves(t, n) ==
  /\ job[t] # None
  /\ \/ job[t].node = n
     \/ job[t].peer = n /\ job[t].stage \in {"register", "lookup", "create", "fetch"}

StopNode(n) ==
  /\ Faults
  /\ n \in serving
  /\ serving' = serving \ {n}
  /\ held' = [held EXCEPT ![n] = [o \in Object |-> None]]
  /\ job' = [t \in Thread |-> IF Involves(t, n) THEN None ELSE job[t]]
  /\ UNCHANGED <<vars, acks, stored, acked>>

\* Frames nobody read are lost with the connections.
CrashCoordinator ==
  /\ Faults
  /\ Crash
  /\ acks' = {}
  /\ UNCHANGED <<serving, held, job, stored, acked>>

StartCoordinator ==
  /\ Start
  /\ UNCHANGED <<serving, held, job, acks, stored, acked>>

-----------------------------------------------------------------------------
(* Specification *)

ClusterInit ==
  /\ Init
  /\ serving = {}
  /\ held = [n \in Node |-> [o \in Object |-> None]]
  /\ job = [t \in Thread |-> None]
  /\ acks = {}
  /\ stored = {}
  /\ acked = {}

Begin(t) ==
  \E n \in Node, o \in Object :
    \/ \E p \in Payload : BeginStore(t, n, o, p)
    \/ BeginLookup(t, n, o)
    \/ \E to \in Node, addr \in Node, f \in 0..MaxFence : BeginMigrate(t, n, o, to, addr, f)

\* What a thread does about its request.
Step(t) ==
  \/ RegisterCopy(t) \/ LookupOwner(t) \/ ClaimOwner(t)
  \/ FindOwner(t) \/ FetchCopy(t) \/ KeepReplica(t)
  \/ AskCoordinator(t) \/ RestoreLocal(t) \/ SendAck(t)
  \/ PeerDown(t)

ClusterNext ==
  \/ \E t \in Thread : Begin(t) \/ Step(t) \/ Fail(t)
  \/ \E a \in acks : AckArrives(a)
  \/ \E n \in Node : StartNode(n) \/ StopNode(n)
  \/ \E n \in Node, o \in Object : Reclaim(n, o)
  \/ CrashCoordinator
  \/ StartCoordinator

ClusterSpec == ClusterInit /\ [][ClusterNext]_clusterVars

\* Every thread is scheduled.
ClusterFairSpec == ClusterSpec /\ \A t \in Thread : WF_clusterVars(Step(t))

-----------------------------------------------------------------------------
(* Properties *)

\* Authority follows data: the owner the coordinator names had a verified copy
\* before it became the owner, in every interleaving of stores, lookups and
\* migrations, with exchanges that fail and processes that restart.
OwnerHadCopy ==
  up => \A o \in Object : objects[o] # None => <<o, objects[o].owner>> \in stored

\* An acknowledged Store leaves the object owned: the first writer claims it,
\* also when two nodes race for it or the coordinator restarts in between.
AckedIsOwned == up => \A o \in acked : objects[o] # None

\* No request waits for ever: handlers on different nodes that wait for each
\* other and for the coordinator always come to an answer.
RequestsEnd == \A t \in Thread : []<>(job[t] = None)

\* When every request is answered, the copies of one object on different nodes
\* have the same content: a Store of other content was refused or undone.
ReplicasAgree ==
  (\A t \in Thread : job[t] = None) =>
    \A m, n \in Node, o \in Object :
      held[m][o] \in Payload /\ held[n][o] \in Payload => held[m][o] = held[n][o]

=============================================================================
