---------------------------- MODULE TensorCache ----------------------------
(***************************************************************************)
(* The local runtime (runtime.rs) with the host block arena (storage.rs),   *)
(* the host byte budget (accounting.rs) and the accelerator backends.       *)
(*                                                                          *)
(* All state sits behind one mutex.  A step of this module is what a thread *)
(* does between two points at which another thread can take that mutex,     *)
(* except that the placement-removal loops of evict, delete and             *)
(* evict_to_free take one step per placement, while `section` records that  *)
(* the mutex is held.  `register` releases the mutex around evict_to_free:  *)
(* `pending` holds what it computed before the release and uses after it.   *)
(*                                                                          *)
(* The persistent tier is abstracted to the manifests that a restart        *)
(* recovers: it commits a placement, or refuses it and nothing changes.     *)
(* A call that returns an error without changing state is a stuttering      *)
(* step and has no action of its own.                                       *)
(***************************************************************************)
EXTENDS Blocks, Functions

CONSTANTS
  Thread,         \* client threads
  Oid,            \* object ids
  Content,        \* the payloads the admission policy accepts by size and value
  BlockSizes,     \* the values RuntimeConfig.block_size takes across restarts
  Backend,        \* accelerator backends
  HostCapacity,   \* RuntimeConfig.host_capacity, in bytes
  AccelCapacity,  \* capacity of each backend, in bytes
  HasStore,       \* a persistent path is configured
  ObjectLimit,    \* AdmissionPolicy.max_objects
  MaxRefs,        \* bound: no new host placement at this reference count
  MaxObjects,     \* bound: no new registration at this object count
  Absent          \* the value of a missing map entry, an idle thread, a free mutex

Host == "host"
Persistent == "persistent"
Tier == {Host, Persistent} \cup Backend

ASSUME RuntimeAssumption ==
  /\ IsFiniteSet(Oid)
  /\ \A c \in Content : c \in Seq(Nat)
  /\ BlockSizes \subseteq Nat \ {0}
  /\ HostCapacity \in Nat /\ AccelCapacity \in Nat
  /\ HasStore \in BOOLEAN
  /\ Backend \cap {Host, Persistent} = {}

\* Every block some payload can be cut into.
Block == UNION {Range(Chunk(c, s)) : c \in Content, s \in BlockSizes}

VARIABLES
  entries,      \* State.entries
  arena,        \* BlockArena.refs: a block is held iff its count is positive
  used,         \* Budget.used of the host tier (reserved is 0 between calls)
  allocated,    \* bytes allocated per backend; State.accel_used is their sum
  objectCount,  \* State.object_count
  blockSize,    \* RuntimeConfig.block_size of the running process
  manifest,     \* the manifests a restart would recover
  pending,      \* per thread: a register call between its critical sections
  section       \* the removal loop that holds the mutex, if one does

vars == <<entries, arena, used, allocated, objectCount, blockSize, manifest,
          pending, section>>

\* `chunked` is the block size with which Entry.blocks was computed.
Entry == [payload: Content, chunked: BlockSizes, placements: Seq(Tier),
          durable: BOOLEAN]
Manifest == [payload: Content, chunked: BlockSizes]

Pending == [stage: {"evict", "retry"}, oid: Oid, payload: Content, need: Nat]
Section == [op: {"reclaim", "evict", "delete"}, thread: Thread, oid: Oid,
            todo: Seq(Tier), victims: SUBSET Oid]

ASSUME AbsentAssumption == Absent \notin Entry \cup Manifest \cup Pending \cup Section

Registered == {o \in Oid : entries[o] # Absent}

\* `has_tier`
Has(o, t) == entries[o] # Absent /\ t \in Range(entries[o].placements)

\* The blocks of a payload as this process cuts it: what a host placement holds.
HostBlocks(bytes) == Chunk(bytes, blockSize)

\* The references host placements hold to block h, as (object, index) pairs.
HostUses(h) ==
  UNION {{o} \X {i \in DOMAIN HostBlocks(entries[o].payload) :
                    HostBlocks(entries[o].payload)[i] = h} :
         o \in {p \in Oid : Has(p, Host)}}

\* The bytes physically in the arena: BlockArena.bytes.
ArenaBytes == Cardinality(UNION {{h} \X (1..Len(h)) : h \in {b \in Block : arena[b] > 0}})

TypeOK ==
  /\ entries \in [Oid -> Entry \cup {Absent}]
  /\ arena \in [Block -> Nat]
  /\ used \in Nat
  /\ allocated \in [Backend -> Int]
  /\ objectCount \in Nat
  /\ blockSize \in BlockSizes
  /\ manifest \in [Oid -> Manifest \cup {Absent}]
  /\ pending \in [Thread -> Pending \cup {Absent}]
  /\ section \in Section \cup {Absent}

-----------------------------------------------------------------------------
(* Host budget and arena *)

Free == HostCapacity - used

\* Bytes of the blocks not yet in the arena; a block that occurs twice in the
\* payload is counted twice.
NewBytes(bytes) ==
  Cardinality({k \in DOMAIN bytes :
                 arena[HostBlocks(bytes)[BlockAt(k, blockSize)]] = 0})

\* Mutant of Acquire: no reference is added to a block that is already held.
AcquireOnce(bytes, need) ==
  /\ need <= Free
  /\ used' = used + need
  /\ arena' = [h \in Block |->
                 IF arena[h] > 0 THEN arena[h]
                 ELSE Count(HostBlocks(bytes), Len(HostBlocks(bytes)), h)]

\* Mutant of Acquire: reserve does not compare with the free bytes.
AcquireUnchecked(bytes, need) ==
  /\ used' = used + need
  /\ arena' = [h \in Block |->
                 arena[h] + Count(HostBlocks(bytes), Len(HostBlocks(bytes)), h)]

\* reserve, acquire_at for each block, commit_reserve
Acquire(bytes, need) ==
  /\ need <= Free
  /\ used' = used + need
  /\ arena' = [h \in Block |->
                 arena[h] + Count(HostBlocks(bytes), Len(HostBlocks(bytes)), h)]

\* Of the first n releases of a host placement, those that drop a last reference.
Freed(blocks, n) == {i \in 1..n : arena[blocks[i]] = Count(blocks, i, blocks[i])}

\* Mutant of FreedBytes: also blocks that other placements still hold are given
\* back to the budget.
FreedBytesAll(bytes, n) ==
  Cardinality({k \in DOMAIN bytes : BlockAt(k, blockSize) <= n})

FreedBytes(bytes, n) ==
  Cardinality({k \in DOMAIN bytes :
                 BlockAt(k, blockSize) \in Freed(HostBlocks(bytes), n)})

\* Mutant of Release: sub_used does not check for underflow.
ReleaseUnchecked(bytes, n, ok) ==
  LET blocks == HostBlocks(bytes) IN
  /\ ok /\ n = Len(blocks)
  /\ used' = used - FreedBytes(bytes, n)
  /\ arena' = [h \in Block |->
                 LET c == Count(blocks, n, h)
                 IN  IF arena[h] > c THEN arena[h] - c ELSE 0]

\* Release the first n blocks: all of them, or up to the one at which sub_bytes
\* reports an underflow, when the remaining references are kept.
Release(bytes, n, ok) ==
  LET blocks == HostBlocks(bytes) IN
  /\ IF ok THEN n = Len(blocks) /\ FreedBytes(bytes, n) <= used
           ELSE n > 0 /\ FreedBytes(bytes, n - 1) <= used /\ FreedBytes(bytes, n) > used
  /\ used' = used - FreedBytes(bytes, IF ok THEN n ELSE n - 1)
  /\ arena' = [h \in Block |->
                 LET c == Count(blocks, n, h)
                 IN  IF arena[h] > c THEN arena[h] - c ELSE 0]

\* Vec::remove
RemoveAt(s, i) == SubSeq(s, 1, i - 1) \o SubSeq(s, i + 1, Len(s))

\* The placement in tier t is taken out.
Without(placements, t) ==
  RemoveAt(placements, CHOOSE i \in DOMAIN placements : placements[i] = t)

BelowRefBound == \A h \in Block : arena[h] < MaxRefs

-----------------------------------------------------------------------------
(* Registration *)

\* Accounting.objects, which admission compares with max_objects: nothing in
\* the runtime ever sets it.
AccountedObjects == 0

Idle(t) == section = Absent /\ pending[t] = Absent

\* The tail of register: a new host-resident entry replaces whatever
\* entries.insert finds under the id.
Insert(o, bytes, need) ==
  /\ Acquire(bytes, need)
  /\ entries' = [entries EXCEPT ![o] =
       [payload |-> bytes, chunked |-> blockSize, placements |-> <<Host>>,
        durable |-> FALSE]]
  /\ objectCount' = objectCount + 1

\* register, up to the end of its first critical section
Register(t, o, bytes) ==
  /\ Idle(t)
  /\ entries[o] = Absent
  /\ AccountedObjects < ObjectLimit
  /\ objectCount < MaxObjects /\ BelowRefBound
  /\ \/ /\ Insert(o, bytes, NewBytes(bytes))
        /\ UNCHANGED pending
     \/ /\ NewBytes(bytes) > Free
        /\ pending' = [pending EXCEPT ![t] =
             [stage |-> "evict", oid |-> o, payload |-> bytes,
              need |-> NewBytes(bytes)]]
        /\ UNCHANGED <<entries, arena, used, objectCount>>
  /\ UNCHANGED <<allocated, blockSize, manifest, section>>

\* Mutant of EvictToFree: durable objects are candidates too.
EvictToFreeDurable(t) ==
  /\ section = Absent
  /\ pending[t] # Absent
  /\ pending[t].stage = "evict"
  /\ section' = [op |-> "reclaim", thread |-> t, oid |-> pending[t].oid,
                 todo |-> <<>>, victims |-> {o \in Oid : Has(o, Host)}]
  /\ UNCHANGED <<entries, arena, used, allocated, objectCount, blockSize, manifest,
                 pending>>

\* evict_to_free takes the mutex and collects its candidates
EvictToFree(t) ==
  /\ section = Absent
  /\ pending[t] # Absent
  /\ pending[t].stage = "evict"
  /\ \/ /\ Free >= pending[t].need
        /\ pending' = [pending EXCEPT ![t].stage = "retry"]
        /\ UNCHANGED section
     \/ /\ Free < pending[t].need
        /\ section' = [op |-> "reclaim", thread |-> t, oid |-> pending[t].oid,
                       todo |-> <<>>,
                       victims |-> {o \in Oid : Has(o, Host) /\ ~entries[o].durable}]
        /\ UNCHANGED pending
  /\ UNCHANGED <<entries, arena, used, allocated, objectCount, blockSize, manifest>>

InLoop(op) == section # Absent /\ section.op = op /\ section.todo = <<>>

\* Mutant of ReclaimNext: the victim stays on the list.
ReclaimSame(o) ==
  /\ InLoop("reclaim")
  /\ Free < pending[section.thread].need
  /\ o \in section.victims
  /\ section' = [section EXCEPT !.oid = o, !.todo = entries[o].placements]
  /\ UNCHANGED <<entries, arena, used, allocated, objectCount, blockSize,
                 manifest, pending>>

\* The next victim.  The keep score depends on the age of the last use, so any
\* order of the candidates can occur.
ReclaimNext(o) ==
  /\ InLoop("reclaim")
  /\ Free < pending[section.thread].need
  /\ o \in section.victims
  /\ section' = [section EXCEPT !.oid = o, !.todo = entries[o].placements,
                                !.victims = @ \ {o}]
  /\ UNCHANGED <<entries, arena, used, allocated, objectCount, blockSize,
                 manifest, pending>>

ReclaimDone ==
  /\ InLoop("reclaim")
  /\ Free >= pending[section.thread].need \/ section.victims = {}
  /\ section' = Absent
  /\ pending' = [pending EXCEPT ![section.thread].stage = "retry"]
  /\ UNCHANGED <<entries, arena, used, allocated, objectCount, blockSize, manifest>>

\* register after evict_to_free: only the free bytes are checked again
RegisterRetry(t) ==
  /\ section = Absent
  /\ pending[t] # Absent
  /\ pending[t].stage = "retry"
  /\ pending' = [pending EXCEPT ![t] = Absent]
  /\ \/ Insert(pending[t].oid, pending[t].payload, pending[t].need)
     \/ /\ pending[t].need > Free
        /\ UNCHANGED <<entries, arena, used, objectCount>>
  /\ UNCHANGED <<allocated, blockSize, manifest, section>>

-----------------------------------------------------------------------------
(* Adding placements: restore, promote, replicate, persist, demote *)

\* materialize_payload succeeds: the first of host, accelerator and persistent
\* that the object is resident in yields its bytes.
Materializable(o) ==
  /\ entries[o] # Absent
  /\ entries[o].placements # <<>>
  /\ Has(o, Host) =>
       \A i \in DOMAIN Chunk(entries[o].payload, entries[o].chunked) :
          arena[Chunk(entries[o].payload, entries[o].chunked)[i]] > 0

Pushed(o, t) == Append(entries[o].placements, t)

PromoteHost(t, o) ==
  /\ Idle(t) /\ BelowRefBound
  /\ Materializable(o) /\ ~Has(o, Host)
  /\ Acquire(entries[o].payload, NewBytes(entries[o].payload))
  /\ entries' = [entries EXCEPT ![o].placements = Pushed(o, Host)]
  /\ UNCHANGED <<allocated, objectCount, blockSize, manifest, pending, section>>

PromoteAccelerator(t, o, b) ==
  /\ Idle(t)
  /\ Materializable(o) /\ ~Has(o, b)
  /\ allocated[b] + Len(entries[o].payload) <= AccelCapacity
  /\ allocated' = [allocated EXCEPT ![b] = @ + Len(entries[o].payload)]
  /\ entries' = [entries EXCEPT ![o].placements = Pushed(o, b)]
  /\ UNCHANGED <<arena, used, objectCount, blockSize, manifest, pending, section>>

\* Mutant of WriteManifest: the placement is recorded and nothing is written.
SkipManifest(o) == HasStore /\ UNCHANGED manifest

WriteManifest(o) ==
  /\ HasStore
  /\ manifest' = [manifest EXCEPT ![o] =
       [payload |-> entries[o].payload, chunked |-> blockSize]]

\* promote to the persistent tier leaves `durable` alone; persist sets it
PromotePersistent(t, o, durable) ==
  /\ Idle(t)
  /\ Materializable(o) /\ ~Has(o, Persistent)
  /\ WriteManifest(o)
  /\ entries' = [entries EXCEPT ![o].placements = Pushed(o, Persistent),
                                ![o].durable = durable]
  /\ UNCHANGED <<arena, used, allocated, objectCount, blockSize, pending, section>>

Persist(t, o) ==
  \/ PromotePersistent(t, o, TRUE)
  \/ /\ Idle(t)
     /\ Has(o, Persistent)
     /\ entries' = [entries EXCEPT ![o].durable = TRUE]
     /\ UNCHANGED <<arena, used, allocated, objectCount, blockSize, manifest,
                    pending, section>>

\* Mutant of DemoteHost: the host blocks are released without a copy below.
DropHost(t, o) ==
  /\ Idle(t)
  /\ Has(o, Host)
  /\ entries' = [entries EXCEPT ![o].placements = Without(@, Host)]
  /\ \E n \in 0..Len(HostBlocks(entries[o].payload)), ok \in BOOLEAN :
        Release(entries[o].payload, n, ok)
  /\ UNCHANGED <<allocated, objectCount, blockSize, manifest, pending, section>>

\* demote from the host tier: copy to the persistent tier unless it is there,
\* then release the host blocks
DemoteHost(t, o) ==
  /\ Idle(t)
  /\ Has(o, Host)
  /\ \/ /\ Has(o, Persistent)
        /\ entries' = [entries EXCEPT ![o].placements = Without(@, Host)]
        /\ UNCHANGED manifest
     \/ /\ ~Has(o, Persistent) /\ Materializable(o)
        /\ WriteManifest(o)
        /\ entries' = [entries EXCEPT ![o].placements =
                         Without(Pushed(o, Persistent), Host)]
  /\ \E n \in 0..Len(HostBlocks(entries[o].payload)), ok \in BOOLEAN :
        Release(entries[o].payload, n, ok)
  /\ UNCHANGED <<allocated, objectCount, blockSize, pending, section>>

\* demote from an accelerator: copy to the host tier unless it is there, then
\* free the device buffer
DemoteAccelerator(t, o, b) ==
  /\ Idle(t)
  /\ Has(o, b)
  /\ \/ /\ Has(o, Host)
        /\ entries' = [entries EXCEPT ![o].placements = Without(@, b)]
        /\ UNCHANGED <<arena, used>>
     \/ /\ ~Has(o, Host) /\ Materializable(o) /\ BelowRefBound
        /\ Acquire(entries[o].payload, NewBytes(entries[o].payload))
        /\ entries' = [entries EXCEPT ![o].placements = Without(Pushed(o, Host), b)]
  /\ allocated' = [allocated EXCEPT ![b] = @ - Len(entries[o].payload)]
  /\ UNCHANGED <<objectCount, blockSize, manifest, pending, section>>

-----------------------------------------------------------------------------
(* Removing placements: evict, delete and the victims of evict_to_free *)

Evict(t, o) ==
  /\ Idle(t)
  /\ entries[o] # Absent
  /\ section' = [op |-> "evict", thread |-> t, oid |-> o,
                 todo |-> entries[o].placements, victims |-> {}]
  /\ UNCHANGED <<entries, arena, used, allocated, objectCount, blockSize,
                 manifest, pending>>

Delete(t, o) ==
  /\ Idle(t)
  /\ entries[o] # Absent
  /\ section' = [op |-> "delete", thread |-> t, oid |-> o,
                 todo |-> entries[o].placements, victims |-> {}]
  /\ UNCHANGED <<entries, arena, used, allocated, objectCount, blockSize,
                 manifest, pending>>

Removing(t) == section # Absent /\ section.todo # <<>> /\ Head(section.todo) = t

NextTier == section' = [section EXCEPT !.todo = Tail(@)]

\* Mutant of SkipPersistent: evict removes the durable copy and keeps the placement.
ForgetPersistent ==
  /\ Removing(Persistent)
  /\ section.op # "delete"
  /\ NextTier
  /\ manifest' = [manifest EXCEPT ![section.oid] = Absent]
  /\ UNCHANGED <<entries, arena, used, allocated, objectCount, blockSize, pending>>

\* evict and evict_to_free step over the persistent placement
SkipPersistent ==
  /\ Removing(Persistent)
  /\ section.op # "delete"
  /\ NextTier
  /\ UNCHANGED <<entries, arena, used, allocated, objectCount, blockSize,
                 manifest, pending>>

\* On an underflow evict and delete return the error; evict_to_free ignores it.
RemoveHost ==
  LET o == section.oid IN
  /\ Removing(Host)
  /\ Has(o, Host)
  /\ entries' = [entries EXCEPT ![o].placements = Without(@, Host)]
  /\ \E n \in 0..Len(HostBlocks(entries[o].payload)), ok \in BOOLEAN :
        /\ Release(entries[o].payload, n, ok)
        /\ IF ok \/ section.op = "reclaim" THEN NextTier ELSE section' = Absent
  /\ UNCHANGED <<allocated, objectCount, blockSize, manifest, pending>>

RemoveAccelerator(b) ==
  LET o == section.oid IN
  /\ Removing(b)
  /\ Has(o, b)
  /\ entries' = [entries EXCEPT ![o].placements = Without(@, b)]
  /\ allocated' = [allocated EXCEPT ![b] = @ - Len(entries[o].payload)]
  /\ NextTier
  /\ UNCHANGED <<arena, used, objectCount, blockSize, manifest, pending>>

RemovePersistent ==
  LET o == section.oid IN
  /\ Removing(Persistent)
  /\ section.op = "delete"
  /\ Has(o, Persistent)
  /\ entries' = [entries EXCEPT ![o].placements = Without(@, Persistent)]
  /\ manifest' = [manifest EXCEPT ![o] = Absent]
  /\ NextTier
  /\ UNCHANGED <<arena, used, allocated, objectCount, blockSize, pending>>

EvictDone ==
  /\ InLoop("evict")
  /\ section' = Absent
  /\ UNCHANGED <<entries, arena, used, allocated, objectCount, blockSize,
                 manifest, pending>>

DeleteDone ==
  /\ InLoop("delete")
  /\ entries' = [entries EXCEPT ![section.oid] = Absent]
  /\ objectCount' = IF objectCount > 0 THEN objectCount - 1 ELSE 0
  /\ manifest' = [manifest EXCEPT ![section.oid] = Absent]
  /\ section' = Absent
  /\ UNCHANGED <<arena, used, allocated, blockSize, pending>>

-----------------------------------------------------------------------------
(* Start, and a restart at any point, also in the middle of a call *)

Recovered(m) ==
  IF m = Absent THEN Absent
  ELSE [payload |-> m.payload, chunked |-> m.chunked,
        placements |-> <<Persistent>>, durable |-> TRUE]

Restart(size) ==
  /\ entries' = [o \in Oid |-> Recovered(manifest[o])]
  /\ arena' = [h \in Block |-> 0]
  /\ used' = 0
  /\ allocated' = [b \in Backend |-> 0]
  /\ objectCount' = Cardinality({o \in Oid : manifest[o] # Absent})
  /\ blockSize' = size
  /\ pending' = [t \in Thread |-> Absent]
  /\ section' = Absent
  /\ UNCHANGED manifest

Init ==
  /\ entries = [o \in Oid |-> Absent]
  /\ arena = [h \in Block |-> 0]
  /\ used = 0
  /\ allocated = [b \in Backend |-> 0]
  /\ objectCount = 0
  /\ blockSize \in BlockSizes
  /\ manifest = [o \in Oid |-> Absent]
  /\ pending = [t \in Thread |-> Absent]
  /\ section = Absent

\* What the holder of the mutex does next.
HolderStep ==
  \/ \E o \in Oid : ReclaimNext(o)
  \/ ReclaimDone
  \/ SkipPersistent
  \/ RemoveHost
  \/ \E b \in Backend : RemoveAccelerator(b)
  \/ RemovePersistent
  \/ EvictDone
  \/ DeleteDone

ThreadStep(t) ==
  \/ \E o \in Oid, c \in Content : Register(t, o, c)
  \/ EvictToFree(t)
  \/ RegisterRetry(t)
  \/ \E o \in Oid :
       \/ PromoteHost(t, o)
       \/ \E b \in Backend : PromoteAccelerator(t, o, b) \/ DemoteAccelerator(t, o, b)
       \/ PromotePersistent(t, o, entries[o].durable)
       \/ Persist(t, o)
       \/ DemoteHost(t, o)
       \/ Evict(t, o)
       \/ Delete(t, o)

Next ==
  \/ HolderStep
  \/ \E t \in Thread : ThreadStep(t)
  \/ \E s \in BlockSizes : Restart(s)

Spec == Init /\ [][Next]_vars

\* A thread that holds the mutex is scheduled again.
FairSpec == Spec /\ WF_vars(HolderStep)

-----------------------------------------------------------------------------
(* Properties *)

\* Sharing never frees a block early: the arena counts at least as many
\* references to a block as host placements hold, whatever the interleaving,
\* also after a failed delete or a registration that replaced an entry
\* (BlockArena::release frees a block when its count reaches zero).
ReferencesCover == \A h \in Block : arena[h] >= Cardinality(HostUses(h))

\* Committed host bytes never exceed the capacity, so the eviction loop of
\* enforce_capacity, which runs after register, restore and promote, never has
\* anything to do.
WithinBudget == used <= HostCapacity

\* A persistent placement is backed by a manifest of the object's own payload.
PersistentIsCommitted ==
  \A o \in Oid : Has(o, Persistent) =>
    /\ manifest[o] # Absent
    /\ manifest[o].payload = entries[o].payload

\* Every critical section ends: a removal loop of evict, delete or
\* evict_to_free always has a next step until it releases the mutex.
SectionEnds == (section # Absent) ~> (section = Absent)

\* An object is resident at most once in each tier (add_placement is only
\* called for a tier the entry does not have).
OnePlacementPerTier ==
  \A o \in Registered : IsInjective(entries[o].placements)

\* Reclaiming space for one registration never touches a durable object.
DurableNotReclaimed ==
  [][\A o \in Oid :
       section # Absent /\ section.op = "reclaim" /\ section' # Absent
         /\ entries[o] # Absent /\ entries[o].durable
       => entries'[o] = entries[o]]_vars

\* No call other than evict, delete and a registration making room gives up the
\* last copy of an object: demote removes the source only after the copy in the
\* lower tier exists.
LastCopyKept ==
  [][\A o \in Oid :
       section = Absent /\ entries[o] # Absent /\ entries[o].placements # <<>>
       /\ entries'[o] # Absent
       => entries'[o].placements # <<>>]_vars

\* Nothing leaks: every reference in the arena belongs to a host placement, the
\* host budget charges exactly the bytes the arena holds, each backend has
\* allocated exactly the bytes of the objects placed on it, and the object count
\* is the number of entries, through shared blocks, moves, deletes and restarts.
AccountingExact ==
  /\ \A h \in Block : arena[h] = Cardinality(HostUses(h))
  /\ used = ArenaBytes
  /\ \A b \in Backend :
       allocated[b] = Cardinality(UNION {{o} \X DOMAIN entries[o].payload :
                                           o \in {p \in Oid : Has(p, b)}})
  /\ objectCount = Cardinality(Registered)

\* A registration never replaces a registered object.
NoReplacement ==
  [][\A o \in Oid :
       entries[o] # Absent /\ entries'[o] # Absent
       => entries'[o].payload = entries[o].payload]_vars

\* A restart brings back, with its payload, every object that was durable and
\* not being deleted.
DurableSurvivesRestart ==
  [][(\E s \in BlockSizes : Restart(s)) =>
       \A o \in Oid :
         entries[o] # Absent /\ entries[o].durable
         /\ ~(section # Absent /\ section.op = "delete" /\ section.oid = o)
         => entries'[o] # Absent /\ entries'[o].payload = entries[o].payload]_vars

\* An object with a durable copy can be read back, whatever other placements
\* it has (materialize_payload reads the host copy when there is one).
DurableReadable ==
  \A o \in Oid : Has(o, Persistent) /\ entries[o].durable => Materializable(o)
=============================================================================
