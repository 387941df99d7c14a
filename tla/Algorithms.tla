----------------------------- MODULE Algorithms -----------------------------
(***************************************************************************)
(* The pure algorithms of the runtime, run on bounded inputs.  A behaviour  *)
(* is one call: a task is chosen, the algorithm of its kind computes the    *)
(* result, and the properties compare the result with what it should be.    *)
(***************************************************************************)
EXTENDS Messages, Records, Policy

CONSTANTS
  MessageTask, AddressTask, CompatTask, ManifestTask, BlocksTask, PayloadTask, ShapeTask,
  EvictionTask, LookupTask, PlannerTask, CostTask, AdmissionTask

\* A task names its algorithm.  Payloads, block lists, shapes, cost models, policies
\* and placements are any the program can have; the entries of an eviction are
\* those of a map, so no two have the same id.
ASSUME TaskAssumption ==
  /\ BlocksTask \subseteq [kind : {"blocks"}, blocks : Seq(BlockPlace), byte_len : Nat]
  /\ PayloadTask \subseteq [kind : {"payload"}, payload : Seq(Nat), size : Nat]
  /\ CostTask \subseteq [kind : {"cost"}, cost : CostModel, src : STRING, dst : STRING,
                         bytes : Nat]
  /\ AdmissionTask \subseteq [kind : {"admission"}, policy : AdmissionPolicy,
                              cost : CostModel, bytes : Nat, objects : Nat, free : Nat]
  /\ \A t \in MessageTask : t.kind = "message"
  /\ \A t \in AddressTask : t.kind = "addresses"
  /\ \A t \in CompatTask : t.kind = "compat"
  /\ \A t \in ManifestTask : t.kind = "manifest"
  /\ ShapeTask \subseteq [kind : {"shape"}, dims : Seq(0..MaxDim), dtype : 1..14,
                          layout : {Layout("row", <<>>), Layout("col", <<>>)}]
  /\ EvictionTask \subseteq [kind : {"eviction"}, policy : EvictionPolicy,
                             entries : Seq(Evictable), used : Nat, capacity : Nat]
  /\ \A t \in EvictionTask : \A i, j \in DOMAIN t.entries :
       i # j => t.entries[i].object_id # t.entries[j].object_id
  /\ LookupTask \subseteq [kind : {"lookup"}, cost : CostModel, bytes : Nat,
                           placements : Seq(STRING \ {NoTier})]
  /\ PlannerTask \subseteq [kind : {"planner"}, cost : CostModel, bytes : Nat, dest : STRING,
                            placements : Seq(STRING), reconstruct : BOOLEAN]

VARIABLES task, result

vars == <<task, result>>

Call(kind) == task.kind = kind /\ result = None /\ UNCHANGED task

Init ==
  /\ \/ task \in MessageTask \/ task \in AddressTask \/ task \in CompatTask
     \/ task \in ManifestTask \/ task \in BlocksTask \/ task \in PayloadTask
     \/ task \in ShapeTask \/ task \in EvictionTask \/ task \in LookupTask
     \/ task \in PlannerTask \/ task \in CostTask \/ task \in AdmissionTask
  /\ result = None

EncodeMessage == Call("message") /\ result' = Encode(task.message)

IdentifyAddresses ==
  Call("addresses") /\ result' = <<EncodeAddress(task.first), EncodeAddress(task.second)>>

EncodeKey == Call("compat") /\ result' = EncodeCompat(task.key)

WriteManifestFile == Call("manifest") /\ result' = EncodeManifest(task.manifest)

CheckBlocks == Call("blocks") /\ result' = ValidateBlockList(task.blocks, task.byte_len)

StorePayload ==
  Call("payload") /\ result' = [places |-> ChunkPlaces(Len(task.payload), task.size)]

MeasureShape ==
  /\ Call("shape")
  /\ result' = [numel |-> Numel(task.dims), bytes |-> ByteLen(task.dims, ByteSize[task.dtype]),
                strides |-> ContiguousStrides(task.layout, task.dims)]

PlanEviction ==
  /\ Call("eviction")
  /\ result' = EvictionPlan(task.policy, task.entries, task.used, task.capacity)

ReportLookup ==
  Call("lookup") /\ result' = LookupPlan(task.cost, task.bytes, task.placements)

DecideAction ==
  /\ Call("planner")
  /\ result' = Decide(task.cost, task.bytes, task.dest, task.placements, task.reconstruct)

Price ==
  /\ Call("cost")
  /\ result' = [transfer |-> TransferCost(task.cost, task.src, task.dst, task.bytes),
                restore |-> RestoreCost(task.cost, task.dst, task.bytes),
                reconstruct |-> ReconstructCost(task.cost, task.bytes)]

Admit ==
  /\ Call("admission")
  /\ result' = Evaluate(task.policy, Candidate(task.cost, task.bytes), task.objects, task.free)

Next ==
  \/ EncodeMessage \/ IdentifyAddresses \/ EncodeKey \/ WriteManifestFile \/ CheckBlocks
  \/ StorePayload \/ MeasureShape \/ PlanEviction \/ ReportLookup \/ DecideAction \/ Price \/ Admit

Spec == Init /\ [][Next]_vars

Done(kind) == task.kind = kind /\ result # None

-----------------------------------------------------------------------------
(* Messages, identities and manifests *)

StrictPrefixes(b) == {SubSeq(b, 1, n) : n \in 0..(Len(b) - 1)}

Changes(b) == {[b EXCEPT ![i] = d] : i \in DOMAIN b, d \in Byte}

\* Encode and decode agree on the order and the width of all fields of every
\* message, and bodies are canonical: one that was cut short or goes on after its
\* last field is refused, and one with a changed byte is refused or is exactly
\* what encode writes for the message it is decoded to.
MessageCodec ==
  Done("message") =>
    LET decode(b) == Decode(task.message.type, b)
    IN  /\ decode(result) = task.message
        /\ \A b \in StrictPrefixes(result) : decode(b) = None
        /\ \A d \in Byte : decode(Append(result, d)) = None
        /\ \A b \in Changes(result) : \A m \in {decode(b)} \ {None} : Encode(m) = b

\* What is hashed or written to disk stands for one value only.  Two addresses
\* never share an object id, however namespace and key are split; a key that can
\* be persisted and a manifest, also of an empty tensor or one of many blocks, are
\* read back as they were; no prefix is a key, no changed manifest is read.
RecordsCanonical ==
  /\ Done("addresses") => (task.first = task.second <=> result[1] = result[2])
  /\ Done("compat") =>
       /\ DecodeCompat(result) = task.key
       /\ \A b \in StrictPrefixes(result) : DecodeCompat(b) = None
  /\ Done("manifest") =>
       /\ DecodeManifest(result) = task.manifest
       /\ \A b \in {c \in Changes(result.body) : c # result.body} :
            DecodeManifest([result EXCEPT !.body = b]) = None

-----------------------------------------------------------------------------
(* Blocks and shapes *)

\* validate_block_list accepts exactly the lists whose blocks cover every byte of
\* the tensor once, in order, and nothing else.
BlocksTile ==
  Done("blocks") =>
    LET b == task.blocks
        bytes(i) == b[i].offset..(b[i].offset + b[i].len - 1)
    IN  result <=>
          /\ Len(b) <= MaxBlocks
          /\ \A i \in DOMAIN b : b[i].len > 0
          /\ \A i, j \in DOMAIN b : i < j => b[i].offset < b[j].offset
          /\ UNION {bytes(i) : i \in DOMAIN b} = 0..(task.byte_len - 1)
          /\ \A i, j \in DOMAIN b : i # j => bytes(i) \cap bytes(j) = {}

\* A payload cut into blocks is put together again unchanged, for every block size
\* that does not need too many blocks; chunk refuses the others.
PayloadRestored ==
  Done("payload") =>
    LET p == task.payload
        places == result.places
        data == [i \in DOMAIN places |->
                   SubSeq(p, places[i].offset + 1, places[i].offset + places[i].len)]
    IN  IF task.size * MaxBlocks >= Len(p) /\ task.size > 0
          THEN Reconstruct(places, Len(p), data) = p
          ELSE places = None

\* The unbounded product of the dimensions.
Product(dims) == Products(dims)[Len(dims)]

\* A tensor size is exact or refused: no shape gets a small size through a
\* product that wraps around.
SizesExact ==
  Done("shape") =>
    /\ result.numel # None => result.numel = Product(task.dims)
    /\ result.bytes # None => result.bytes = Product(task.dims) * ByteSize[task.dtype]
    /\ Product(task.dims) * ByteSize[task.dtype] > MaxWide => result.bytes = None

\* The strides of a contiguous layout give every element its own offset and use
\* every offset below the number of elements.
StridesDense ==
  Done("shape") /\ result.strides # None /\ Product(task.dims) > 0 =>
    LET indices == {x \in [DOMAIN task.dims -> 0..(MaxDim - 1)] :
                      \A i \in DOMAIN task.dims : x[i] < task.dims[i]}
        offset(x) == Totals([i \in DOMAIN task.dims |-> x[i] * result.strides[i]])[Len(task.dims)]
    IN  {offset(x) : x \in indices} = 0..(Product(task.dims) - 1)

-----------------------------------------------------------------------------
(* Decisions *)

\* The plan makes enough room or takes everything, stops as soon as there is
\* enough, and does not depend on the order in which the map yields the entries.
EvictionMinimal ==
  Done("eviction") =>
    LET e == task.entries
        freed(n) == BytesOf(result, n)
        orders == {q \in [DOMAIN e -> DOMAIN e] : \A i, j \in DOMAIN q : i # j => q[i] # q[j]}
    IN  /\ \/ task.used - freed(Len(result)) <= task.capacity
           \/ {result[i] : i \in DOMAIN result} = {e[i] : i \in DOMAIN e}
        /\ \A n \in 0..(Len(result) - 1) : task.used - freed(n) > task.capacity
        /\ \A q \in orders :
             EvictionPlan(task.policy, [i \in DOMAIN q |-> e[q[i]]], task.used, task.capacity)
               = result

\* An entry that was used more often and more recently than another of the same
\* size is never evicted before it, where use and age count and scores fit.
HotEntriesKept ==
  Done("eviction") /\ task.policy.reuse_weight > 0 /\ task.policy.age_weight > 0
  /\ (\A i \in DOMAIN task.entries : Fits(task.policy, task.entries[i])) =>
    LET e == task.entries
        out == {result[i].object_id : i \in DOMAIN result}
        hotter(i, j) == /\ e[i].bytes = e[j].bytes /\ e[i].priority = e[j].priority
                        /\ e[i].durable = e[j].durable
                        /\ e[i].reconstruction_cost_ns >= e[j].reconstruction_cost_ns
                        /\ e[i].reuse_count >= e[j].reuse_count
                        /\ e[i].age_seconds <= e[j].age_seconds
                        /\ e[i].reuse_count > e[j].reuse_count
                           \/ e[i].age_seconds < e[j].age_seconds
    IN  \A i, j \in DOMAIN e : hotter(i, j) /\ e[i].object_id \in out => e[j].object_id \in out

\* The tiers the object of a planner's or a lookup's call is in.
Tiers == {task.placements[i] : i \in DOMAIN task.placements}

\* The plan has the lowest cost of all that is possible, in whatever order the
\* placements are listed, and is refused only when nothing is possible.  Because a
\* persistent placement is a source of transfers too, a restore is chosen only
\* when it starts sooner than a transfer.  A lookup names a source, one that holds
\* a copy, exactly when there is a plan, and only a copy in the host tier is free.
CheapestChosen ==
  /\ Done("planner") =>
       LET costs == {TransferCost(task.cost, t, task.dest, task.bytes) : t \in Tiers}
                    \cup (IF "persistent" \in Tiers
                            THEN {RestoreCost(task.cost, task.dest, task.bytes)} ELSE {})
                    \cup (IF task.reconstruct
                            THEN {ReconstructCost(task.cost, task.bytes)} ELSE {})
       IN  IF task.dest \in Tiers
             THEN result = Plan("reuse", task.dest, 0)
             ELSE /\ result.action = "reject" <=> costs = {}
                  /\ costs # {} => result.cost \in costs /\ \A c \in costs : result.cost <= c
                  /\ result.action = "restore"
                       => task.cost.restore_latency_ns < task.cost.transfer_latency_ns
  /\ Done("lookup") =>
       /\ result.source = NoTier <=> result.plan.action = "reject"
       /\ result.source # NoTier => {result.source, result.plan.tier} \subseteq Tiers
       /\ "host" \in Tiers <=> result.plan.action = "reuse"

\* Costs never fall when a tensor grows, up to and at the saturation of u64.
CostsMonotone ==
  Done("cost") =>
    /\ result.transfer <= TransferCost(task.cost, task.src, task.dst, task.bytes + 1)
    /\ result.restore <= RestoreCost(task.cost, task.dst, task.bytes + 1)
    /\ result.reconstruct <= ReconstructCost(task.cost, task.bytes + 1)

\* Because register takes the reconstruction cost as the value of a reuse, the
\* value criteria refuse nothing when they are no stricter than the cost model:
\* what is left are the limits on the size, the objects and the free bytes.
AdmissionBySize ==
  Done("admission")
  /\ task.policy.min_reuse_value_ns <= task.cost.recompute_base_ns
  /\ task.policy.min_reconstruction_cost_ns <= task.cost.recompute_base_ns
  /\ task.policy.value_per_byte_ns <= task.cost.recompute_ns_per_byte
    => (result <=> /\ task.bytes <= task.policy.max_object_bytes /\ task.bytes <= task.free
                   /\ task.policy.max_objects = -1 \/ task.objects < task.policy.max_objects)
=============================================================================
