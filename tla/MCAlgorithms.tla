---------------------------- MODULE MCAlgorithms ----------------------------
(***************************************************************************)
(* Bounded inputs for Algorithms.  A byte has 16 values and a u64 two       *)
(* bytes, so that lengths, dimensions and sizes reach u64::MAX = 255.       *)
(***************************************************************************)
EXTENDS Algorithms

Values(kind) ==
  CASE kind = "u64"    -> {1, MaxWide}
    [] kind = "u32"    -> {0, Base - 1}
    [] kind = "bool"   -> BOOLEAN
    [] kind = "bytes"  -> {<<>>, <<Base - 1>>}
    [] kind = "str"    -> {<<>>, <<0, 1>>}
    [] kind = "option" -> {None, <<>>, <<1>>}

\* Values for the fields of a table.
Bodies(table) ==
  FoldLeft(LAMBDA bodies, f : {b @@ (f[1] :> v) : b \in bodies, v \in Values(f[2])}, {<<>>}, table)

Strings == {<<>>, <<0>>, <<1>>, <<0, 1>>}

Addresses == [namespace : Strings, key : Strings, generation : {0, 1}]

Shapes == {<<>>, <<0>>, <<2>>, <<2, 3>>}

Keys ==
  {k \in [model : {None, <<>>}, model_revision : {None, <<1>>}, runtime_version : {None, <<1>>},
          operation : {None, <<>>}, dtype : {1, 14}, shape : Shapes,
          layout : {Layout("row", <<>>), Layout("col", <<>>), Layout("strided", <<1>>),
                    Layout("strided", <<3, 1>>)},
          endianness : {0, 1}, device : {None, <<1>>}, precision : {None},
          quant : {0, 3}, mutability : {1}] :
     LayoutValid(k.layout, k.shape)}

\* The manifest persist writes for an object with key k.
ManifestOf(k, size) ==
  LET bytes == ByteLen(k.shape, ByteSize[k.dtype])
      places == ChunkPlaces(bytes, size)
  IN  [object_id |-> <<1>>, namespace |-> <<>>, key |-> <<0>>, generation |-> 1, compat |-> k,
       byte_len |-> bytes, numel |-> Numel(k.shape), created_ns |-> MaxWide,
       blocks |-> [i \in DOMAIN places |-> places[i] @@ [content_hash |-> <<i, 1>>, crc |-> 3]]]

BlockLists ==
  LET block == [offset : 0..2, len : 0..2]
  IN  UNION {[1..n -> block] : n \in 0..3}

Dims == {0, 1, 3, 4, 15}

CostModels ==
  [read_bw : {[accelerator |-> 6, host |-> 4, persistent |-> 1],
              [accelerator |-> 6, host |-> 0, persistent |-> 2]},
   write_bw : {[accelerator |-> 5, host |-> 4, persistent |-> 1]},
   transfer_latency_ns : {1, 5}, restore_latency_ns : {0, 4},
   recompute_base_ns : {2}, recompute_ns_per_byte : {0, 3}]

TierLists ==
  {p \in UNION {[1..n -> {"gpu", "host", "persistent"}] : n \in 0..3} :
     \A i, j \in DOMAIN p : i # j => p[i] # p[j]}

EntryOf(id, bytes, reuse, age) ==
  [object_id |-> id, bytes |-> bytes, reuse_count |-> reuse, age_seconds |-> age,
   reconstruction_cost_ns |-> 2 * bytes, priority |-> 0, durable |-> FALSE]

Weights ==
  [reuse_weight |-> 4, reconstruct_weight |-> 1, age_weight |-> 3, size_weight |-> 1,
   durable_bonus |-> 10, priority_weight |-> 20]

EntryLists ==
  UNION {{[i \in 1..n |-> EntryOf(i, v[i][1], v[i][2], v[i][3])] :
            v \in [1..n -> {1, 4} \X {0, 1} \X {0, 2}]} : n \in 1..3}

Policies ==
  [max_object_bytes : {3, 6}, min_reuse_value_ns : {0, 2, 9}, value_per_byte_ns : {0, 3},
   max_objects : {-1, 1}, min_reconstruction_cost_ns : {0, 2}]

MCMessageTask ==
  UNION {[kind : {"message"}, message : [type : {t}, body : Bodies(Encoded[t])]] :
           t \in DOMAIN Encoded}

MCAddressTask == [kind : {"addresses"}, first : Addresses, second : Addresses]

MCCompatTask == [kind : {"compat"}, key : Keys]

MCManifestTask ==
  {[kind |-> "manifest", manifest |-> ManifestOf(k, size)] :
     k \in {x \in Keys : x.model = x.operation /\ x.device = None}, size \in {6, 64}}

MCBlocksTask == [kind : {"blocks"}, blocks : BlockLists, byte_len : 0..4]

MCPayloadTask ==
  [kind : {"payload"}, payload : UNION {[1..n -> {0, 1}] : n \in 0..9}, size : 0..6]

MCShapeTask ==
  [kind : {"shape"}, dims : UNION {[1..n -> Dims] : n \in 0..3}, dtype : {1, 2, 14},
   layout : {Layout("row", <<>>), Layout("col", <<>>)}]

MCEvictionTask ==
  {[kind |-> "eviction", policy |-> [Weights EXCEPT !.reuse_weight = w], entries |-> e,
    used |-> BytesOf(e, Len(e)), capacity |-> c] :
     w \in {4, 12}, e \in EntryLists, c \in {0, 2, 5, 12}}

MCLookupTask ==
  [kind : {"lookup"}, cost : CostModels, bytes : {0, 3}, placements : TierLists]

MCPlannerTask ==
  [kind : {"planner"}, cost : CostModels, bytes : {0, 3}, dest : {"gpu", "host"},
   placements : TierLists, reconstruct : BOOLEAN]

MCCostTask ==
  [kind : {"cost"}, cost : CostModels, src : {"gpu", "host", "persistent"},
   dst : {"gpu", "host"}, bytes : 0..12]

MCAdmissionTask ==
  [kind : {"admission"}, policy : Policies, cost : CostModels, bytes : 0..7,
   objects : {0, 1}, free : {4, 9}]
=============================================================================
