------------------------------- MODULE Policy -------------------------------
(***************************************************************************)
(* What the runtime decides by numbers: admission (admission.rs), the order *)
(* of eviction (eviction.rs), costs (cost.rs) and the planner (planner.rs). *)
(* Sums and products keep their widths: u64 saturates at Top, i64 products  *)
(* saturate and i64 sums wrap around.                                       *)
(***************************************************************************)
EXTENDS Integers, Sequences, FiniteSets, TLC, Sums

CONSTANTS
  Top,      \* u64::MAX
  Second,   \* nanoseconds in a second
  SizeUnit  \* the bytes keep_score counts as one (1024 in the code)

ASSUME PolicyAssumption == Top \in Nat /\ Second \in Nat /\ SizeUnit \in Nat \ {0}

\* Tier::kind.
Kind(tier) == IF tier \in {"host", "persistent"} THEN tier ELSE "accelerator"

Least(a, b) == IF a <= b THEN a ELSE b

\* Mutant of SatAdd: the sum wraps around.
WrapAdd(a, b) == (a + b) % (Top + 1)

SatAdd(a, b) == Least(a + b, Top)

-----------------------------------------------------------------------------
(* CostModel *)

TierKind == {"accelerator", "host", "persistent"}

CostModel ==
  [read_bw : [TierKind -> 0..Top], write_bw : [TierKind -> 0..Top],
   transfer_latency_ns : 0..Top, restore_latency_ns : 0..Top,
   recompute_base_ns : 0..Top, recompute_ns_per_byte : 0..Top]

TransferNs(bytes, bandwidth) ==
  IF bandwidth = 0 THEN Top ELSE Least((bytes * Second) \div bandwidth, Top)

TransferCost(cost, src, dst, bytes) ==
  SatAdd(cost.transfer_latency_ns,
         TransferNs(bytes, Least(cost.read_bw[Kind(src)], cost.write_bw[Kind(dst)])))

RestoreCost(cost, dst, bytes) ==
  SatAdd(cost.restore_latency_ns,
         TransferNs(bytes, Least(cost.read_bw["persistent"], cost.write_bw[Kind(dst)])))

ReconstructCost(cost, bytes) ==
  SatAdd(cost.recompute_base_ns, Least(bytes * cost.recompute_ns_per_byte, Top))

-----------------------------------------------------------------------------
(* The planner *)

Plan(action, tier, cost) == [action |-> action, tier |-> tier, cost |-> cost]

Priority(action) ==
  CASE action = "reuse" -> 0 [] action = "transfer" -> 1 [] action = "restore" -> 2
    [] action = "reconstruct" -> 3 [] action = "reject" -> 4

\* The candidates, each with its position in the list they are collected in.
Candidates(cost, bytes, dest, placements, canReconstruct) ==
  LET n == Len(placements)
  IN  {[at |-> i, plan |-> Plan("transfer", placements[i],
                                TransferCost(cost, placements[i], dest, bytes))] :
         i \in {k \in 1..n : placements[k] # dest}}
      \cup (IF \E k \in 1..n : Kind(placements[k]) = "persistent"
              THEN {[at |-> n + 1, plan |-> Plan("restore", "persistent", RestoreCost(cost, dest, bytes))]}
              ELSE {})
      \cup (IF canReconstruct
              THEN {[at |-> n + 2, plan |-> Plan("reconstruct", dest, ReconstructCost(cost, bytes))]}
              ELSE {})

\* Mutant of Cheapest: the first candidate is taken.
FirstCandidate(candidates) ==
  (CHOOSE c \in candidates : \A d \in candidates : c.at <= d.at).plan

\* The first of a stable sort by cost, then by the priority of the action.
Cheapest(candidates) ==
  LET before(c, d) ==
        \/ c.plan.cost < d.plan.cost
        \/ /\ c.plan.cost = d.plan.cost
           /\ \/ Priority(c.plan.action) < Priority(d.plan.action)
              \/ Priority(c.plan.action) = Priority(d.plan.action) /\ c.at <= d.at
  IN  (CHOOSE c \in candidates : \A d \in candidates : before(c, d)).plan

Decide(cost, bytes, dest, placements, canReconstruct) ==
  LET candidates == Candidates(cost, bytes, dest, placements, canReconstruct)
  IN  IF dest \in {placements[i] : i \in DOMAIN placements}
        THEN Plan("reuse", dest, 0)
        ELSE IF candidates = {} THEN Plan("reject", dest, Top) ELSE Cheapest(candidates)

\* The empty name.
NoTier == ""

\* The tier a lookup names as the source; NoTier when there is none.
PreferredTier(placements) ==
  LET accelerators == {i \in DOMAIN placements : Kind(placements[i]) = "accelerator"}
      tiers == {placements[i] : i \in DOMAIN placements}
  IN  CASE accelerators # {} ->
             placements[CHOOSE i \in accelerators : \A j \in accelerators : i <= j]
        [] accelerators = {} /\ "host" \in tiers -> "host"
        [] accelerators = {} /\ "host" \notin tiers /\ "persistent" \in tiers -> "persistent"
        [] OTHER -> NoTier

\* What lookup reports about an entry it found.
LookupPlan(cost, bytes, placements) ==
  [source |-> PreferredTier(placements),
   plan |-> Decide(cost, bytes, "host", placements, FALSE)]

-----------------------------------------------------------------------------
(* Eviction *)

MaxSigned == Top \div 2
MinSigned == -MaxSigned - 1

\* `as i64`.
Signed(n) == IF n > MaxSigned THEN n - (Top + 1) ELSE n

SatSigned(n) == IF n > MaxSigned THEN MaxSigned ELSE IF n < MinSigned THEN MinSigned ELSE n

WrapSigned(n) == Signed(n % (Top + 1))

\* u64 weights, and what is known of an entry.
EvictionPolicy ==
  [reuse_weight : 0..Top, reconstruct_weight : 0..Top, age_weight : 0..Top,
   size_weight : 0..Top, durable_bonus : 0..Top, priority_weight : 0..Top]

Evictable ==
  [object_id : Nat, bytes : 0..Top, reuse_count : 0..Top, age_seconds : 0..Top,
   reconstruction_cost_ns : 0..Top, priority : 0..Top, durable : BOOLEAN]

\* saturating_mul of two numbers as i64.
Weighted(n, weight) == SatSigned(n * Signed(weight))

\* saturating_div rounds towards zero.
SizeUnits(bytes) ==
  IF Signed(bytes) < 0 THEN -((-Signed(bytes)) \div SizeUnit) ELSE Signed(bytes) \div SizeUnit

\* Mutant of KeepScore: age counts for an entry instead of against it.
KeepScoreAged(policy, e) ==
  Weighted(Signed(e.reuse_count), policy.reuse_weight)
  + Weighted(Signed(e.age_seconds), policy.age_weight)

\* The terms are added one after the other.
KeepScore(policy, e) ==
  LET plus(score, term) == WrapSigned(score + term)
  IN  plus(plus(plus(plus(plus(
        Weighted(Signed(e.reuse_count), policy.reuse_weight),
        Weighted(Signed(e.reconstruction_cost_ns), policy.reconstruct_weight)),
        -Weighted(Signed(e.age_seconds), policy.age_weight)),
        -Weighted(SizeUnits(e.bytes), policy.size_weight)),
        IF e.durable THEN Signed(policy.durable_bonus) ELSE 0),
        Weighted(e.priority, policy.priority_weight))

\* The score of an entry stays within an i64: nothing saturates or wraps around.
Fits(policy, e) ==
  /\ {policy.reuse_weight, policy.reconstruct_weight, policy.age_weight, policy.size_weight,
      policy.durable_bonus, policy.priority_weight, e.bytes, e.reuse_count, e.age_seconds,
      e.reconstruction_cost_ns} \subseteq 0..MaxSigned
  /\ e.reuse_count * policy.reuse_weight + e.reconstruction_cost_ns * policy.reconstruct_weight
     + e.age_seconds * policy.age_weight + (e.bytes \div SizeUnit) * policy.size_weight
     + (IF e.durable THEN policy.durable_bonus ELSE 0)
     + e.priority * policy.priority_weight <= MaxSigned

\* Entry a is evicted before entry b.
Colder(policy, a, b) ==
  \/ KeepScore(policy, a) < KeepScore(policy, b)
  \/ KeepScore(policy, a) = KeepScore(policy, b) /\ a.object_id < b.object_id

\* Mutant of EvictionOrder: ties keep the order of the map.
EvictionOrderByScore(policy, entries) ==
  SortSeq(entries, LAMBDA a, b : KeepScore(policy, a) < KeepScore(policy, b))

\* The place of entry i in the order: ids are unique, so no two share one.
PlaceOf(policy, entries, i) ==
  Cardinality({j \in 1..Len(entries) : Colder(policy, entries[j], entries[i])}) + 1

EvictionOrder(policy, entries) ==
  [k \in 1..Len(entries) |->
     entries[CHOOSE i \in 1..Len(entries) : PlaceOf(policy, entries, i) = k]]

\* The bytes of the first n entries.
BytesOf(entries, n) == Totals([i \in DOMAIN entries |-> entries[i].bytes])[n]

\* The loop stops before the first entry that is not needed.
EvictionPlan(policy, entries, used, capacity) ==
  LET order == EvictionOrder(policy, entries)
      need == IF used > capacity THEN used - capacity ELSE 0
      stop == {n \in 0..Len(order) : BytesOf(order, n) >= need}
  IN  IF stop = {} THEN order ELSE SubSeq(order, 1, CHOOSE n \in stop : \A k \in stop : n <= k)

-----------------------------------------------------------------------------
(* Admission *)

AdmissionPolicy ==
  [max_object_bytes : 0..Top, min_reuse_value_ns : 0..Top, value_per_byte_ns : 0..Top,
   max_objects : -1..Top, min_reconstruction_cost_ns : 0..Top]

RequiredValue(policy, bytes) == Least(bytes * policy.value_per_byte_ns, Top)

\* Mutant of EvaluateIgnoringCapacity: a candidate of exactly the limit is refused.
EvaluateStrict(policy, c, objectCount) ==
  /\ c.bytes < policy.max_object_bytes
  /\ c.reuse_value_ns >= policy.min_reuse_value_ns
  /\ c.reconstruction_cost_ns >= policy.min_reconstruction_cost_ns
  /\ c.reuse_value_ns >= RequiredValue(policy, c.bytes)
  /\ policy.max_objects = -1 \/ objectCount < policy.max_objects

\* max_objects = -1 is no limit.
EvaluateIgnoringCapacity(policy, c, objectCount) ==
  /\ c.bytes <= policy.max_object_bytes
  /\ c.reuse_value_ns >= policy.min_reuse_value_ns
  /\ c.reconstruction_cost_ns >= policy.min_reconstruction_cost_ns
  /\ c.reuse_value_ns >= RequiredValue(policy, c.bytes)
  /\ policy.max_objects = -1 \/ objectCount < policy.max_objects

Evaluate(policy, c, objectCount, free) ==
  EvaluateIgnoringCapacity(policy, c, objectCount) /\ c.bytes <= free

\* The candidate register builds for a payload of the given length.
Candidate(cost, bytes) ==
  [bytes |-> bytes, reconstruction_cost_ns |-> ReconstructCost(cost, bytes),
   reuse_value_ns |-> ReconstructCost(cost, bytes)]
=============================================================================
