------------------------ MODULE TensorCacheProofs ------------------------
(***************************************************************************)
(* Safety of the runtime for every set of threads, objects, payloads and    *)
(* block sizes and every capacity: memory, the host budget, and what a step *)
(* does to durable objects.                                                 *)
(***************************************************************************)
EXTENDS TensorCache, FiniteSetTheorems, TLAPS

-----------------------------------------------------------------------------
(* Blocks *)

\* A payload is cut into finitely many blocks, all of them known blocks.
LEMMA ChunkType ==
  ASSUME NEW c \in Content, NEW s \in BlockSizes
  PROVE  /\ BlockCount(Len(c), s) \in Nat
         /\ DOMAIN Chunk(c, s) = 1..BlockCount(Len(c), s)
         /\ Len(Chunk(c, s)) = BlockCount(Len(c), s)
         /\ \A i \in DOMAIN Chunk(c, s) : Chunk(c, s)[i] \in Block
<1>1. Len(c) \in Nat /\ s \in Nat \ {0}
  BY RuntimeAssumption
<1>2. BlockCount(Len(c), s) \in Nat
  BY <1>1 DEF BlockCount
<1>3. DOMAIN Chunk(c, s) = 1..BlockCount(Len(c), s)
  BY DEF Chunk
<1>4. Len(Chunk(c, s)) = BlockCount(Len(c), s)
  BY <1>2, <1>3 
<1>5. \A i \in DOMAIN Chunk(c, s) : Chunk(c, s)[i] \in Block
  <2>1. \A i \in DOMAIN Chunk(c, s) : Chunk(c, s)[i] \in Range(Chunk(c, s))
    BY DEF Range
  <2>2. Range(Chunk(c, s)) \in {Range(Chunk(d, z)) : d \in Content, z \in BlockSizes}
    OBVIOUS
  <2> QED
    BY <2>1, <2>2 DEF Block
<1> QED
  BY <1>2, <1>3, <1>4, <1>5

\* Occurrence counts are natural numbers.
LEMMA CountType ==
  ASSUME NEW blocks, NEW n \in Nat, NEW h
  PROVE  /\ IsFiniteSet({i \in 1..n : blocks[i] = h})
         /\ Count(blocks, n, h) \in Nat
<1>1. IsFiniteSet(1..n)
  BY FS_Interval
<1>2. IsFiniteSet({i \in 1..n : blocks[i] = h})
  BY <1>1, FS_Subset
<1> QED
  BY <1>2, FS_CardinalityType DEF Count

\* A longer prefix holds at least as many occurrences.
LEMMA CountMonotone ==
  ASSUME NEW blocks, NEW m \in Nat, NEW n \in Nat, m <= n, NEW h
  PROVE  Count(blocks, m, h) <= Count(blocks, n, h)
<1>1. {i \in 1..m : blocks[i] = h} \subseteq {i \in 1..n : blocks[i] = h}
  OBVIOUS
<1>2. IsFiniteSet({i \in 1..n : blocks[i] = h})
  BY CountType
<1> QED
  BY <1>1, <1>2, FS_Subset DEF Count

\* The number of byte positions of a payload that satisfy a condition.
LEMMA BytesType ==
  ASSUME NEW c \in Content, NEW S, S \subseteq DOMAIN c
  PROVE  Cardinality(S) \in Nat
<1>1. DOMAIN c = 1..Len(c) /\ Len(c) \in Nat
  BY RuntimeAssumption
<1>2. IsFiniteSet(DOMAIN c)
  BY <1>1, FS_Interval
<1> QED
  BY <1>2, FS_Subset, FS_CardinalityType

\* The bytes a registration has to reserve are a natural number.
LEMMA NewBytesType ==
  ASSUME NEW c \in Content
  PROVE  NewBytes(c) \in Nat
BY BytesType DEF NewBytes

\* The bytes a release gives back are a natural number.
LEMMA FreedBytesType ==
  ASSUME NEW c \in Content, NEW n
  PROVE  FreedBytes(c, n) \in Nat
BY BytesType DEF FreedBytes

-----------------------------------------------------------------------------
(* References held by host placements.  The lemmas are about any map e of     *)
(* entries and any block size s, so that they serve both sides of a step.     *)

\* The positions of block h in payload c.
Occurrences(c, s, h) == {i \in 1..Len(Chunk(c, s)) : Chunk(c, s)[i] = h}

InHost(e, o) == e[o] # Absent /\ Host \in Range(e[o].placements)

UsesIn(e, s, h) ==
  UNION {{o} \X Occurrences(e[o].payload, s, h) : o \in {p \in Oid : InHost(e, p)}}

EntryMap == [Oid -> Entry \cup {Absent}]

\* A block occurs finitely often in a payload.
LEMMA OccurrencesFinite ==
  ASSUME NEW c \in Content, NEW s \in BlockSizes, NEW h
  PROVE  /\ IsFiniteSet(Occurrences(c, s, h))
         /\ Cardinality(Occurrences(c, s, h)) = Count(Chunk(c, s), Len(Chunk(c, s)), h)
         /\ Cardinality(Occurrences(c, s, h)) \in Nat
<1> DEFINE n == Len(Chunk(c, s))
<1>1. n \in Nat
  BY ChunkType
<1>2. /\ IsFiniteSet({i \in 1..n : Chunk(c, s)[i] = h})
      /\ Count(Chunk(c, s), n, h) \in Nat
  <2> HIDE DEF n
  <2> QED BY Zenon, <1>1, CountType DEF n
<1>3. Count(Chunk(c, s), n, h) = Cardinality(Occurrences(c, s, h))
  BY DEF Occurrences, Count
<1> QED
  BY <1>2, <1>3 DEF Occurrences

\* Host placements hold finitely many references.
LEMMA UsesFinite ==
  ASSUME NEW e \in EntryMap, NEW s \in BlockSizes, NEW h
  PROVE  IsFiniteSet(UsesIn(e, s, h)) /\ Cardinality(UsesIn(e, s, h)) \in Nat
<1> DEFINE S == {p \in Oid : InHost(e, p)}
           f == [o \in S |-> {o} \X Occurrences(e[o].payload, s, h)]
           T == {f[o] : o \in S}
<1>1. IsFiniteSet(S)
  BY RuntimeAssumption, FS_Subset
<1>2. f \in Surjection(S, T)
  BY Zenon DEF Surjection
<1>3. IsFiniteSet(T)
  <2> HIDE DEF S, f, T
  <2> QED BY <1>1, <1>2, FS_Surjection
<1>4. \A o \in S : IsFiniteSet(f[o])
  <2> TAKE o \in S
  <2>1. e[o].payload \in Content
    BY DEF EntryMap, Entry, InHost
  <2>2. IsFiniteSet(Occurrences(e[o].payload, s, h))
    BY <2>1, OccurrencesFinite
  <2>3. IsFiniteSet({o})
    BY FS_Singleton
  <2>4. IsFiniteSet({o} \X Occurrences(e[o].payload, s, h))
    BY <2>2, <2>3, FS_Product
  <2> QED BY <2>4
<1>5. \A t \in T : IsFiniteSet(t)
  BY <1>4
<1>6. IsFiniteSet(UNION T)
  <2> HIDE DEF T
  <2> QED BY <1>3, <1>5, FS_UNION
<1>7. UsesIn(e, s, h) = UNION T
  BY DEF UsesIn
<1> QED
  BY <1>6, <1>7, FS_CardinalityType

-----------------------------------------------------------------------------
(* Placement lists *)

\* Removing one entry of a placement list shifts the later ones down.
LEMMA RemoveAtElements ==
  ASSUME NEW p \in Seq(Tier), NEW i \in 1..Len(p)
  PROVE  /\ RemoveAt(p, i) \in Seq(Tier)
         /\ Len(RemoveAt(p, i)) = Len(p) - 1
         /\ \A j \in 1..(Len(p) - 1) :
              RemoveAt(p, i)[j] = IF j < i THEN p[j] ELSE p[j + 1]
<1> DEFINE a == SubSeq(p, 1, i - 1)
           b == SubSeq(p, i + 1, Len(p))
<1>1. /\ a \in Seq(Tier) /\ Len(a) = i - 1
      /\ \A j \in 1..(i - 1) : a[j] = p[j]
  OBVIOUS
<1>2. /\ b \in Seq(Tier) /\ Len(b) = Len(p) - i
      /\ \A j \in 1..(Len(p) - i) : b[j] = p[j + i]
  OBVIOUS
<1>3. RemoveAt(p, i) = a \o b
  BY DEF RemoveAt
<1> HIDE DEF a, b
<1>4. a \o b \in Seq(Tier) /\ Len(a \o b) = Len(p) - 1
  <2>1. a \o b \in Seq(Tier)
    BY <1>1, <1>2
  <2>0. a \in Seq(Tier) /\ b \in Seq(Tier)
    BY <1>1, <1>2
  <2>2. Len(a \o b) = Len(a) + Len(b)
    BY ONLY <2>0
  <2>3. Len(p) \in Nat /\ i \in Nat
    OBVIOUS
  <2> QED BY <2>1, <2>2, <2>3, <1>1, <1>2
<1>5. \A j \in 1..(Len(p) - 1) : (a \o b)[j] = IF j < i THEN p[j] ELSE p[j + 1]
  <2> TAKE j \in 1..(Len(p) - 1)
  <2>1. CASE j < i
    BY <2>1, <1>1, <1>2
  <2>2. CASE ~(j < i)
    <3>1. (a \o b)[j] = b[j - Len(a)]
      BY <2>2, <1>1, <1>2
    <3>2. j - Len(a) \in 1..(Len(p) - i)
      BY <2>2, <1>1
    <3> QED BY <3>1, <3>2, <2>2, <1>1, <1>2
  <2> QED BY Zenon, <2>1, <2>2
<1> QED
  BY <1>3, <1>4, <1>5

\* remove_placement takes exactly its tier out of a list without repetitions.
LEMMA WithoutTier ==
  ASSUME NEW p \in Seq(Tier), IsInjective(p), NEW t \in Range(p)
  PROVE  /\ Without(p, t) \in Seq(Tier)
         /\ IsInjective(Without(p, t))
         /\ Range(Without(p, t)) = Range(p) \ {t}
<1> DEFINE i == CHOOSE k \in DOMAIN p : p[k] = t
           q == RemoveAt(p, i)
<1>1. i \in 1..Len(p) /\ p[i] = t
  <2>1. \E k \in DOMAIN p : p[k] = t
    BY DEF Range
  <2>2. DOMAIN p = 1..Len(p)
    OBVIOUS
  <2> QED BY <2>1, <2>2
<1>2. Without(p, t) = q
  BY DEF Without
<1> HIDE DEF i
<1>3. /\ q \in Seq(Tier)
      /\ Len(q) = Len(p) - 1
      /\ \A j \in 1..(Len(p) - 1) : q[j] = IF j < i THEN p[j] ELSE p[j + 1]
  BY Zenon, <1>1, RemoveAtElements
<1> HIDE DEF q
<1>4. DOMAIN q = 1..(Len(p) - 1) /\ DOMAIN p = 1..Len(p) /\ Len(p) \in Nat
  BY <1>3
<1> DEFINE at(j) == IF j < i THEN j ELSE j + 1
<1>a. \A j \in DOMAIN q : at(j) \in DOMAIN p /\ at(j) # i /\ q[j] = p[at(j)]
  BY <1>1, <1>3, <1>4
<1>b. \A j, k \in DOMAIN q : at(j) = at(k) => j = k
  BY <1>1, <1>4
<1> HIDE DEF at
<1>5. IsInjective(q)
  BY <1>a, <1>b DEF IsInjective
<1>6. Range(q) \subseteq Range(p) \ {t}
  BY <1>1, <1>4, <1>a DEF IsInjective, Range
<1>7. Range(p) \ {t} \subseteq Range(q)
  <2> SUFFICES ASSUME NEW k \in DOMAIN p, p[k] # t PROVE p[k] \in Range(q)
    BY DEF Range
  <2>1. CASE k < i
    BY <2>1, <1>1, <1>3, <1>4 DEF Range
  <2>2. CASE k > i
    <3>1. k - 1 \in DOMAIN q /\ q[k - 1] = p[k]
      BY <2>2, <1>1, <1>3, <1>4
    <3> QED BY <3>1 DEF Range
  <2> QED BY <2>1, <2>2, <1>1, <1>4
<1> QED
  BY <1>2, <1>3, <1>5, <1>6, <1>7

\* Pushing a tier an entry does not have.
LEMMA AppendTier ==
  ASSUME NEW p \in Seq(Tier), IsInjective(p), NEW t \in Tier, t \notin Range(p)
  PROVE  /\ Append(p, t) \in Seq(Tier)
         /\ IsInjective(Append(p, t))
         /\ Range(Append(p, t)) = Range(p) \cup {t}
<1> DEFINE q == Append(p, t)
<1>1. /\ q \in Seq(Tier) /\ Len(q) = Len(p) + 1
      /\ DOMAIN q = 1..(Len(p) + 1) /\ DOMAIN p = 1..Len(p) /\ Len(p) \in Nat
      /\ q[Len(p) + 1] = t
      /\ \A j \in 1..Len(p) : q[j] = p[j]
  OBVIOUS
<1> HIDE DEF q
<1>2. IsInjective(q)
  BY <1>1 DEF IsInjective, Range
<1>3. Range(q) \subseteq Range(p) \cup {t}
  BY <1>1 DEF Range
<1>4. Range(p) \subseteq Range(q)
  BY <1>1 DEF Range
<1>5. t \in Range(q)
  BY <1>1 DEF Range
<1> QED
  BY <1>1, <1>2, <1>3, <1>4, <1>5 DEF q

\* The references of the model's current and next state.
LEMMA HostUsesIs ==
  ASSUME TypeOK, NEW h
  PROVE  HostUses(h) = UsesIn(entries, blockSize, h)
<1>1. \A o \in Oid : Has(o, Host) =>
        DOMAIN HostBlocks(entries[o].payload) = 1..Len(HostBlocks(entries[o].payload))
  BY ChunkType DEF TypeOK, Entry, Has, HostBlocks
<1> QED
  BY <1>1 DEF HostUses, UsesIn, Occurrences, InHost, Has, HostBlocks

\* The same in the next state.
LEMMA NextHostUsesIs ==
  ASSUME TypeOK', NEW h
  PROVE  HostUses(h)' = UsesIn(entries', blockSize', h)
<1>1. \A o \in Oid : Has(o, Host)' =>
        DOMAIN Chunk(entries'[o].payload, blockSize')
          = 1..Len(Chunk(entries'[o].payload, blockSize'))
  BY ChunkType DEF TypeOK, Entry, Has
<1> QED
  BY <1>1 DEF HostUses, UsesIn, Occurrences, InHost, Has, HostBlocks

-----------------------------------------------------------------------------
(* Shape of the state: types, placement lists, the removal loop, the budget *)

\* The victims of a removal loop stay registered while it holds the mutex, and
\* the registration it works for is still pending.
SectionInv ==
  section # Absent =>
    /\ section.victims \subseteq Registered
    /\ section.op = "reclaim" => pending[section.thread] # Absent

Shape == TypeOK /\ OnePlacementPerTier /\ SectionInv /\ WithinBudget

\* Writing an entry with a list of distinct placements.
LEMMA EntrySet ==
  ASSUME TypeOK, OnePlacementPerTier, NEW o \in Oid, NEW r \in Entry,
         IsInjective(r.placements), entries' = [entries EXCEPT ![o] = r]
  PROVE  /\ entries' \in [Oid -> Entry \cup {Absent}]
         /\ OnePlacementPerTier'
         /\ Registered' = Registered \cup {o}
BY AbsentAssumption DEF TypeOK, OnePlacementPerTier, Registered

\* The entry of a registered object.
LEMMA EntryFacts ==
  ASSUME TypeOK, OnePlacementPerTier, NEW o \in Oid, entries[o] # Absent
  PROVE  /\ entries[o] \in Entry
         /\ entries[o].payload \in Content
         /\ entries[o].placements \in Seq(Tier)
         /\ IsInjective(entries[o].placements)
BY DEF TypeOK, OnePlacementPerTier, Registered, Entry

\* Writing the placement list of a registered object.
LEMMA PlacementsSet ==
  ASSUME TypeOK, OnePlacementPerTier, NEW o \in Oid, entries[o] # Absent,
         NEW q \in Seq(Tier), IsInjective(q),
         entries' = [entries EXCEPT ![o].placements = q]
  PROVE  /\ entries' \in [Oid -> Entry \cup {Absent}]
         /\ OnePlacementPerTier'
         /\ Registered' = Registered
         /\ entries'[o] # Absent
         /\ entries'[o].payload = entries[o].payload
         /\ entries'[o].placements = q
         /\ \A p \in Oid : p # o => entries'[p] = entries[p]
<1> DEFINE r == [entries[o] EXCEPT !.placements = q]
<1>1. entries[o] \in Entry
  BY EntryFacts
<1>2. entries' = [entries EXCEPT ![o] = r]
  OBVIOUS
<1>3. r \in Entry /\ r.placements = q /\ r.payload = entries[o].payload
  BY SMTT(30), <1>1 DEF Entry
<1> HIDE DEF r
<1>4. entries'[o] = r /\ \A p \in Oid : p # o => entries'[p] = entries[p]
  BY <1>2 DEF TypeOK
<1>5. o \in Registered /\ IsInjective(r.placements)
  BY <1>3 DEF Registered
<1>6. /\ entries' \in [Oid -> Entry \cup {Absent}] /\ OnePlacementPerTier'
      /\ Registered' = Registered \cup {o}
  BY Zenon, <1>2, <1>3, <1>5, EntrySet
<1> QED
  BY <1>3, <1>4, <1>5, <1>6, AbsentAssumption

\* The placement list after a demotion that had to copy first.
LEMMA MovedTier ==
  ASSUME NEW p \in Seq(Tier), IsInjective(p), NEW t \in Tier, t \notin Range(p),
         NEW u \in Range(p)
  PROVE  /\ Without(Append(p, t), u) \in Seq(Tier)
         /\ IsInjective(Without(Append(p, t), u))
         /\ Range(Without(Append(p, t), u)) = (Range(p) \cup {t}) \ {u}
<1>1. /\ Append(p, t) \in Seq(Tier) /\ IsInjective(Append(p, t))
      /\ Range(Append(p, t)) = Range(p) \cup {t}
  BY AppendTier
<1>2. u \in Range(Append(p, t))
  BY <1>1
<1> QED
  BY Zenon, <1>1, <1>2, WithoutTier

-----------------------------------------------------------------------------
(* The inductive invariant, and its preservation with one step per action *)

\* The state has its shape, and the arena counts at least the references of the
\* host placements.
IInv == Shape /\ ReferencesCover

\* The loop moves on to the next tier, or gives up.
LEMMA NextTierType ==
  ASSUME TypeOK, section # Absent, section.todo # <<>>, NextTier
  PROVE  /\ section' \in Section
         /\ section'.victims = section.victims /\ section'.op = section.op
         /\ section'.thread = section.thread
<1>1. section \in Section
  BY DEF TypeOK
<1>2. Tail(section.todo) \in Seq(Tier)
  BY <1>1 DEF Section
<1> QED
  BY Zenon, <1>1, <1>2 DEF NextTier, Section

\* Taking one tier out of an entry.
LEMMA TierRemoved ==
  ASSUME IInv, NEW o \in Oid, NEW t \in Tier, Has(o, t),
         entries' = [entries EXCEPT ![o].placements = Without(@, t)]
  PROVE  /\ entries' \in [Oid -> Entry \cup {Absent}]
         /\ OnePlacementPerTier'
         /\ Registered' = Registered
         /\ \A p \in Oid, u \in Tier : Has(p, u)' =>
              Has(p, u) /\ entries'[p].payload = entries[p].payload
         /\ ~Has(o, t)'
<1> DEFINE p0 == entries[o].placements
           q == Without(p0, t)
<1>1. entries[o] # Absent /\ t \in Range(p0)
  BY DEF Has
<1>2. p0 \in Seq(Tier) /\ IsInjective(p0)
  BY <1>1, EntryFacts DEF IInv, Shape
<1>3. q \in Seq(Tier) /\ IsInjective(q) /\ Range(q) = Range(p0) \ {t}
  BY <1>1, <1>2, WithoutTier
<1>4. entries' = [entries EXCEPT ![o].placements = q]
  OBVIOUS
<1> HIDE DEF q
<1>5. /\ entries' \in [Oid -> Entry \cup {Absent}]
      /\ OnePlacementPerTier'
      /\ Registered' = Registered
      /\ entries'[o].payload = entries[o].payload
      /\ entries'[o].placements = q
      /\ \A p \in Oid : p # o => entries'[p] = entries[p]
  BY Zenon, <1>1, <1>3, <1>4, PlacementsSet DEF IInv, Shape
<1> QED
  BY <1>1, <1>3, <1>5 DEF Has

\* Adding one tier to an entry.
LEMMA TierAdded ==
  ASSUME IInv, NEW o \in Oid, NEW t \in Tier, entries[o] # Absent, ~Has(o, t),
         entries' = [entries EXCEPT ![o].placements = Pushed(o, t)]
  PROVE  /\ entries' \in [Oid -> Entry \cup {Absent}]
         /\ OnePlacementPerTier'
         /\ Registered' = Registered
         /\ entries'[o].payload = entries[o].payload
         /\ \A p \in Oid : p # o => entries'[p] = entries[p]
         /\ \A p \in Oid, u \in Tier : Has(p, u)' /\ (p # o \/ u # t) =>
              Has(p, u) /\ entries'[p].payload = entries[p].payload
<1> DEFINE p0 == entries[o].placements
           q == Append(p0, t)
<1>1. p0 \in Seq(Tier) /\ IsInjective(p0) /\ t \notin Range(p0)
  BY EntryFacts DEF IInv, Shape, Has
<1>2. q \in Seq(Tier) /\ IsInjective(q) /\ Range(q) = Range(p0) \cup {t}
  BY <1>1, AppendTier
<1>3. entries' = [entries EXCEPT ![o].placements = q]
  BY DEF Pushed
<1> HIDE DEF q
<1>4. /\ entries' \in [Oid -> Entry \cup {Absent}]
      /\ OnePlacementPerTier'
      /\ Registered' = Registered
      /\ entries'[o].payload = entries[o].payload
      /\ entries'[o].placements = q
      /\ \A p \in Oid : p # o => entries'[p] = entries[p]
  BY Zenon, <1>2, <1>3, PlacementsSet DEF IInv, Shape
<1> QED
  BY <1>2, <1>4 DEF Has

\* A demotion that had to copy first: tier u is replaced by tier t.
LEMMA TierMoved ==
  ASSUME IInv, NEW o \in Oid, NEW t \in Tier, NEW u \in Tier, Has(o, u), ~Has(o, t),
         entries' = [entries EXCEPT ![o].placements = Without(Pushed(o, t), u)]
  PROVE  /\ entries' \in [Oid -> Entry \cup {Absent}]
         /\ OnePlacementPerTier'
         /\ Registered' = Registered
         /\ entries'[o].payload = entries[o].payload
         /\ \A p \in Oid : p # o => entries'[p] = entries[p]
         /\ ~Has(o, u)'
         /\ \A v \in Tier : Has(o, v)' /\ v # t => Has(o, v)
<1> DEFINE p0 == entries[o].placements
           q == Without(Append(p0, t), u)
<1>1. /\ p0 \in Seq(Tier) /\ IsInjective(p0) /\ t \notin Range(p0) /\ u \in Range(p0)
      /\ entries[o] # Absent
  BY EntryFacts DEF IInv, Shape, Has
<1>2. q \in Seq(Tier) /\ IsInjective(q) /\ Range(q) = (Range(p0) \cup {t}) \ {u}
  BY <1>1, MovedTier
<1>3. entries' = [entries EXCEPT ![o].placements = q]
  BY DEF Pushed
<1> HIDE DEF q
<1>4. /\ entries' \in [Oid -> Entry \cup {Absent}]
      /\ OnePlacementPerTier'
      /\ Registered' = Registered
      /\ entries'[o].payload = entries[o].payload
      /\ entries'[o].placements = q
      /\ \A p \in Oid : p # o => entries'[p] = entries[p]
  BY Zenon, <1>1, <1>2, <1>3, PlacementsSet DEF IInv, Shape
<1> QED
  BY <1>2, <1>4 DEF Has

\* Setting the durable flag keeps the entries well formed.
LEMMA DurableSet ==
  ASSUME TypeOK, OnePlacementPerTier, NEW o \in Oid, entries[o] # Absent,
         NEW q \in Seq(Tier), IsInjective(q), NEW d \in BOOLEAN,
         entries' = [entries EXCEPT ![o].placements = q, ![o].durable = d]
  PROVE  /\ entries' \in [Oid -> Entry \cup {Absent}]
         /\ OnePlacementPerTier'
         /\ entries'[o].payload = entries[o].payload
         /\ entries'[o].placements = q
         /\ \A p \in Oid : p # o => entries'[p] = entries[p]
<1> DEFINE r == [entries[o] EXCEPT !.placements = q, !.durable = d]
<1>1. entries[o] \in Entry
  BY EntryFacts
<1>2. entries' = [entries EXCEPT ![o] = r]
  BY Zenon DEF TypeOK
<1>3. r \in Entry /\ r.placements = q /\ r.payload = entries[o].payload
  BY Zenon, <1>1 DEF Entry
<1> HIDE DEF r
<1>4. IsInjective(r.placements)
  BY <1>3
<1>5. entries' \in [Oid -> Entry \cup {Absent}] /\ OnePlacementPerTier'
  BY Zenon, <1>2, <1>3, <1>4, EntrySet
<1>6. entries'[o] = r /\ \A p \in Oid : p # o => entries'[p] = entries[p]
  BY Zenon, <1>2 DEF TypeOK
<1> QED
  BY <1>3, <1>5, <1>6

\* The object a removal loop works on.
LEMMA RemovingObject ==
  ASSUME IInv, NEW t, Removing(t)
  PROVE  /\ section \in Section /\ section # Absent /\ section.todo # <<>>
         /\ section.oid \in Oid
BY DEF IInv, Shape, TypeOK, Section, Removing

\* An empty runtime satisfies the invariant.
LEMMA InitInv == Init => IInv
\* No object is host resident: nothing refers to the arena.
<1>CoverEmpty. ASSUME TypeOK, \A o \in Oid : ~Has(o, Host)
               PROVE  ReferencesCover
  <2> USE <1>CoverEmpty
  <2> SUFFICES ASSUME NEW h \in Block PROVE arena[h] >= Cardinality(HostUses(h))
    BY DEF ReferencesCover
  <2>1. HostUses(h) = {}
    BY DEF HostUses
  <2> QED
    BY <2>1, FS_EmptySet DEF TypeOK
<1> SUFFICES ASSUME Init PROVE IInv
  OBVIOUS
<1>1. TypeOK
  BY DEF Init, TypeOK
<1>2. OnePlacementPerTier /\ SectionInv /\ WithinBudget
  BY RuntimeAssumption DEF Init, OnePlacementPerTier, Registered, SectionInv, WithinBudget
<1>3. ReferencesCover
  BY <1>1, <1>CoverEmpty DEF Init, Has
<1> QED
  BY <1>1, <1>2, <1>3 DEF IInv, Shape

\* Every step of the runtime preserves the invariant.
LEMMA NextInv == IInv /\ [Next]_vars => IInv'
\* Adding the pairs of one object adds at most as many as it has positions.
<1>PairsGained. ASSUME NEW U, IsFiniteSet(U), NEW I, IsFiniteSet(I), NEW o,
                       NEW V, V \subseteq U \cup ({o} \X I)
                PROVE  Cardinality(V) <= Cardinality(U) + Cardinality(I)
  <2> USE <1>PairsGained
  <2>1. IsFiniteSet({o}) /\ Cardinality({o}) = 1
    BY FS_Singleton
  <2>2. IsFiniteSet({o} \X I) /\ Cardinality({o} \X I) = 1 * Cardinality(I)
    BY <2>1, FS_Product
  <2>3. Cardinality(I) \in Nat /\ Cardinality(U) \in Nat
    BY FS_CardinalityType
  <2>4. /\ IsFiniteSet(U \cup ({o} \X I))
        /\ Cardinality(U \cup ({o} \X I)) =
             Cardinality(U) + Cardinality({o} \X I) - Cardinality(U \cap ({o} \X I))
    BY <2>2, FS_Union
  <2>5. Cardinality(U \cap ({o} \X I)) \in Nat
    BY Zenon, FS_Intersection, FS_CardinalityType
  <2>6. Cardinality(V) <= Cardinality(U \cup ({o} \X I)) /\ Cardinality(V) \in Nat
    BY <2>4, FS_Subset, FS_CardinalityType
  <2> QED
    BY <2>2, <2>3, <2>4, <2>5, <2>6
\* Dropping the pairs of one object drops at least as many as it has positions.
<1>PairsLost. ASSUME NEW U, IsFiniteSet(U), NEW I, IsFiniteSet(I), NEW o,
                     {o} \X I \subseteq U,
                     NEW V, V \subseteq U \ ({o} \X I)
              PROVE  Cardinality(V) + Cardinality(I) <= Cardinality(U)
  <2> USE <1>PairsLost
  <2>1. IsFiniteSet({o}) /\ Cardinality({o}) = 1
    BY Zenon, FS_Singleton
  <2>2. IsFiniteSet({o} \X I) /\ Cardinality({o} \X I) = 1 * Cardinality(I)
    BY <2>1, FS_Product
  <2>3. Cardinality(I) \in Nat /\ Cardinality(U) \in Nat
    BY FS_CardinalityType
  <2>4. U \cap ({o} \X I) = {o} \X I
    OBVIOUS
  <2>5. /\ IsFiniteSet(U \ ({o} \X I))
        /\ Cardinality(U \ ({o} \X I)) = Cardinality(U) - Cardinality(U \cap ({o} \X I))
    BY Zenon, FS_Difference
  <2>6. Cardinality(V) <= Cardinality(U \ ({o} \X I)) /\ Cardinality(V) \in Nat
    BY <2>5, FS_Subset, FS_CardinalityType
  <2>7. Cardinality(U \cap ({o} \X I)) = Cardinality({o} \X I)
    BY <2>4, Zenon
  <2>8. Cardinality({o} \X I) = Cardinality(I)
    BY <2>2, <2>3
  <2>9. Cardinality(U \ ({o} \X I)) = Cardinality(U) - Cardinality(I)
    BY <2>5, <2>7, <2>8, Zenon
  <2> QED
    BY <2>3, <2>6, <2>9
\* No object gains a host placement: no reference is added.
<1>UsesKept. ASSUME NEW e \in EntryMap, NEW f \in EntryMap, NEW s \in BlockSizes, NEW h,
                    \A o \in Oid : InHost(f, o) => InHost(e, o) /\ f[o].payload = e[o].payload
             PROVE  Cardinality(UsesIn(f, s, h)) <= Cardinality(UsesIn(e, s, h))
  <2> USE <1>UsesKept
  <2>1. UsesIn(f, s, h) \subseteq UsesIn(e, s, h)
    BY DEF UsesIn
  <2> QED
    BY <2>1, UsesFinite, FS_Subset
\* Object o gains a host placement, or has its host placement replaced.
<1>UsesGained. ASSUME NEW e \in EntryMap, NEW f \in EntryMap, NEW s \in BlockSizes, NEW h,
                      NEW o \in Oid, NEW c \in Content, f[o].payload = c,
                      \A p \in Oid : p # o /\ InHost(f, p) =>
                         InHost(e, p) /\ f[p].payload = e[p].payload
               PROVE  Cardinality(UsesIn(f, s, h)) <=
                        Cardinality(UsesIn(e, s, h)) + Cardinality(Occurrences(c, s, h))
  <2> USE <1>UsesGained
  <2>1. UsesIn(f, s, h) \subseteq UsesIn(e, s, h) \cup ({o} \X Occurrences(c, s, h))
    BY DEF UsesIn
  <2> QED
    BY Zenon, <2>1, UsesFinite, OccurrencesFinite, <1>PairsGained
\* Object o loses its host placement.
<1>UsesLost. ASSUME NEW e \in EntryMap, NEW f \in EntryMap, NEW s \in BlockSizes, NEW h,
                    NEW o \in Oid, InHost(e, o), ~InHost(f, o),
                    \A p \in Oid : p # o /\ InHost(f, p) =>
                       InHost(e, p) /\ f[p].payload = e[p].payload
             PROVE  Cardinality(UsesIn(f, s, h)) + Cardinality(Occurrences(e[o].payload, s, h))
                      <= Cardinality(UsesIn(e, s, h))
  <2> USE <1>UsesLost
  <2> DEFINE I == Occurrences(e[o].payload, s, h)
  <2>0. e[o].payload \in Content
    BY DEF EntryMap, Entry, InHost
  <2>1. {o} \X I \subseteq UsesIn(e, s, h)
    BY DEF UsesIn
  <2>2. UsesIn(f, s, h) \subseteq UsesIn(e, s, h) \ ({o} \X I)
    BY DEF UsesIn
  <2>3. IsFiniteSet(I)
    BY <2>0, OccurrencesFinite
  <2> HIDE DEF I
  <2>4. Cardinality(UsesIn(f, s, h)) + Cardinality(I) <= Cardinality(UsesIn(e, s, h))
    BY Zenon, <2>1, <2>2, <2>3, UsesFinite, <1>PairsLost
  <2> QED
    BY <2>4 DEF I
\* A step that leaves the arena alone and adds no host placement.
<1>CoverKept. ASSUME TypeOK, TypeOK', ReferencesCover, arena' = arena, blockSize' = blockSize,
                     \A o \in Oid : Has(o, Host)' => Has(o, Host) /\ entries'[o].payload = entries[o].payload
              PROVE  ReferencesCover'
  <2> USE <1>CoverKept
  <2> SUFFICES ASSUME NEW h \in Block PROVE arena'[h] >= Cardinality(HostUses(h)')
    BY DEF ReferencesCover
  <2>1. entries \in EntryMap /\ entries' \in EntryMap /\ blockSize \in BlockSizes
    BY DEF TypeOK, EntryMap
  <2>2. Cardinality(UsesIn(entries', blockSize, h)) <= Cardinality(UsesIn(entries, blockSize, h))
    BY <2>1, <1>UsesKept DEF Has, InHost
  <2>3. /\ Cardinality(UsesIn(entries', blockSize, h)) \in Nat
        /\ Cardinality(UsesIn(entries, blockSize, h)) \in Nat
    BY <2>1, UsesFinite
  <2>4. arena[h] \in Nat /\ arena[h] >= Cardinality(UsesIn(entries, blockSize, h))
    BY SMTT(30), HostUsesIs DEF ReferencesCover, TypeOK
  <2>5. HostUses(h)' = UsesIn(entries', blockSize, h)
    BY SMTT(30), NextHostUsesIs
  <2> QED
    BY <2>2, <2>3, <2>4, <2>5
\* A step that acquires the blocks of payload c for a host placement of o.
<1>CoverAcquire. ASSUME TypeOK, TypeOK', ReferencesCover, blockSize' = blockSize,
                        NEW o \in Oid, NEW c \in Content, NEW need, Acquire(c, need),
                        entries'[o].payload = c,
                        \A p \in Oid : p # o /\ Has(p, Host)' =>
                           Has(p, Host) /\ entries'[p].payload = entries[p].payload
                 PROVE  ReferencesCover'
  <2> USE <1>CoverAcquire
  <2> SUFFICES ASSUME NEW h \in Block PROVE arena'[h] >= Cardinality(HostUses(h)')
    BY DEF ReferencesCover
  <2> DEFINE k == Cardinality(Occurrences(c, blockSize, h))
  <2>1. entries \in EntryMap /\ entries' \in EntryMap /\ blockSize \in BlockSizes
    BY DEF TypeOK, EntryMap
  <2>2. Cardinality(UsesIn(entries', blockSize, h))
          <= Cardinality(UsesIn(entries, blockSize, h)) + k
    BY <2>1, <1>UsesGained DEF Has, InHost
  <2>3. /\ Cardinality(UsesIn(entries', blockSize, h)) \in Nat
        /\ Cardinality(UsesIn(entries, blockSize, h)) \in Nat
    BY <2>1, UsesFinite
  <2>4. arena[h] \in Nat /\ arena[h] >= Cardinality(UsesIn(entries, blockSize, h))
    BY SMTT(30), HostUsesIs DEF ReferencesCover, TypeOK
  <2>5. HostUses(h)' = UsesIn(entries', blockSize, h)
    BY NextHostUsesIs
  <2>6. k \in Nat /\ arena'[h] = arena[h] + k
    BY SMTT(30), <2>1, OccurrencesFinite DEF Acquire, HostBlocks
  <2> QED
    BY SMTT(30), <2>2, <2>3, <2>4, <2>5, <2>6
\* A step that drops the host placement of o and releases a prefix of its blocks.
<1>CoverRelease. ASSUME TypeOK, TypeOK', ReferencesCover, blockSize' = blockSize,
                        NEW o \in Oid, Has(o, Host), ~Has(o, Host)',
                        NEW n \in 0..Len(HostBlocks(entries[o].payload)), NEW ok \in BOOLEAN,
                        Release(entries[o].payload, n, ok),
                        \A p \in Oid : p # o /\ Has(p, Host)' =>
                           Has(p, Host) /\ entries'[p].payload = entries[p].payload
                 PROVE  ReferencesCover'
  <2> USE <1>CoverRelease
  <2> SUFFICES ASSUME NEW h \in Block PROVE arena'[h] >= Cardinality(HostUses(h)')
    BY SMTT(30) DEF ReferencesCover
  <2> DEFINE c == entries[o].payload
             k == Cardinality(Occurrences(c, blockSize, h))
             m == Count(HostBlocks(c), n, h)
  <2>1. /\ entries \in EntryMap /\ entries' \in EntryMap /\ blockSize \in BlockSizes
        /\ c \in Content
    BY DEF TypeOK, EntryMap, Has, Entry
  <2>2. Cardinality(UsesIn(entries', blockSize, h)) + k
          <= Cardinality(UsesIn(entries, blockSize, h))
    BY <2>1, <1>UsesLost DEF Has, InHost
  <2>3. /\ Cardinality(UsesIn(entries', blockSize, h)) \in Nat
        /\ Cardinality(UsesIn(entries, blockSize, h)) \in Nat
    BY SMTT(30), <2>1, UsesFinite
  <2>4. arena[h] \in Nat /\ arena[h] >= Cardinality(UsesIn(entries, blockSize, h))
    BY HostUsesIs DEF ReferencesCover, TypeOK
  <2>5. HostUses(h)' = UsesIn(entries', blockSize, h)
    BY NextHostUsesIs
  <2>6. Len(HostBlocks(c)) \in Nat
    BY SMTT(30), <2>1, ChunkType DEF HostBlocks
  <2>7. k \in Nat /\ k = Count(HostBlocks(c), Len(HostBlocks(c)), h)
    BY <2>1, OccurrencesFinite DEF HostBlocks
  <2>8. m \in Nat /\ m <= k
    <3>1. n \in Nat /\ n <= Len(HostBlocks(c))
      BY SMTT(30), <2>6
    <3> QED BY Zenon, <3>1, <2>6, <2>7, CountType, CountMonotone
  <2>9. arena'[h] = IF arena[h] > m THEN arena[h] - m ELSE 0
    BY DEF Release
  <2> HIDE DEF m, k
  <2> QED
    BY SMTT(30), <2>2, <2>3, <2>4, <2>5, <2>7, <2>8, <2>9
\* Acquiring blocks within the free bytes keeps counts and budget.
<1>AcquireType. ASSUME TypeOK, NEW c \in Content, NEW need \in Nat, Acquire(c, need)
                PROVE  arena' \in [Block -> Nat] /\ used' \in Nat /\ WithinBudget'
  <2> USE <1>AcquireType
  <2>1. Len(HostBlocks(c)) \in Nat
    BY ChunkType DEF HostBlocks, TypeOK
  <2>2. \A h \in Block : Count(HostBlocks(c), Len(HostBlocks(c)), h) \in Nat
    BY Zenon, <2>1, CountType
  <2>3. arena' \in [Block -> Nat]
    BY <2>2 DEF Acquire, TypeOK
  <2> QED
    BY SMTT(30), <2>3, RuntimeAssumption DEF Acquire, Free, WithinBudget, TypeOK
\* Releasing blocks, with or without an underflow, keeps counts and budget.
<1>ReleaseType. ASSUME TypeOK, WithinBudget, NEW c \in Content,
                       NEW n \in 0..Len(HostBlocks(c)), NEW ok \in BOOLEAN, Release(c, n, ok)
                PROVE  arena' \in [Block -> Nat] /\ used' \in Nat /\ WithinBudget'
  <2> USE <1>ReleaseType
  <2>1. Len(HostBlocks(c)) \in Nat
    BY ChunkType DEF HostBlocks, TypeOK
  <2>2. n \in Nat /\ \A h \in Block : Count(HostBlocks(c), n, h) \in Nat
    <3>1. n \in Nat
      BY <2>1
    <3> QED BY Zenon, <3>1, CountType
  <2>3. arena' \in [Block -> Nat]
    BY <2>2 DEF Release, TypeOK
  <2>4. FreedBytes(c, n) \in Nat /\ FreedBytes(c, n - 1) \in Nat
    BY FreedBytesType
  <2>5. used' \in Nat /\ used' <= used
    <3>1. CASE ok
      BY SMTT(30), <3>1, <2>4 DEF Release, TypeOK
    <3>2. CASE ~ok
      BY <3>2, <2>4 DEF Release, TypeOK
    <3> QED BY SMTT(30), <3>1, <3>2
  <2> QED
    BY SMTT(30), <2>3, <2>5, RuntimeAssumption DEF WithinBudget, TypeOK
\* The common tail of both ways through register.
<1>InsertStep. ASSUME IInv, NEW o \in Oid, NEW c \in Content, NEW need \in Nat,
                      Insert(o, c, need), section' = Absent,
                      pending' \in [Thread -> Pending \cup {Absent}],
                      UNCHANGED <<allocated, blockSize, manifest>>
               PROVE  IInv'
  <2> USE <1>InsertStep
  <2> USE DEF IInv, Shape
  <2> DEFINE r == [payload |-> c, chunked |-> blockSize, placements |-> <<Host>>,
                   durable |-> FALSE]
  <2>1. Acquire(c, need) /\ entries' = [entries EXCEPT ![o] = r] /\ objectCount' = objectCount + 1
    BY DEF Insert
  <2>2. arena' \in [Block -> Nat] /\ used' \in Nat /\ WithinBudget'
    BY SMTT(30), <2>1, <1>AcquireType
  <2>3. r \in Entry /\ r.payload = c /\ r.placements = <<Host>>
    BY DEF Entry, TypeOK, Tier
  <2>4. IsInjective(<<Host>>)
    BY DEF IsInjective
  <2> HIDE DEF r
  <2>5. entries' \in [Oid -> Entry \cup {Absent}] /\ OnePlacementPerTier'
    BY Zenon, <2>1, <2>3, <2>4, EntrySet
  <2>6. TypeOK'
    BY SMTT(30), <2>1, <2>2, <2>5 DEF TypeOK
  <2>7. SectionInv'
    BY DEF SectionInv
  <2>8. entries'[o] = r /\ \A p \in Oid : p # o => entries'[p] = entries[p]
    BY SMTT(30), <2>1 DEF TypeOK
  <2>9. ReferencesCover'
    BY SMTT(30), <2>1, <2>3, <2>6, <2>8, <1>CoverAcquire DEF Has
  <2> QED
    BY SMTT(30), <2>2, <2>5, <2>6, <2>7, <2>9
\* register's first critical section preserves the invariant.
<1>RegisterStep. ASSUME IInv, NEW t \in Thread, NEW o \in Oid, NEW c \in Content, Register(t, o, c)
                 PROVE  IInv'
  <2> USE <1>RegisterStep
  <2> USE DEF IInv, Shape
  <2>0. section' = Absent /\ UNCHANGED <<allocated, blockSize, manifest>> /\ NewBytes(c) \in Nat
    BY SMTT(30), NewBytesType DEF Register, Idle
  <2>1. CASE Insert(o, c, NewBytes(c)) /\ UNCHANGED pending
    BY <2>0, <2>1, <1>InsertStep DEF TypeOK
  <2>2. CASE /\ pending' = [pending EXCEPT ![t] =
                   [stage |-> "evict", oid |-> o, payload |-> c, need |-> NewBytes(c)]]
             /\ UNCHANGED <<entries, arena, used, objectCount>>
    <3>1. TypeOK'
      <4> DEFINE new == [stage |-> "evict", oid |-> o, payload |-> c, need |-> NewBytes(c)]
      <4>1. new \in Pending
        BY SMTT(30), <2>0 DEF Pending
      <4> HIDE DEF new
      <4>2. pending' \in [Thread -> Pending \cup {Absent}]
        BY SMTT(30), <2>2, <4>1 DEF TypeOK, new
      <4> QED BY <2>0, <2>2, <4>2 DEF TypeOK
    <3>2. OnePlacementPerTier' /\ SectionInv' /\ WithinBudget'
      BY SMTT(30), <2>0, <2>2 DEF OnePlacementPerTier, Registered, SectionInv, WithinBudget
    <3>3. ReferencesCover'
      BY SMTT(30), <2>0, <2>2, <3>1, <1>CoverKept DEF Has
    <3> QED BY SMTT(30), <3>1, <3>2, <3>3
  <2> QED
    BY SMTT(30), <2>1, <2>2 DEF Register
\* register's second critical section preserves the invariant.
<1>RegisterRetryStep. ASSUME IInv, NEW t \in Thread, RegisterRetry(t)
                      PROVE  IInv'
  <2> USE <1>RegisterRetryStep
  <2> USE DEF IInv, Shape
  <2>0. /\ section' = Absent /\ UNCHANGED <<allocated, blockSize, manifest>>
        /\ pending' \in [Thread -> Pending \cup {Absent}]
        /\ pending[t] \in Pending
    BY DEF RegisterRetry, TypeOK
  <2>1. pending[t].oid \in Oid /\ pending[t].payload \in Content /\ pending[t].need \in Nat
    BY SMTT(30), <2>0 DEF Pending
  <2>2. CASE Insert(pending[t].oid, pending[t].payload, pending[t].need)
    BY SMTT(30), <2>0, <2>1, <2>2, <1>InsertStep
  <2>3. CASE UNCHANGED <<entries, arena, used, objectCount>>
    <3>1. TypeOK'
      BY SMTT(30), <2>0, <2>3 DEF TypeOK
    <3>2. OnePlacementPerTier' /\ SectionInv' /\ WithinBudget'
      BY SMTT(30), <2>0, <2>3 DEF OnePlacementPerTier, Registered, SectionInv, WithinBudget
    <3>3. ReferencesCover'
      BY SMTT(30), <2>0, <2>3, <3>1, <1>CoverKept DEF Has
    <3> QED BY SMTT(30), <3>1, <3>2, <3>3
  <2> QED
    BY SMTT(30), <2>2, <2>3 DEF RegisterRetry
\* Steps that only move the registration protocol or the removal loop.
<1>ControlStep. ASSUME IInv, UNCHANGED <<entries, arena, used, allocated, objectCount, blockSize, manifest>>,
                       pending' \in [Thread -> Pending \cup {Absent}],
                       section' \in Section \cup {Absent}, SectionInv'
                PROVE  IInv'
  <2> USE <1>ControlStep
  <2> USE DEF IInv, Shape
  <2>1. TypeOK'
    BY SMTT(30) DEF TypeOK
  <2>2. OnePlacementPerTier' /\ WithinBudget'
    BY DEF OnePlacementPerTier, Registered, WithinBudget
  <2>3. ReferencesCover'
    BY <2>1, <1>CoverKept DEF Has
  <2> QED
    BY SMTT(30), <2>1, <2>2, <2>3
\* evict_to_free collecting its victims preserves the invariant.
<1>EvictToFreeStep. ASSUME IInv, NEW t \in Thread, EvictToFree(t)
                    PROVE  IInv'
  <2> USE <1>EvictToFreeStep
  <2>1. pending[t] \in Pending /\ pending[t] # Absent /\ section = Absent
    BY DEF EvictToFree, IInv, Shape, TypeOK
  <2>2. CASE pending' = [pending EXCEPT ![t].stage = "retry"] /\ UNCHANGED section
    <3>1. [pending[t] EXCEPT !.stage = "retry"] \in Pending
      BY <2>1 DEF Pending
    <3>2. pending' \in [Thread -> Pending \cup {Absent}]
      BY SMTT(30), <2>2, <3>1 DEF IInv, Shape, TypeOK
    <3>3. section' \in Section \cup {Absent} /\ SectionInv'
      BY SMTT(30), <2>1, <2>2 DEF SectionInv
    <3> QED BY SMTT(30), <3>2, <3>3, <1>ControlStep DEF EvictToFree
  <2>3. CASE /\ section' = [op |-> "reclaim", thread |-> t, oid |-> pending[t].oid,
                         todo |-> <<>>,
                         victims |-> {o \in Oid : Has(o, Host) /\ ~entries[o].durable}]
             /\ UNCHANGED pending
    <3>1. section' \in Section \cup {Absent}
      BY SMTT(30), <2>1, <2>3 DEF Section, Pending
    <3>2. SectionInv'
      BY SMTT(30), <2>1, <2>3 DEF SectionInv, Registered, Has, EvictToFree
    <3> QED BY SMTT(30), <2>3, <3>1, <3>2, <1>ControlStep DEF EvictToFree, IInv, Shape, TypeOK
  <2> QED
    BY SMTT(30), <2>2, <2>3 DEF EvictToFree
\* Turning to the next victim preserves the invariant.
<1>ReclaimNextStep. ASSUME IInv, NEW o \in Oid, ReclaimNext(o)
                    PROVE  IInv'
  <2> USE <1>ReclaimNextStep
  <2>1. section \in Section /\ section # Absent /\ section.op = "reclaim"
    BY DEF ReclaimNext, InLoop, IInv, Shape, TypeOK
  <2>2. o \in section.victims /\ entries[o] # Absent
    BY SMTT(30), <2>1 DEF ReclaimNext, IInv, Shape, SectionInv, Registered
  <2>3. entries[o].placements \in Seq(Tier)
    BY SMTT(30), <2>2, EntryFacts DEF IInv, Shape
  <2>4. section' = [section EXCEPT !.oid = o, !.todo = entries[o].placements,
                                   !.victims = section.victims \ {o}]
    BY DEF ReclaimNext
  <2>5. section' \in Section
    BY Zenon, <2>1, <2>3, <2>4 DEF Section
  <2>6. SectionInv'
    BY SMTT(30), <2>1, <2>4 DEF SectionInv, Section, Registered, ReclaimNext, IInv, Shape
  <2> QED
    BY SMTT(30), <2>5, <2>6, <1>ControlStep DEF ReclaimNext, IInv, Shape, TypeOK
\* The end of evict_to_free preserves the invariant.
<1>ReclaimDoneStep. ASSUME IInv, ReclaimDone
                    PROVE  IInv'
  <2> USE <1>ReclaimDoneStep
  <2> DEFINE t == section.thread
  <2>1. /\ section \in Section /\ section # Absent /\ section.op = "reclaim"
        /\ t \in Thread /\ pending[t] # Absent
    BY SMTT(30) DEF ReclaimDone, InLoop, IInv, Shape, TypeOK, SectionInv, Section
  <2>2. pending[t] \in Pending
    BY <2>1 DEF IInv, Shape, TypeOK
  <2>3. [pending[t] EXCEPT !.stage = "retry"] \in Pending
    BY SMTT(30), <2>2 DEF Pending
  <2>4. pending' \in [Thread -> Pending \cup {Absent}]
    BY SMTT(30), <2>1, <2>3 DEF ReclaimDone, IInv, Shape, TypeOK
  <2>5. section' \in Section \cup {Absent} /\ SectionInv'
    BY DEF ReclaimDone, SectionInv
  <2> QED
    BY SMTT(30), <2>4, <2>5, <1>ControlStep DEF ReclaimDone
\* The section that evict or delete opens is well formed and has no victims.
<1>RemovalSection. ASSUME NEW op \in {"evict", "delete"}, NEW t \in Thread, NEW o \in Oid,
                          NEW todo \in Seq(Tier), NEW s,
                          s = [op |-> op, thread |-> t, oid |-> o, todo |-> todo, victims |-> {}]
                   PROVE  s \in Section /\ s.victims = {} /\ s.op # "reclaim"
  <2> USE <1>RemovalSection
  <2>1. op \in {"reclaim", "evict", "delete"} /\ {} \in SUBSET Oid
    BY Zenon
  <2>2. s \in Section
    BY Zenon, <2>1 DEF Section
  <2>3. s.victims = {} /\ s.op = op
    BY Zenon
  <2>4. op # "reclaim"
    OBVIOUS
  <2> QED
    BY ZenonT(40), <2>2, <2>3, <2>4
\* Entering the loop of evict or delete preserves the invariant.
<1>BeginRemovalStep. ASSUME IInv, NEW t \in Thread, NEW o \in Oid, Evict(t, o) \/ Delete(t, o)
                     PROVE  IInv'
  <2> USE <1>BeginRemovalStep
  <2>1. entries[o] # Absent
    BY Zenon DEF Evict, Delete
  <2>2. entries[o].placements \in Seq(Tier)
    BY Zenon, EntryFacts, <2>1 DEF IInv, Shape
  <2>3. PICK op \in {"evict", "delete"} :
          section' = [op |-> op, thread |-> t, oid |-> o,
                      todo |-> entries[o].placements, victims |-> {}]
    BY Zenon DEF Evict, Delete
  <2>4. section' \in Section /\ section'.victims = {} /\ section'.op # "reclaim"
    BY ZenonT(40), <2>2, <2>3, <1>RemovalSection
  <2>5. SectionInv'
    BY <2>4 DEF SectionInv
  <2>6. pending' \in [Thread -> Pending \cup {Absent}]
    BY ZenonT(40) DEF Evict, Delete, IInv, Shape, TypeOK
  <2> QED
    BY ZenonT(40), <2>4, <2>5, <2>6, <1>ControlStep DEF Evict, Delete
\* Stepping over the persistent placement preserves the invariant.
<1>SkipPersistentStep. ASSUME IInv, SkipPersistent
                       PROVE  IInv'
  <2> USE <1>SkipPersistentStep
  <2>1. section # Absent /\ section.todo # <<>> /\ NextTier
    BY SMTT(30) DEF SkipPersistent, Removing
  <2>2. /\ section' \in Section
        /\ section'.victims = section.victims /\ section'.op = section.op
        /\ section'.thread = section.thread
    BY SMTT(30), <2>1, NextTierType DEF IInv, Shape
  <2>3. SectionInv'
    BY SMTT(30), <2>1, <2>2 DEF SectionInv, Registered, SkipPersistent, IInv, Shape
  <2> QED
    BY SMTT(30), <2>2, <2>3, <1>ControlStep DEF SkipPersistent, IInv, Shape, TypeOK
\* The end of evict preserves the invariant.
<1>EvictDoneStep. ASSUME IInv, EvictDone
                  PROVE  IInv'
  <2> USE <1>EvictDoneStep
  <2>1. section' \in Section \cup {Absent} /\ SectionInv'
    BY SMTT(30) DEF EvictDone, SectionInv
  <2> QED
    BY SMTT(30), <2>1, <1>ControlStep DEF EvictDone, IInv, Shape, TypeOK
\* Entries change, the arena does not, and no host placement appears.
<1>EntryStep. ASSUME IInv, UNCHANGED <<arena, used, objectCount, blockSize, pending>>,
                     entries' \in [Oid -> Entry \cup {Absent}], OnePlacementPerTier',
                     allocated' \in [Backend -> Int],
                     manifest' \in [Oid -> Manifest \cup {Absent}],
                     section' \in Section \cup {Absent}, SectionInv',
                     \A o \in Oid : Has(o, Host)' => Has(o, Host) /\ entries'[o].payload = entries[o].payload
              PROVE  IInv'
  <2> USE <1>EntryStep
  <2> USE DEF IInv, Shape
  <2>1. TypeOK'
    BY SMTT(30) DEF TypeOK
  <2>2. WithinBudget'
    BY SMTT(30) DEF WithinBudget
  <2>3. ReferencesCover'
    BY SMTT(30), <2>1, <1>CoverKept
  <2> QED
    BY SMTT(30), <2>1, <2>2, <2>3
\* The loop keeps its invariant while entries stay registered.
<1>LoopKept. ASSUME IInv, section # Absent, section.todo # <<>>, NextTier,
                    pending' = pending, Registered' = Registered
             PROVE  section' \in Section /\ SectionInv'
  <2> USE <1>LoopKept
  <2>1. /\ section' \in Section
        /\ section'.victims = section.victims /\ section'.op = section.op
        /\ section'.thread = section.thread
    BY SMTT(30), NextTierType DEF IInv, Shape
  <2> QED
    BY SMTT(30), <2>1 DEF SectionInv, IInv, Shape
\* A step that releases the host placement of o; the rest of the state keeps
\* its shape.
<1>ReleaseStep. ASSUME IInv, NEW o \in Oid, Has(o, Host), ~Has(o, Host)',
                       NEW n \in 0..Len(HostBlocks(entries[o].payload)), NEW ok \in BOOLEAN,
                       Release(entries[o].payload, n, ok),
                       entries' \in [Oid -> Entry \cup {Absent}], OnePlacementPerTier',
                       \A p \in Oid : p # o /\ Has(p, Host)' =>
                          Has(p, Host) /\ entries'[p].payload = entries[p].payload,
                       UNCHANGED <<allocated, objectCount, blockSize, pending>>,
                       manifest' \in [Oid -> Manifest \cup {Absent}],
                       section' \in Section \cup {Absent}, SectionInv'
                PROVE  IInv'
  <2> USE <1>ReleaseStep
  <2> USE DEF IInv, Shape
  <2>1. entries[o].payload \in Content
    BY SMTT(30), EntryFacts DEF Has
  <2>2. arena' \in [Block -> Nat] /\ used' \in Nat /\ WithinBudget'
    BY SMTT(30), <2>1, <1>ReleaseType
  <2>3. TypeOK'
    BY SMTT(30), <2>2 DEF TypeOK
  <2>4. ReferencesCover'
    BY ZenonT(40), <2>3, <1>CoverRelease
  <2> QED
    BY SMTT(30), <2>2, <2>3, <2>4
\* A step that acquires a host placement for o.
<1>AcquireStep. ASSUME IInv, NEW o \in Oid, entries[o] # Absent,
                       Acquire(entries[o].payload, NewBytes(entries[o].payload)),
                       entries' \in [Oid -> Entry \cup {Absent}], OnePlacementPerTier',
                       entries'[o].payload = entries[o].payload,
                       \A p \in Oid : p # o => entries'[p] = entries[p],
                       allocated' \in [Backend -> Int],
                       UNCHANGED <<objectCount, blockSize, manifest, pending, section>>, SectionInv'
                PROVE  IInv'
  <2> USE <1>AcquireStep
  <2> USE DEF IInv, Shape
  <2> DEFINE c == entries[o].payload
  <2>1. c \in Content /\ NewBytes(c) \in Nat
    BY SMTT(30), EntryFacts, NewBytesType
  <2>2. arena' \in [Block -> Nat] /\ used' \in Nat /\ WithinBudget'
    BY SMTT(30), <2>1, <1>AcquireType
  <2>3. TypeOK'
    BY SMTT(30), <2>2 DEF TypeOK
  <2>4. ReferencesCover'
    BY SMTT(30), <2>1, <2>3, <1>CoverAcquire DEF Has
  <2> QED
    BY SMTT(30), <2>2, <2>3, <2>4
\* Outside a removal loop there is nothing for SectionInv to say.
<1>NoSection. ASSUME section = Absent, section' = section
              PROVE  section' \in Section \cup {Absent} /\ SectionInv'
  BY <1>NoSection DEF SectionInv
\* promote to the host tier preserves the invariant.
<1>PromoteHostStep. ASSUME IInv, NEW t \in Thread, NEW o \in Oid, PromoteHost(t, o)
                    PROVE  IInv'
  <2> USE <1>PromoteHostStep
  <2>1. /\ entries[o] # Absent /\ ~Has(o, Host) /\ Host \in Tier
        /\ entries' = [entries EXCEPT ![o].placements = Pushed(o, Host)]
    BY DEF PromoteHost, Materializable, Tier
  <2>2. /\ entries' \in [Oid -> Entry \cup {Absent}]
        /\ OnePlacementPerTier'
        /\ entries'[o].payload = entries[o].payload
        /\ \A p \in Oid : p # o => entries'[p] = entries[p]
    BY Zenon, <2>1, TierAdded
  <2>3. SectionInv' /\ allocated' \in [Backend -> Int]
    BY SMTT(30), <1>NoSection DEF PromoteHost, Idle, IInv, Shape, TypeOK
  <2> QED
    BY SMTT(30), <2>1, <2>2, <2>3, <1>AcquireStep DEF PromoteHost
\* promote to an accelerator preserves the invariant.
<1>PromoteAcceleratorStep. ASSUME IInv, NEW t \in Thread, NEW o \in Oid, NEW b \in Backend,
                                  PromoteAccelerator(t, o, b)
                           PROVE  IInv'
  <2> USE <1>PromoteAcceleratorStep
  <2>1. /\ entries[o] # Absent /\ ~Has(o, b) /\ b \in Tier /\ Host \in Tier /\ b # Host
        /\ entries' = [entries EXCEPT ![o].placements = Pushed(o, b)]
    BY RuntimeAssumption DEF PromoteAccelerator, Materializable, Tier
  <2>2. /\ entries' \in [Oid -> Entry \cup {Absent}]
        /\ OnePlacementPerTier'
        /\ \A p \in Oid : Has(p, Host)' =>
             Has(p, Host) /\ entries'[p].payload = entries[p].payload
    BY ZenonT(40), <2>1, TierAdded
  <2>3. SectionInv' /\ section' \in Section \cup {Absent}
    BY SMTT(30), <1>NoSection DEF PromoteAccelerator, Idle
  <2>4. entries[o].payload \in Seq(Nat)
    BY SMTT(30), <2>1, EntryFacts, RuntimeAssumption DEF IInv, Shape
  <2>5. allocated' \in [Backend -> Int]
    BY SMTT(30), <2>4 DEF PromoteAccelerator, IInv, Shape, TypeOK
  <2> QED
    BY SMTT(30), <2>2, <2>3, <2>5, <1>EntryStep DEF PromoteAccelerator, IInv, Shape, TypeOK
\* The manifest written for a registered object has its type.
<1>WriteManifestType. ASSUME IInv, NEW o \in Oid, entries[o] # Absent, WriteManifest(o)
                      PROVE  manifest' \in [Oid -> Manifest \cup {Absent}]
  <2> USE <1>WriteManifestType
  <2>1. entries[o].payload \in Content
    BY SMTT(30), EntryFacts DEF IInv, Shape
  <2> QED
    BY SMTT(30), <2>1 DEF WriteManifest, Manifest, IInv, Shape, TypeOK
\* promote and persist to the persistent tier preserve the invariant.
<1>PromotePersistentStep. ASSUME IInv, NEW t \in Thread, NEW o \in Oid, NEW d \in BOOLEAN,
                                 PromotePersistent(t, o, d)
                          PROVE  IInv'
  <2> USE <1>PromotePersistentStep
  <2> DEFINE p0 == entries[o].placements
             q == Append(p0, Persistent)
  <2>1. entries[o] # Absent /\ Persistent \in Tier /\ Persistent # Host
    BY DEF PromotePersistent, Materializable, Tier, Persistent, Host
  <2>2. p0 \in Seq(Tier) /\ IsInjective(p0) /\ Persistent \notin Range(p0)
    BY SMTT(30), <2>1, EntryFacts DEF IInv, Shape, Has, PromotePersistent
  <2>3. q \in Seq(Tier) /\ IsInjective(q) /\ Range(q) = Range(p0) \cup {Persistent}
    BY SMTT(30), <2>1, <2>2, AppendTier
  <2>4. entries' = [entries EXCEPT ![o].placements = q, ![o].durable = d]
    BY DEF PromotePersistent, Pushed
  <2> HIDE DEF q
  <2>5. /\ entries' \in [Oid -> Entry \cup {Absent}]
        /\ OnePlacementPerTier'
        /\ entries'[o].payload = entries[o].payload
        /\ entries'[o].placements = q
        /\ \A p \in Oid : p # o => entries'[p] = entries[p]
    BY ZenonT(40), <2>1, <2>3, <2>4, DurableSet DEF IInv, Shape
  <2>6. \A p \in Oid : Has(p, Host)' =>
           Has(p, Host) /\ entries'[p].payload = entries[p].payload
    BY SMTT(30), <2>1, <2>3, <2>5 DEF Has
  <2>7. SectionInv' /\ section' \in Section \cup {Absent}
    BY <1>NoSection DEF PromotePersistent, Idle
  <2>8. manifest' \in [Oid -> Manifest \cup {Absent}]
    BY SMTT(30), <2>1, <1>WriteManifestType DEF PromotePersistent
  <2> QED
    BY SMTT(30), <2>5, <2>6, <2>7, <2>8, <1>EntryStep DEF PromotePersistent, IInv, Shape, TypeOK
\* persist, also of an object that is in the persistent tier already, preserves
\* the invariant.
<1>PersistStep. ASSUME IInv, NEW t \in Thread, NEW o \in Oid, Persist(t, o)
                PROVE  IInv'
  <2> USE <1>PersistStep
  <2>1. CASE PromotePersistent(t, o, TRUE)
    BY ZenonT(40), <2>1, <1>PromotePersistentStep
  <2>2. CASE /\ Idle(t) /\ Has(o, Persistent)
             /\ entries' = [entries EXCEPT ![o].durable = TRUE]
             /\ UNCHANGED <<arena, used, allocated, objectCount, blockSize, manifest,
                            pending, section>>
    <3> DEFINE r == [entries[o] EXCEPT !.durable = TRUE]
    <3>1. entries[o] # Absent /\ entries[o] \in Entry /\ IsInjective(entries[o].placements)
      BY SMTT(30), <2>2, EntryFacts DEF Has, IInv, Shape
    <3>2. entries' = [entries EXCEPT ![o] = r]
      BY SMTT(30), <2>2 DEF IInv, Shape, TypeOK
    <3>3. /\ r \in Entry /\ r.placements = entries[o].placements
          /\ r.payload = entries[o].payload
      BY Zenon, <3>1 DEF Entry
    <3> HIDE DEF r
    <3>4. IsInjective(r.placements)
      BY <3>1, <3>3
    <3>5. entries' \in [Oid -> Entry \cup {Absent}] /\ OnePlacementPerTier'
      BY ZenonT(40), <3>2, <3>3, <3>4, EntrySet DEF IInv, Shape
    <3>6. entries'[o] = r /\ \A p \in Oid : p # o => entries'[p] = entries[p]
      BY SMTT(30), <3>2 DEF IInv, Shape, TypeOK
    <3>7. \A p \in Oid : Has(p, Host)' =>
             Has(p, Host) /\ entries'[p].payload = entries[p].payload
      BY SMTT(30), <3>1, <3>3, <3>6 DEF Has
    <3>8. SectionInv' /\ section' \in Section \cup {Absent}
      BY SMTT(30), <2>2, <1>NoSection DEF Idle
    <3> QED BY SMTT(30), <2>2, <3>5, <3>7, <3>8, <1>EntryStep DEF IInv, Shape, TypeOK
  <2> QED
    BY Zenon, <2>1, <2>2 DEF Persist
\* demote from the host tier preserves the invariant.
<1>DemoteHostStep. ASSUME IInv, NEW t \in Thread, NEW o \in Oid, DemoteHost(t, o)
                   PROVE  IInv'
  <2> USE <1>DemoteHostStep
  <2>0. /\ Has(o, Host) /\ entries[o] # Absent
        /\ Host \in Tier /\ Persistent \in Tier /\ Persistent # Host
    BY SMTT(30) DEF DemoteHost, Has, Tier, Persistent, Host
  <2>1. /\ entries' \in [Oid -> Entry \cup {Absent}] /\ OnePlacementPerTier'
        /\ ~Has(o, Host)'
        /\ \A p \in Oid : p # o /\ Has(p, Host)' =>
              Has(p, Host) /\ entries'[p].payload = entries[p].payload
        /\ manifest' \in [Oid -> Manifest \cup {Absent}]
    <3>1. CASE /\ entries' = [entries EXCEPT ![o].placements = Without(@, Host)]
               /\ UNCHANGED manifest
      BY ZenonT(40), <2>0, <3>1, TierRemoved DEF IInv, Shape, TypeOK
    <3>2. CASE /\ ~Has(o, Persistent) /\ WriteManifest(o)
               /\ entries' = [entries EXCEPT ![o].placements =
                                Without(Pushed(o, Persistent), Host)]
      <4>1. manifest' \in [Oid -> Manifest \cup {Absent}]
        BY SMTT(30), <2>0, <3>2, <1>WriteManifestType
      <4>2. /\ entries' \in [Oid -> Entry \cup {Absent}]
            /\ OnePlacementPerTier'
            /\ \A p \in Oid : p # o => entries'[p] = entries[p]
            /\ ~Has(o, Host)'
        BY ZenonT(40), <2>0, <3>2, TierMoved
      <4> QED BY SMTT(30), <4>1, <4>2 DEF Has
    <3> QED BY SMTT(30), <3>1, <3>2 DEF DemoteHost
  <2>2. PICK n \in 0..Len(HostBlocks(entries[o].payload)), ok \in BOOLEAN :
           Release(entries[o].payload, n, ok)
    BY DEF DemoteHost
  <2>3. SectionInv' /\ section' \in Section \cup {Absent}
    BY SMTT(30), <1>NoSection DEF DemoteHost, Idle
  <2> QED
    BY SMTT(30), <2>0, <2>1, <2>2, <2>3, <1>ReleaseStep DEF DemoteHost
\* demote from an accelerator preserves the invariant.
<1>DemoteAcceleratorStep. ASSUME IInv, NEW t \in Thread, NEW o \in Oid, NEW b \in Backend,
                                 DemoteAccelerator(t, o, b)
                          PROVE  IInv'
  <2> USE <1>DemoteAcceleratorStep
  <2>0. /\ Has(o, b) /\ entries[o] # Absent
        /\ Host \in Tier /\ b \in Tier /\ b # Host
    BY RuntimeAssumption DEF DemoteAccelerator, Has, Tier
  <2>1. SectionInv' /\ section' \in Section \cup {Absent}
    BY SMTT(30), <1>NoSection DEF DemoteAccelerator, Idle
  <2>2. entries[o].payload \in Seq(Nat)
    BY SMTT(30), <2>0, EntryFacts, RuntimeAssumption DEF IInv, Shape
  <2>3. allocated' \in [Backend -> Int]
    BY SMTT(30), <2>2 DEF DemoteAccelerator, IInv, Shape, TypeOK
  <2>4. CASE /\ entries' = [entries EXCEPT ![o].placements = Without(@, b)]
             /\ UNCHANGED <<arena, used>>
    <3>1. /\ entries' \in [Oid -> Entry \cup {Absent}] /\ OnePlacementPerTier'
          /\ \A p \in Oid : Has(p, Host)' =>
                Has(p, Host) /\ entries'[p].payload = entries[p].payload
      BY ZenonT(40), <2>0, <2>4, TierRemoved
    <3> QED
      BY SMTT(30), <2>1, <2>3, <2>4, <3>1, <1>EntryStep DEF DemoteAccelerator, IInv, Shape, TypeOK
  <2>5. CASE /\ ~Has(o, Host)
             /\ Acquire(entries[o].payload, NewBytes(entries[o].payload))
             /\ entries' = [entries EXCEPT ![o].placements = Without(Pushed(o, Host), b)]
    <3>1. /\ entries' \in [Oid -> Entry \cup {Absent}] /\ OnePlacementPerTier'
          /\ entries'[o].payload = entries[o].payload
          /\ \A p \in Oid : p # o => entries'[p] = entries[p]
      BY ZenonT(40), <2>0, <2>5, TierMoved
    <3> QED
      BY SMTT(30), <2>0, <2>1, <2>3, <2>5, <3>1, <1>AcquireStep DEF DemoteAccelerator
  <2> QED
    BY SMTT(30), <2>4, <2>5 DEF DemoteAccelerator
\* Removing the host placement in a loop, with or without an underflow,
\* preserves the invariant.
<1>RemoveHostStep. ASSUME IInv, RemoveHost
                   PROVE  IInv'
  <2> USE <1>RemoveHostStep
  <2>0. PICK o \in Oid : o = section.oid
    BY SMTT(30), RemovingObject DEF RemoveHost
  <2>1. /\ section \in Section /\ section # Absent /\ section.todo # <<>>
        /\ o \in Oid /\ Has(o, Host) /\ Host \in Tier
        /\ entries' = [entries EXCEPT ![o].placements = Without(@, Host)]
    BY SMTT(30), <2>0, RemovingObject DEF RemoveHost, Tier
  <2>2. /\ entries' \in [Oid -> Entry \cup {Absent}] /\ OnePlacementPerTier'
        /\ Registered' = Registered /\ ~Has(o, Host)'
        /\ \A p \in Oid : Has(p, Host)' =>
              Has(p, Host) /\ entries'[p].payload = entries[p].payload
    BY ZenonT(40), <2>1, TierRemoved
  <2>3. PICK n \in 0..Len(HostBlocks(entries[o].payload)), ok \in BOOLEAN :
           /\ Release(entries[o].payload, n, ok)
           /\ NextTier \/ section' = Absent
    BY SMTT(30), <2>0 DEF RemoveHost
  <2>4. section' \in Section \cup {Absent} /\ SectionInv'
    <3>1. CASE NextTier
      BY SMTT(30), <2>1, <2>2, <3>1, <1>LoopKept DEF RemoveHost
    <3>2. CASE section' = Absent
      BY SMTT(30), <3>2 DEF SectionInv
    <3> QED BY SMTT(30), <2>3, <3>1, <3>2
  <2>5. /\ UNCHANGED <<allocated, objectCount, blockSize, pending>>
        /\ manifest' \in [Oid -> Manifest \cup {Absent}]
    BY SMTT(30) DEF RemoveHost, IInv, Shape, TypeOK
  <2> QED
    BY SMTT(30), <2>1, <2>2, <2>3, <2>4, <2>5, <1>ReleaseStep
\* Freeing a device buffer in a loop preserves the invariant.
<1>RemoveAcceleratorStep. ASSUME IInv, NEW b \in Backend, RemoveAccelerator(b)
                          PROVE  IInv'
  <2> USE <1>RemoveAcceleratorStep
  <2> DEFINE o == section.oid
  <2>1. /\ section \in Section /\ section # Absent /\ section.todo # <<>>
        /\ o \in Oid /\ Has(o, b) /\ b \in Tier /\ Host \in Tier
        /\ entries' = [entries EXCEPT ![o].placements = Without(@, b)]
    BY RemovingObject DEF RemoveAccelerator, Tier
  <2>2. /\ entries' \in [Oid -> Entry \cup {Absent}] /\ OnePlacementPerTier'
        /\ Registered' = Registered
        /\ \A p \in Oid : Has(p, Host)' =>
              Has(p, Host) /\ entries'[p].payload = entries[p].payload
    BY ZenonT(40), <2>1, TierRemoved
  <2>3. section' \in Section /\ SectionInv'
    BY SMTT(30), <2>1, <2>2, <1>LoopKept DEF RemoveAccelerator
  <2>4. entries[o].payload \in Seq(Nat)
    BY SMTT(30), <2>1, EntryFacts, RuntimeAssumption DEF IInv, Shape, Has
  <2>5. allocated' \in [Backend -> Int]
    BY SMTT(30), <2>4 DEF RemoveAccelerator, IInv, Shape, TypeOK
  <2> QED
    BY SMTT(30), <2>2, <2>3, <2>5, <1>EntryStep DEF RemoveAccelerator, IInv, Shape, TypeOK
\* Removing the persistent placement in delete's loop preserves the invariant.
<1>RemovePersistentStep. ASSUME IInv, RemovePersistent
                         PROVE  IInv'
  <2> USE <1>RemovePersistentStep
  <2> DEFINE o == section.oid
  <2>1. /\ section \in Section /\ section # Absent /\ section.todo # <<>>
        /\ o \in Oid /\ Has(o, Persistent) /\ Persistent \in Tier /\ Host \in Tier
        /\ entries' = [entries EXCEPT ![o].placements = Without(@, Persistent)]
    BY RemovingObject DEF RemovePersistent, Tier
  <2>2. /\ entries' \in [Oid -> Entry \cup {Absent}] /\ OnePlacementPerTier'
        /\ Registered' = Registered
        /\ \A p \in Oid : Has(p, Host)' =>
              Has(p, Host) /\ entries'[p].payload = entries[p].payload
    BY Zenon, <2>1, TierRemoved
  <2>3. section' \in Section /\ SectionInv'
    BY SMTT(30), <2>1, <2>2, <1>LoopKept DEF RemovePersistent
  <2>4. manifest' \in [Oid -> Manifest \cup {Absent}]
    BY Zenon DEF RemovePersistent, IInv, Shape, TypeOK
  <2> QED
    BY SMTT(30), <2>2, <2>3, <2>4, <1>EntryStep DEF RemovePersistent, IInv, Shape, TypeOK
\* Dropping the entry at the end of delete preserves the invariant.
<1>DeleteDoneStep. ASSUME IInv, DeleteDone
                   PROVE  IInv'
  <2> USE <1>DeleteDoneStep
  <2> USE DEF IInv, Shape
  <2>1. /\ section.oid \in Oid /\ section' = Absent
        /\ entries' = [entries EXCEPT ![section.oid] = Absent]
        /\ UNCHANGED <<arena, used, allocated, blockSize, pending>>
    BY SMTT(30) DEF DeleteDone, InLoop, TypeOK, Section
  <2>2. entries' \in [Oid -> Entry \cup {Absent}]
    BY SMTT(30), <2>1 DEF TypeOK
  <2>3. \A p \in Oid : entries'[p] = entries[p] \/ entries'[p] = Absent
    BY SMTT(30), <2>1 DEF TypeOK
  <2>4. OnePlacementPerTier'
    BY SMTT(30), <2>3 DEF OnePlacementPerTier, Registered
  <2>5. objectCount' \in Nat /\ manifest' \in [Oid -> Manifest \cup {Absent}]
    <3>1. objectCount \in Nat /\ manifest \in [Oid -> Manifest \cup {Absent}]
      BY SMTT(30) DEF TypeOK
    <3>2. objectCount' \in Nat
      BY ONLY <3>1, DeleteDone DEF DeleteDone
    <3>3. manifest' \in [Oid -> Manifest \cup {Absent}]
      BY ONLY Zenon, <3>1, DeleteDone DEF DeleteDone
    <3> QED BY SMTT(30), <3>2, <3>3
  <2>6. TypeOK'
    BY SMTT(30), <2>1, <2>2, <2>5 DEF TypeOK
  <2>7. SectionInv' /\ WithinBudget'
    BY SMTT(30), <2>1 DEF SectionInv, WithinBudget
  <2>8. ReferencesCover'
    BY SMTT(30), <2>1, <2>3, <2>6, <1>CoverKept DEF Has
  <2> QED
    BY SMTT(30), <2>4, <2>6, <2>7, <2>8
\* A restart, whatever block size the new process uses, starts from a state
\* that satisfies the invariant.
<1>RestartStep. ASSUME IInv, NEW s \in BlockSizes, Restart(s)
                PROVE  IInv'
  <2> USE <1>RestartStep
  <2> USE DEF IInv, Shape
  <2>1. \A o \in Oid : Recovered(manifest[o]) \in Entry \cup {Absent}
    <3> TAKE o \in Oid
    <3>1. manifest[o] \in Manifest \cup {Absent}
      BY DEF TypeOK
    <3>2. <<Persistent>> \in Seq(Tier)
      BY SMTT(30) DEF Tier
    <3> QED BY SMTT(30), <3>1, <3>2 DEF Recovered, Manifest, Entry
  <2>2. \A o \in Oid : entries'[o] = Absent \/ entries'[o].placements = <<Persistent>>
    BY SMTT(30) DEF Restart, Recovered
  <2>3. objectCount' \in Nat
    <3>1. IsFiniteSet({o \in Oid : manifest[o] # Absent})
      BY SMTT(30), RuntimeAssumption, FS_Subset
    <3> QED BY SMTT(30), <3>1, FS_CardinalityType DEF Restart
  <2>4. TypeOK'
    BY SMTT(30), <2>1, <2>3 DEF Restart, TypeOK
  <2>5. OnePlacementPerTier'
    <3>1. IsInjective(<<Persistent>>)
      BY SMTT(30) DEF IsInjective
    <3> QED BY SMTT(30), <2>2, <3>1 DEF OnePlacementPerTier, Registered
  <2>6. SectionInv' /\ WithinBudget'
    <3>1. section' = Absent /\ used' = 0
      BY SMTT(30) DEF Restart
    <3> QED BY SMTT(30), <3>1, RuntimeAssumption DEF SectionInv, WithinBudget
  <2>7. \A o \in Oid : ~Has(o, Host)'
    <3>1. Host \notin Range(<<Persistent>>)
      BY SMTT(30) DEF Range, Host, Persistent
    <3> QED BY SMTT(30), <2>2, <3>1 DEF Has
  <2>8. ReferencesCover'
    <3> SUFFICES ASSUME NEW h \in Block PROVE arena'[h] >= Cardinality(HostUses(h)')
      BY SMTT(30) DEF ReferencesCover
    <3>1. HostUses(h)' = {}
      BY <2>7 DEF HostUses
    <3> QED
      BY SMTT(30), <3>1, FS_EmptySet DEF Restart
  <2> QED
    BY SMTT(30), <2>4, <2>5, <2>6, <2>8
<1> SUFFICES ASSUME IInv, [Next]_vars PROVE IInv'
  OBVIOUS
<1>1. CASE UNCHANGED vars
  BY ZenonT(40), <1>1, <1>ControlStep DEF vars, IInv, Shape, TypeOK, SectionInv, Registered
<1>2. CASE HolderStep
  BY SMTT(30), <1>2, <1>ReclaimNextStep, <1>ReclaimDoneStep, <1>SkipPersistentStep, <1>RemoveHostStep,
     <1>RemoveAcceleratorStep, <1>RemovePersistentStep, <1>EvictDoneStep, <1>DeleteDoneStep
     DEF HolderStep
<1>3. ASSUME NEW t \in Thread, ThreadStep(t) PROVE IInv'
  <2>1. ASSUME NEW o \in Oid, PromotePersistent(t, o, entries[o].durable) PROVE IInv'
    <3>1. entries[o].durable \in BOOLEAN
      BY SMTT(30), <2>1 DEF PromotePersistent, Materializable, IInv, Shape, TypeOK, Entry
    <3> QED BY SMTT(30), <2>1, <3>1, <1>PromotePersistentStep
  <2> QED
    BY SMTT(30), <1>3, <2>1, <1>RegisterStep, <1>EvictToFreeStep, <1>RegisterRetryStep, <1>PromoteHostStep,
       <1>PromoteAcceleratorStep, <1>DemoteAcceleratorStep, <1>PersistStep, <1>DemoteHostStep,
       <1>BeginRemovalStep
       DEF ThreadStep
<1>4. ASSUME NEW s \in BlockSizes, Restart(s) PROVE IInv'
  BY <1>4, <1>RestartStep
<1> QED
  BY SMTT(30), <1>1, <1>2, <1>3, <1>4 DEF Next

\* The inductive invariant holds in every reachable state.
LEMMA Invariance == Spec => []IInv
BY InitInv, NextInv, PTL DEF Spec

-----------------------------------------------------------------------------
(* Theorems *)

\* Every variable keeps its type; in particular the host budget, an unsigned
\* counter in the code, never goes below zero, because sub_bytes refuses to.
THEOREM TypeCorrect == Spec => []TypeOK
<1>1. IInv => TypeOK
  BY DEF IInv, Shape
<1> QED
  BY <1>1, Invariance, PTL

\* BlockArena never frees a block some host placement still refers to, for any
\* number of threads, objects, payloads and block sizes.
THEOREM BlocksNotFreedEarly == Spec => []ReferencesCover
<1>1. IInv => ReferencesCover
  BY DEF IInv
<1> QED
  BY <1>1, Invariance, PTL

\* The committed bytes of the host budget never exceed its capacity.
THEOREM BudgetRespected == Spec => []WithinBudget
<1>1. IInv => WithinBudget
  BY SMTT(30) DEF IInv, Shape
<1> QED
  BY <1>1, Invariance, PTL


-----------------------------------------------------------------------------
(* Persistent placements and manifests *)

\* The manifest written names the object's payload.
LEMMA WrittenManifest ==
  ASSUME IInv, NEW o \in Oid, entries[o] # Absent, WriteManifest(o)
  PROVE  /\ manifest'[o] # Absent /\ manifest'[o].payload = entries[o].payload
         /\ \A p \in Oid : p # o => manifest'[p] = manifest[p]
<1> DEFINE m == [payload |-> entries[o].payload, chunked |-> blockSize]
<1>1. m \in Manifest /\ m.payload = entries[o].payload
  BY SMTT(30), EntryFacts DEF Manifest, IInv, Shape, TypeOK
<1>2. manifest' = [manifest EXCEPT ![o] = m]
  BY SMTT(30) DEF WriteManifest
<1> HIDE DEF m
<1>3. manifest'[o] = m /\ \A p \in Oid : p # o => manifest'[p] = manifest[p]
  BY <1>2 DEF IInv, Shape, TypeOK
<1> QED
  BY SMTT(30), <1>1, <1>3, AbsentAssumption

\* Every step keeps persistent placements backed by a manifest.
LEMMA NextCommitted ==
  ASSUME IInv, PersistentIsCommitted, [Next]_vars
  PROVE  PersistentIsCommitted'
\* The manifests stay and no object enters the persistent tier.
<1>CommittedKept. ASSUME PersistentIsCommitted, manifest' = manifest,
                         \A p \in Oid : Has(p, Persistent)' =>
                            Has(p, Persistent) /\ entries'[p].payload = entries[p].payload
                  PROVE  PersistentIsCommitted'
  BY SMTT(30), <1>CommittedKept DEF PersistentIsCommitted
\* The manifest of one object is written or removed.
<1>CommittedSet. ASSUME PersistentIsCommitted, NEW o \in Oid,
                        \A p \in Oid : p # o => entries'[p] = entries[p] /\ manifest'[p] = manifest[p],
                        Has(o, Persistent)' => manifest'[o] # Absent
                                                 /\ manifest'[o].payload = entries'[o].payload
                 PROVE  PersistentIsCommitted'
  BY SMTT(30), <1>CommittedSet DEF PersistentIsCommitted, Has
\* A new entry is in the host tier only.
<1>InsertCommitted. ASSUME IInv, PersistentIsCommitted, NEW o \in Oid, NEW c \in Content, NEW need,
                           Insert(o, c, need), manifest' = manifest
                    PROVE  PersistentIsCommitted'
  <2> USE <1>InsertCommitted
  <2>1. entries'[o].placements = <<Host>> /\ \A p \in Oid : p # o => entries'[p] = entries[p]
    BY DEF Insert, IInv, Shape, TypeOK
  <2>2. Persistent \notin Range(<<Host>>)
    BY SMTT(30) DEF Range, Host, Persistent
  <2> QED
    BY SMTT(30), <2>1, <2>2, <1>CommittedSet DEF Has
\* Every step of a client thread keeps persistent placements backed.
<1>ThreadCommitted. ASSUME IInv, PersistentIsCommitted, NEW t \in Thread, ThreadStep(t)
                    PROVE  PersistentIsCommitted'
  <2> USE <1>ThreadCommitted
  <2> USE DEF Idle
  <2>0. Persistent \in Tier /\ Host \in Tier /\ Persistent # Host
    BY DEF Tier, Persistent, Host
  <2>1. ASSUME NEW o \in Oid, NEW c \in Content, Register(t, o, c)
        PROVE  PersistentIsCommitted'
    BY Zenon, <2>1, <1>InsertCommitted, <1>CommittedKept DEF Register, Has
  <2>2. ASSUME EvictToFree(t) PROVE PersistentIsCommitted'
    BY SMTT(30), <2>2, <1>CommittedKept DEF EvictToFree, Has
  <2>3. ASSUME RegisterRetry(t) PROVE PersistentIsCommitted'
    <3>1. pending[t].oid \in Oid /\ pending[t].payload \in Content
      BY SMTT(30), <2>3 DEF RegisterRetry, IInv, Shape, TypeOK, Pending
    <3> QED BY ZenonT(40), <2>3, <3>1, <1>InsertCommitted, <1>CommittedKept DEF RegisterRetry, Has
  <2>4. ASSUME NEW o \in Oid, PromoteHost(t, o) PROVE PersistentIsCommitted'
    <3>1. \A p \in Oid, u \in Tier : Has(p, u)' /\ (p # o \/ u # Host) =>
             Has(p, u) /\ entries'[p].payload = entries[p].payload
      BY Zenon, <2>0, <2>4, TierAdded DEF PromoteHost, Materializable
    <3> QED BY SMTT(30), <2>0, <2>4, <3>1, <1>CommittedKept DEF PromoteHost
  <2>5. ASSUME NEW o \in Oid, NEW b \in Backend, PromoteAccelerator(t, o, b)
        PROVE  PersistentIsCommitted'
    <3>1. b \in Tier /\ b # Persistent
      BY RuntimeAssumption DEF Tier
    <3>2. \A p \in Oid, u \in Tier : Has(p, u)' /\ (p # o \/ u # b) =>
             Has(p, u) /\ entries'[p].payload = entries[p].payload
      BY Zenon, <3>1, <2>5, TierAdded DEF PromoteAccelerator, Materializable
    <3> QED BY SMTT(30), <2>0, <2>5, <3>1, <3>2, <1>CommittedKept DEF PromoteAccelerator
  <2>6. ASSUME NEW o \in Oid, NEW b \in Backend, DemoteAccelerator(t, o, b)
        PROVE  PersistentIsCommitted'
    <3>1. b \in Tier
      BY DEF Tier
    <3>2. \A p \in Oid, u \in Tier : Has(p, u)' /\ u # Host =>
             Has(p, u) /\ entries'[p].payload = entries[p].payload
      <4>1. CASE entries' = [entries EXCEPT ![o].placements = Without(@, b)]
        BY ZenonT(40), <2>6, <3>1, <4>1, TierRemoved DEF DemoteAccelerator
      <4>2. CASE /\ ~Has(o, Host)
                 /\ entries' = [entries EXCEPT ![o].placements = Without(Pushed(o, Host), b)]
        <5>1. /\ entries'[o].payload = entries[o].payload
              /\ \A p \in Oid : p # o => entries'[p] = entries[p]
              /\ \A v \in Tier : Has(o, v)' /\ v # Host => Has(o, v)
          BY Zenon, <2>0, <2>6, <3>1, <4>2, TierMoved DEF DemoteAccelerator
        <5> QED BY <5>1 DEF Has
      <4> QED BY SMTT(30), <2>6, <4>1, <4>2 DEF DemoteAccelerator
    <3> QED BY SMTT(30), <2>0, <2>6, <3>2, <1>CommittedKept DEF DemoteAccelerator
  <2>7. ASSUME NEW o \in Oid, NEW d, PromotePersistent(t, o, d)
        PROVE  PersistentIsCommitted'
    <3>1. entries[o] # Absent /\ entries[o] \in Entry
      BY <2>7, EntryFacts DEF PromotePersistent, Materializable, IInv, Shape
    <3>2. /\ entries'[o].payload = entries[o].payload
          /\ \A p \in Oid : p # o => entries'[p] = entries[p]
      BY <2>7, <3>1 DEF PromotePersistent, IInv, Shape, TypeOK, Entry
    <3> QED BY ZenonT(40), <2>7, <3>1, <3>2, WrittenManifest, <1>CommittedSet DEF PromotePersistent
  <2>8. ASSUME NEW o \in Oid, Persist(t, o) PROVE PersistentIsCommitted'
    <3>1. CASE PromotePersistent(t, o, TRUE)
      BY Zenon, <2>7, <3>1
    <3>2. CASE /\ Has(o, Persistent) /\ manifest' = manifest
               /\ entries' = [entries EXCEPT ![o].durable = TRUE]
      <4>1. entries[o] # Absent /\ entries[o] \in Entry
        BY <3>2, EntryFacts DEF Has, IInv, Shape
      <4>2. /\ entries'[o].payload = entries[o].payload
            /\ \A p \in Oid : p # o => entries'[p] = entries[p]
        BY <3>2, <4>1 DEF IInv, Shape, TypeOK, Entry
      <4> QED BY SMTT(30), <3>2, <4>1, <4>2, <1>CommittedKept DEF Has
    <3> QED BY Zenon, <2>8, <3>1, <3>2 DEF Persist
  <2>9. ASSUME NEW o \in Oid, DemoteHost(t, o) PROVE PersistentIsCommitted'
    <3>1. CASE entries' = [entries EXCEPT ![o].placements = Without(@, Host)] /\ UNCHANGED manifest
      <4>1. \A p \in Oid, u \in Tier : Has(p, u)' =>
               Has(p, u) /\ entries'[p].payload = entries[p].payload
        BY Zenon, <2>0, <2>9, <3>1, TierRemoved DEF DemoteHost
      <4> QED BY <2>0, <3>1, <4>1, <1>CommittedKept
    <3>2. CASE /\ ~Has(o, Persistent) /\ WriteManifest(o)
               /\ entries' = [entries EXCEPT ![o].placements =
                                Without(Pushed(o, Persistent), Host)]
      <4>1. /\ entries'[o].payload = entries[o].payload
            /\ \A p \in Oid : p # o => entries'[p] = entries[p]
        BY SMTT(30), <2>0, <2>9, <3>2, TierMoved DEF DemoteHost
      <4>2. entries[o] # Absent
        BY SMTT(30), <2>9 DEF DemoteHost, Has
      <4> QED BY SMTT(30), <3>2, <4>1, <4>2, WrittenManifest, <1>CommittedSet
    <3> QED BY <2>9, <3>1, <3>2 DEF DemoteHost
  <2>10. ASSUME NEW o \in Oid, Evict(t, o) \/ Delete(t, o) PROVE PersistentIsCommitted'
    BY <2>10, <1>CommittedKept DEF Evict, Delete, Has
  <2> QED
    BY SMTT(30), <2>1, <2>2, <2>3, <2>4, <2>5, <2>6, <2>7, <2>8, <2>9, <2>10 DEF ThreadStep
\* Every step of a removal loop keeps persistent placements backed.
<1>HolderCommitted. ASSUME IInv, PersistentIsCommitted, HolderStep
                    PROVE  PersistentIsCommitted'
  <2> USE <1>HolderCommitted
  <2>0. Persistent \in Tier /\ Host \in Tier /\ Persistent # Host
    BY DEF Tier, Persistent, Host
  <2>1. ASSUME NEW o \in Oid, ReclaimNext(o) PROVE PersistentIsCommitted'
    BY <2>1, <1>CommittedKept DEF ReclaimNext, Has
  <2>2. ASSUME ReclaimDone \/ SkipPersistent \/ EvictDone PROVE PersistentIsCommitted'
    BY <2>2, <1>CommittedKept DEF ReclaimDone, SkipPersistent, EvictDone, Has
  <2>3. ASSUME NEW u \in Tier, Removing(u), Has(section.oid, u),
               entries' = [entries EXCEPT ![section.oid].placements = Without(@, u)]
        PROVE  \A p \in Oid : Has(p, Persistent)' =>
                  Has(p, Persistent) /\ entries'[p].payload = entries[p].payload
    <3>1. section.oid \in Oid
      BY <2>3, RemovingObject
    <3> QED BY Zenon, <2>0, <2>3, <3>1, TierRemoved
  <2>4. ASSUME RemoveHost PROVE PersistentIsCommitted'
    BY Zenon, <2>0, <2>3, <2>4, <1>CommittedKept DEF RemoveHost
  <2>5. ASSUME NEW b \in Backend, RemoveAccelerator(b) PROVE PersistentIsCommitted'
    <3>1. b \in Tier
      BY SMTT(30) DEF Tier
    <3> QED BY Zenon, <2>3, <2>5, <3>1, <1>CommittedKept DEF RemoveAccelerator
  <2>6. ASSUME RemovePersistent PROVE PersistentIsCommitted'
    <3>1. PICK o \in Oid : o = section.oid
      BY SMTT(30), <2>6, RemovingObject DEF RemovePersistent
    <3>2. /\ Has(o, Persistent)
          /\ entries' = [entries EXCEPT ![o].placements = Without(@, Persistent)]
          /\ manifest' = [manifest EXCEPT ![o] = Absent]
      BY <2>6, <3>1 DEF RemovePersistent
    <3>3. ~Has(o, Persistent)'
      BY Zenon, <2>0, <3>2, TierRemoved
    <3>4. \A p \in Oid : p # o => entries'[p] = entries[p] /\ manifest'[p] = manifest[p]
      BY SMTT(30), <3>2 DEF IInv, Shape, TypeOK
    <3> QED BY SMTT(30), <3>3, <3>4, <1>CommittedSet
  <2>7. ASSUME DeleteDone PROVE PersistentIsCommitted'
    <3>1. PICK o \in Oid : o = section.oid
      BY SMTT(30), <2>7 DEF DeleteDone, InLoop, IInv, Shape, TypeOK, Section
    <3>2. entries' = [entries EXCEPT ![o] = Absent] /\ manifest' = [manifest EXCEPT ![o] = Absent]
      BY SMTT(30), <2>7, <3>1 DEF DeleteDone
    <3>3. /\ entries'[o] = Absent
          /\ \A p \in Oid : p # o => entries'[p] = entries[p] /\ manifest'[p] = manifest[p]
      BY <3>2 DEF IInv, Shape, TypeOK
    <3> QED BY SMTT(30), <3>3, <1>CommittedSet DEF Has
  <2> QED
    BY SMTT(30), <2>1, <2>2, <2>4, <2>5, <2>6, <2>7 DEF HolderStep
<1>1. CASE UNCHANGED vars
  BY SMTT(30), <1>1, <1>CommittedKept DEF vars, Has
<1>2. ASSUME NEW s \in BlockSizes, Restart(s) PROVE PersistentIsCommitted'
  <2> SUFFICES ASSUME NEW o \in Oid, Has(o, Persistent)'
               PROVE  /\ manifest'[o] # Absent
                      /\ manifest'[o].payload = entries'[o].payload
    BY SMTT(30) DEF PersistentIsCommitted
  <2>1. entries'[o] = Recovered(manifest[o]) /\ entries'[o] # Absent /\ manifest' = manifest
    BY SMTT(30), <1>2 DEF Restart, Has
  <2> QED BY SMTT(30), <2>1 DEF Recovered
<1> QED
  BY SMTT(30), <1>1, <1>2, <1>ThreadCommitted, <1>HolderCommitted DEF Next

-----------------------------------------------------------------------------
(* Reclaiming space and durable objects *)

\* evict_to_free collects only objects that are not durable, and while it holds
\* the mutex none of them becomes durable.
ReclaimInv ==
  section # Absent /\ section.op = "reclaim" =>
    /\ \A o \in section.victims : ~entries[o].durable
    /\ section.todo # <<>> => ~entries[section.oid].durable

-----------------------------------------------------------------------------
(* Copies that can be read *)

\* A block that a host placement refers to is in the arena.
LEMMA HeldBlock ==
  ASSUME IInv, NEW o \in Oid, Has(o, Host), NEW i \in DOMAIN HostBlocks(entries[o].payload)
  PROVE  arena[HostBlocks(entries[o].payload)[i]] > 0
<1> DEFINE h == HostBlocks(entries[o].payload)[i]
<1>1. h \in Block
  BY SMTT(30), ChunkType, EntryFacts DEF HostBlocks, Has, IInv, Shape, TypeOK
<1>2. <<o, i>> \in HostUses(h)
  BY SMTT(30) DEF HostUses
<1>3. IsFiniteSet(HostUses(h))
  BY UsesFinite, HostUsesIs DEF IInv, Shape, TypeOK, EntryMap
<1> HIDE DEF h
<1>4. Cardinality(HostUses(h)) \in Nat /\ Cardinality(HostUses(h)) # 0
  BY SMTT(30), <1>2, <1>3, FS_CardinalityType, FS_EmptySet
<1>5. arena[h] \in Nat /\ arena[h] >= Cardinality(HostUses(h))
  BY <1>1 DEF IInv, Shape, TypeOK, ReferencesCover
<1>6. arena[h] > 0
  BY SMTT(30), <1>4, <1>5
<1> QED
  BY SMTT(30), <1>6 DEF h

\* An object that is resident anywhere, and was cut with the block size of the
\* running process, can be read.
LEMMA ResidentReadable ==
  ASSUME IInv, NEW o \in Oid, entries[o] # Absent, entries[o].placements # <<>>,
         entries[o].chunked = blockSize
  PROVE  Materializable(o)
<1>1. ASSUME Has(o, Host),
             NEW i \in DOMAIN Chunk(entries[o].payload, entries[o].chunked)
      PROVE  arena[Chunk(entries[o].payload, entries[o].chunked)[i]] > 0
  BY SMTT(30), <1>1, HeldBlock DEF HostBlocks
<1> QED
  BY SMTT(30), <1>1 DEF Materializable

\* A list that holds some tier is not empty.
LEMMA NotEmpty ==
  ASSUME NEW p, NEW u \in Range(p)
  PROVE  p # <<>>
BY DEF Range

-----------------------------------------------------------------------------
(* Theorems *)

\* A placement in the persistent tier always has a manifest of the object's own
\* payload behind it: recovery can never lose or exchange a committed object.
THEOREM PersistentBacked == Spec => []PersistentIsCommitted
<1>1. Init => PersistentIsCommitted
  BY DEF Init, PersistentIsCommitted, Has
<1>2. IInv /\ PersistentIsCommitted /\ [Next]_vars => PersistentIsCommitted'
  BY NextCommitted
<1> QED
  BY <1>1, <1>2, Invariance, PTL DEF Spec

\* Making room for a registration (evict_to_free) never changes the entry of a
\* durable object.
THEOREM DurableKeptOnReclaim == Spec => DurableNotReclaimed
\* Taking a tier out of an entry leaves its durable flag alone.
<1>DurableKept. ASSUME IInv, NEW u, Removing(u), Has(section.oid, u),
                       entries' = [entries EXCEPT ![section.oid].placements = Without(@, u)]
                PROVE  /\ \A p \in Oid : entries'[p].durable = entries[p].durable
                       /\ \A p \in Oid : p # section.oid => entries'[p] = entries[p]
  <2> USE <1>DurableKept
  <2>1. section.oid \in Oid /\ entries[section.oid] \in Entry
    BY SMTT(30), RemovingObject, EntryFacts DEF Has, IInv, Shape
  <2> QED
    BY <2>1 DEF IInv, Shape, TypeOK, Entry
\* One tier further, with the same victims and the same object.
<1>ReclaimNextTier. ASSUME IInv, ReclaimInv, NEW u, Removing(u), NextTier,
                           \A p \in Oid : entries'[p].durable = entries[p].durable
                    PROVE  ReclaimInv'
  <2> USE <1>ReclaimNextTier
  <2>1. section \in Section
    BY RemovingObject
  <2>2. /\ section'.victims = section.victims /\ section'.op = section.op
        /\ section'.oid = section.oid /\ section.oid \in Oid /\ section.victims \subseteq Oid
    BY <2>1 DEF NextTier, Section
  <2> QED
    BY SMTT(30), <2>2 DEF ReclaimInv, Removing
\* Every step keeps the victims of evict_to_free non-durable.
<1>NextReclaim. ASSUME IInv, ReclaimInv, [Next]_vars
                PROVE  ReclaimInv'
  <2> USE <1>NextReclaim
  <2>1. CASE UNCHANGED vars
    BY SMTT(30), <2>1 DEF vars, ReclaimInv
  <2>2. ASSUME NEW o \in Oid, ReclaimNext(o) PROVE ReclaimInv'
    <3>1. section \in Section /\ section # Absent /\ section.op = "reclaim"
      BY <2>2 DEF ReclaimNext, InLoop, IInv, Shape, TypeOK
    <3>2. /\ section'.victims = section.victims \ {o} /\ section'.oid = o
          /\ o \in section.victims /\ entries' = entries
      BY <2>2, <3>1 DEF ReclaimNext, Section
    <3> QED BY <3>1, <3>2 DEF ReclaimInv
  <2>3. ASSUME ReclaimDone \/ EvictDone \/ DeleteDone PROVE ReclaimInv'
    BY <2>3 DEF ReclaimDone, EvictDone, DeleteDone, ReclaimInv
  <2>4. ASSUME SkipPersistent PROVE ReclaimInv'
    BY <2>4, <1>ReclaimNextTier DEF SkipPersistent
  <2>5. ASSUME RemoveHost PROVE ReclaimInv'
    <3>1. Removing(Host) /\ \A p \in Oid : entries'[p].durable = entries[p].durable
      BY <2>5, <1>DurableKept DEF RemoveHost
    <3>2. NextTier \/ section' = Absent
      BY SMTT(30), <2>5 DEF RemoveHost
    <3>3. CASE NextTier
      BY SMTT(30), <3>1, <3>3, <1>ReclaimNextTier
    <3>4. CASE section' = Absent
      BY <3>4 DEF ReclaimInv
    <3> QED BY SMTT(30), <3>2, <3>3, <3>4
  <2>6. ASSUME NEW b \in Backend, RemoveAccelerator(b) PROVE ReclaimInv'
    BY <2>6, <1>DurableKept, <1>ReclaimNextTier DEF RemoveAccelerator
  <2>7. ASSUME RemovePersistent PROVE ReclaimInv'
    BY <2>7, <1>DurableKept, <1>ReclaimNextTier DEF RemovePersistent
  <2>8. ASSUME NEW t \in Thread, EvictToFree(t) PROVE ReclaimInv'
    <3>1. CASE section' = section
      BY <2>8, <3>1 DEF EvictToFree, ReclaimInv
    <3>2. CASE section' = [op |-> "reclaim", thread |-> t, oid |-> pending[t].oid,
                           todo |-> <<>>,
                           victims |-> {o \in Oid : Has(o, Host) /\ ~entries[o].durable}]
      BY SMTT(30), <2>8, <3>2 DEF EvictToFree, ReclaimInv
    <3> QED BY SMTT(30), <2>8, <3>1, <3>2 DEF EvictToFree
  <2>9. ASSUME NEW t \in Thread, NEW o \in Oid, Evict(t, o) \/ Delete(t, o)
        PROVE  ReclaimInv'
    BY <2>9 DEF Evict, Delete, ReclaimInv
  <2>10. ASSUME section' = Absent PROVE ReclaimInv'
    BY <2>10 DEF ReclaimInv
  <2>11. ASSUME NEW t \in Thread, ThreadStep(t) PROVE ReclaimInv'
    BY ZenonT(40), <2>8, <2>9, <2>10, <2>11 DEF ThreadStep, Register, RegisterRetry, PromoteHost,
       PromoteAccelerator, DemoteAccelerator, PromotePersistent, Persist, DemoteHost, Idle
  <2>12. CASE HolderStep
    BY SMTT(30), <2>2, <2>3, <2>4, <2>5, <2>6, <2>7, <2>12 DEF HolderStep
  <2> QED
    BY ZenonT(40), <2>1, <2>10, <2>11, <2>12 DEF Next, Restart
\* While evict_to_free holds the mutex, the entry of a durable object stands.
<1>DurableStands. ASSUME IInv, ReclaimInv, [Next]_vars, section # Absent, section.op = "reclaim",
                         section' # Absent, NEW o \in Oid, entries[o] # Absent, entries[o].durable
                  PROVE  entries'[o] = entries[o]
  <2> USE <1>DurableStands
  <2>1. ASSUME NEW u, Removing(u), Has(section.oid, u),
               entries' = [entries EXCEPT ![section.oid].placements = Without(@, u)]
        PROVE  entries'[o] = entries[o]
    <3>1. o # section.oid
      BY <2>1 DEF ReclaimInv, Removing
    <3> QED BY <2>1, <3>1, <1>DurableKept
  <2>2. CASE HolderStep
    <3>1. CASE RemoveHost
      BY Zenon, <2>1, <3>1 DEF RemoveHost
    <3>2. ASSUME NEW b \in Backend, RemoveAccelerator(b) PROVE entries'[o] = entries[o]
      BY ZenonT(30), <2>1, <3>2 DEF RemoveAccelerator
    <3>3. CASE RemovePersistent
      BY <2>1, <3>3 DEF RemovePersistent
    <3> QED
      BY Zenon, <2>2, <3>1, <3>2, <3>3 DEF HolderStep, ReclaimNext, ReclaimDone, SkipPersistent,
         EvictDone, DeleteDone
  <2>3. ASSUME NEW t \in Thread, ThreadStep(t) PROVE FALSE
    BY ZenonT(40), <2>3 DEF ThreadStep, Register, EvictToFree, RegisterRetry, PromoteHost,
       PromoteAccelerator, DemoteAccelerator, PromotePersistent, Persist, DemoteHost,
       Evict, Delete, Idle
  <2> QED
    BY Zenon, <2>2, <2>3 DEF Next, Restart, vars
<1>1. Init => ReclaimInv
  BY DEF Init, ReclaimInv
<1>2. IInv /\ ReclaimInv /\ [Next]_vars => ReclaimInv'
  BY <1>NextReclaim
<1>3. IInv /\ ReclaimInv /\ [Next]_vars =>
        [\A o \in Oid :
           section # Absent /\ section.op = "reclaim" /\ section' # Absent
             /\ entries[o] # Absent /\ entries[o].durable
           => entries'[o] = entries[o]]_vars
  BY <1>DurableStands
<1> QED
  BY <1>1, <1>2, <1>3, Invariance, PTL DEF Spec, DurableNotReclaimed

\* materialize_payload succeeds on every object that is resident anywhere and
\* whose entry was cut with the running process's block size.
THEOREM ResidentReads ==
  Spec => [](\A o \in Oid :
               entries[o] # Absent /\ entries[o].placements # <<>>
               /\ entries[o].chunked = blockSize => Materializable(o))
<1>1. IInv => \A o \in Oid :
                entries[o] # Absent /\ entries[o].placements # <<>>
                /\ entries[o].chunked = blockSize => Materializable(o)
  BY ResidentReadable
<1> QED
  BY <1>1, Invariance, PTL

\* materialize_payload succeeds on every object with a durable copy, whatever
\* other placements it has, as long as restarts keep the configured block size:
\* a host copy that is listed has all its blocks in the arena.
THEOREM DurableReads ==
  ASSUME \A s, u \in BlockSizes : s = u
  PROVE  Spec => []DurableReadable
<1>1. IInv => DurableReadable
  <2> SUFFICES ASSUME IInv, NEW o \in Oid, Has(o, Persistent) PROVE Materializable(o)
    BY DEF DurableReadable
  <2>1. entries[o] # Absent /\ entries[o].placements # <<>>
    BY SMTT(30), NotEmpty DEF Has
  <2>2. entries[o].chunked = blockSize
    BY <2>1, EntryFacts DEF IInv, Shape, TypeOK, Entry
  <2> QED BY <2>1, <2>2, ResidentReadable
<1> QED
  BY <1>1, Invariance, PTL

\* Outside evict, delete and evict_to_free no step takes the last copy of an
\* object: demote removes its source only from an entry that has the copy below.
THEOREM LastCopyStays == Spec => LastCopyKept
\* Only one entry changes, and it keeps a placement.
<1>OneKeepsCopy. ASSUME NEW o \in Oid, NEW u, Has(o, u)',
                        \A p \in Oid : p # o => entries'[p] = entries[p],
                        NEW q \in Oid, entries[q].placements # <<>>
                 PROVE  entries'[q].placements # <<>>
  <2> USE <1>OneKeepsCopy
  <2>1. CASE q = o
    BY SMTT(30), <2>1, NotEmpty DEF Has
  <2>2. CASE q # o
    BY <2>2
  <2> QED BY SMTT(30), <2>1, <2>2
\* A tier other than the one taken out stays.
<1>OthersStay. ASSUME IInv, NEW o \in Oid, NEW t \in Tier, Has(o, t), NEW u \in Tier, Has(o, u), u # t,
                      entries' = [entries EXCEPT ![o].placements = Without(@, t)]
               PROVE  Has(o, u)' /\ \A p \in Oid : p # o => entries'[p] = entries[p]
  <2> USE <1>OthersStay
  <2> DEFINE p0 == entries[o].placements
             q == Without(p0, t)
  <2>1. entries[o] # Absent /\ t \in Range(p0) /\ u \in Range(p0)
    BY DEF Has
  <2>2. p0 \in Seq(Tier) /\ IsInjective(p0)
    BY <2>1, EntryFacts DEF IInv, Shape
  <2>3. q \in Seq(Tier) /\ IsInjective(q) /\ Range(q) = Range(p0) \ {t}
    BY <2>1, <2>2, WithoutTier
  <2>4. entries' = [entries EXCEPT ![o].placements = q]
    OBVIOUS
  <2> HIDE DEF q
  <2>5. /\ entries'[o] # Absent
        /\ entries'[o].placements = q
        /\ \A p \in Oid : p # o => entries'[p] = entries[p]
    BY Zenon, <2>1, <2>3, <2>4, PlacementsSet DEF IInv, Shape
  <2> QED
    BY <2>1, <2>3, <2>5 DEF Has
\* The tier copied to is there after the source is taken out.
<1>CopyArrives. ASSUME IInv, NEW o \in Oid, NEW t \in Tier, NEW u \in Tier, Has(o, u), ~Has(o, t),
                       entries' = [entries EXCEPT ![o].placements = Without(Pushed(o, t), u)]
                PROVE  Has(o, t)' /\ \A p \in Oid : p # o => entries'[p] = entries[p]
  <2> USE <1>CopyArrives
  <2> DEFINE p0 == entries[o].placements
             q == Without(Append(p0, t), u)
  <2>1. /\ p0 \in Seq(Tier) /\ IsInjective(p0) /\ t \notin Range(p0) /\ u \in Range(p0)
        /\ entries[o] # Absent
    BY EntryFacts DEF IInv, Shape, Has
  <2>2. q \in Seq(Tier) /\ IsInjective(q) /\ Range(q) = (Range(p0) \cup {t}) \ {u}
    BY <2>1, MovedTier
  <2>3. entries' = [entries EXCEPT ![o].placements = q]
    BY DEF Pushed
  <2> HIDE DEF q
  <2>4. /\ entries'[o] # Absent
        /\ entries'[o].placements = q
        /\ \A p \in Oid : p # o => entries'[p] = entries[p]
    BY Zenon, <2>1, <2>2, <2>3, PlacementsSet DEF IInv, Shape
  <2> QED
    BY SMTT(30), <2>1, <2>2, <2>4 DEF Has
\* A tier pushed is there.
<1>PushArrives. ASSUME IInv, NEW o \in Oid, NEW t \in Tier, entries[o] # Absent, NEW r,
                       entries' = [entries EXCEPT ![o] = r], r \in Entry, r.placements = Pushed(o, t)
                PROVE  Has(o, t)' /\ \A p \in Oid : p # o => entries'[p] = entries[p]
  <2> USE <1>PushArrives
  <2>1. entries'[o] = r /\ \A p \in Oid : p # o => entries'[p] = entries[p]
    BY DEF IInv, Shape, TypeOK
  <2>2. entries[o].placements \in Seq(Tier)
    BY SMTT(30), EntryFacts DEF IInv, Shape
  <2>3. t \in Range(Append(entries[o].placements, t))
    <3> DEFINE p == entries[o].placements
               q == Append(p, t)
    <3>1. Len(p) + 1 \in DOMAIN q /\ q[Len(p) + 1] = t
      BY <2>2
    <3> QED BY <3>1 DEF Range
  <2> QED
    BY Zenon, <2>1, <2>3, AbsentAssumption DEF Has, Pushed
\* Outside the removal loops a step leaves a resident object a copy.
<1>CopyStays. ASSUME IInv, [Next]_vars, section = Absent, NEW q \in Oid, entries[q] # Absent,
                     entries[q].placements # <<>>, entries'[q] # Absent
              PROVE  entries'[q].placements # <<>>
  <2> USE <1>CopyStays
  <2> DEFINE Goal == entries'[q].placements # <<>>
  <2>0. Persistent \in Tier /\ Host \in Tier /\ Persistent # Host
    BY DEF Tier, Persistent, Host
  <2>1. ASSUME entries' = entries PROVE Goal
    BY SMTT(30), <2>1
  <2>2. ASSUME NEW s \in BlockSizes, Restart(s) PROVE Goal
    <3>1. entries'[q] = Recovered(manifest[q])
      BY <2>2 DEF Restart
    <3> QED BY SMTT(30), <3>1 DEF Recovered
  <2>3. ASSUME NEW o \in Oid, NEW c \in Content, NEW need, Insert(o, c, need) PROVE Goal
    <3>1. entries'[o].placements = <<Host>> /\ \A p \in Oid : p # o => entries'[p] = entries[p]
      BY SMTT(30), <2>3 DEF Insert, IInv, Shape, TypeOK
    <3>2. <<Host>> # <<>>
      BY SMTT(30)
    <3> QED BY ZenonT(40), <3>1, <3>2
  <2>4. ASSUME NEW o \in Oid, NEW t \in Tier, entries[o] # Absent,
               entries' = [entries EXCEPT ![o].placements = Pushed(o, t)]
        PROVE  Goal
    <3> DEFINE r == [entries[o] EXCEPT !.placements = Pushed(o, t)]
    <3>1. entries[o] \in Entry /\ Pushed(o, t) \in Seq(Tier)
      BY <2>4, EntryFacts DEF Pushed, IInv, Shape
    <3>2. r \in Entry /\ r.placements = Pushed(o, t)
      BY <3>1 DEF Entry
    <3>3. entries' = [entries EXCEPT ![o] = r]
      BY <2>4
    <3> HIDE DEF r
    <3>4. Has(o, t)' /\ \A p \in Oid : p # o => entries'[p] = entries[p]
      <4>1. entries[o] # Absent
        BY Zenon, <2>4
      <4> QED BY Zenon, <3>2, <3>3, <4>1, <1>PushArrives
    <3> QED BY <3>4, <1>OneKeepsCopy
  <2>5. ASSUME NEW t \in Thread, NEW o \in Oid, NEW d \in BOOLEAN, PromotePersistent(t, o, d)
        PROVE  Goal
    <3> DEFINE r == [entries[o] EXCEPT !.placements = Pushed(o, Persistent), !.durable = d]
    <3>1. entries[o] \in Entry /\ entries[o] # Absent /\ Pushed(o, Persistent) \in Seq(Tier)
      BY <2>0, <2>5, EntryFacts DEF PromotePersistent, Materializable, Pushed, IInv, Shape
    <3>2. r \in Entry /\ r.placements = Pushed(o, Persistent)
      BY Zenon, <3>1 DEF Entry
    <3>3. entries' = [entries EXCEPT ![o] = r]
      BY Zenon, <2>5 DEF PromotePersistent, IInv, Shape, TypeOK
    <3> HIDE DEF r
    <3>4. Has(o, Persistent)' /\ \A p \in Oid : p # o => entries'[p] = entries[p]
      BY Zenon, <2>0, <3>1, <3>2, <3>3, <1>PushArrives
    <3> QED BY SMTT(30), <3>4, <1>OneKeepsCopy
  <2>6. ASSUME NEW t \in Thread, NEW o \in Oid, Persist(t, o) PROVE Goal
    <3>1. CASE PromotePersistent(t, o, TRUE)
      BY Zenon, <2>5, <3>1
    <3>2. CASE Has(o, Persistent) /\ entries' = [entries EXCEPT ![o].durable = TRUE]
      <4>1. entries[o] \in Entry
        BY <3>2, EntryFacts DEF Has, IInv, Shape
      <4>2. /\ entries'[o].placements = entries[o].placements
            /\ \A p \in Oid : p # o => entries'[p] = entries[p]
        BY <3>2, <4>1 DEF IInv, Shape, TypeOK, Entry
      <4> QED BY <4>2
    <3> QED BY Zenon, <2>6, <3>1, <3>2 DEF Persist
  <2>7. ASSUME NEW t \in Thread, NEW o \in Oid, DemoteHost(t, o) PROVE Goal
    <3>1. CASE Has(o, Persistent) /\ entries' = [entries EXCEPT ![o].placements = Without(@, Host)]
      <4>1. Has(o, Persistent)' /\ \A p \in Oid : p # o => entries'[p] = entries[p]
        BY Zenon, <2>0, <2>7, <3>1, <1>OthersStay DEF DemoteHost
      <4> QED BY <4>1, <1>OneKeepsCopy
    <3>2. CASE /\ ~Has(o, Persistent)
               /\ entries' = [entries EXCEPT ![o].placements =
                                Without(Pushed(o, Persistent), Host)]
      <4>1. Has(o, Persistent)' /\ \A p \in Oid : p # o => entries'[p] = entries[p]
        BY Zenon, <2>0, <2>7, <3>2, <1>CopyArrives DEF DemoteHost
      <4> QED BY <4>1, <1>OneKeepsCopy
    <3> QED BY SMTT(30), <2>7, <3>1, <3>2 DEF DemoteHost
  <2>8. ASSUME NEW t \in Thread, NEW o \in Oid, NEW b \in Backend, DemoteAccelerator(t, o, b)
        PROVE  Goal
    <3>0. b \in Tier /\ b # Host
      BY SMTT(30), RuntimeAssumption DEF Tier
    <3>1. CASE Has(o, Host) /\ entries' = [entries EXCEPT ![o].placements = Without(@, b)]
      <4>1. Has(o, Host)' /\ \A p \in Oid : p # o => entries'[p] = entries[p]
        BY Zenon, <2>0, <2>8, <3>0, <3>1, <1>OthersStay DEF DemoteAccelerator
      <4> QED BY <4>1, <1>OneKeepsCopy
    <3>2. CASE /\ ~Has(o, Host)
               /\ entries' = [entries EXCEPT ![o].placements = Without(Pushed(o, Host), b)]
      <4>1. Has(o, Host)' /\ \A p \in Oid : p # o => entries'[p] = entries[p]
        BY Zenon, <2>0, <2>8, <3>0, <3>2, <1>CopyArrives DEF DemoteAccelerator
      <4> QED BY <4>1, <1>OneKeepsCopy
    <3> QED BY SMTT(30), <2>8, <3>1, <3>2 DEF DemoteAccelerator
  <2>9. ASSUME NEW t \in Thread, ThreadStep(t) PROVE Goal
    <3>1. ASSUME NEW o \in Oid, NEW c \in Content, Register(t, o, c) PROVE Goal
      BY Zenon, <3>1, <2>1, <2>3 DEF Register
    <3>2. ASSUME EvictToFree(t) PROVE Goal
      BY Zenon, <3>2, <2>1 DEF EvictToFree
    <3>3. ASSUME RegisterRetry(t) PROVE Goal
      <4>1. pending[t].oid \in Oid /\ pending[t].payload \in Content
        BY <3>3 DEF RegisterRetry, IInv, Shape, TypeOK, Pending
      <4> QED BY ZenonT(40), <3>3, <4>1, <2>1, <2>3 DEF RegisterRetry
    <3>4. ASSUME NEW o \in Oid, PromoteHost(t, o) PROVE Goal
      BY Zenon, <2>0, <2>4, <3>4 DEF PromoteHost, Materializable
    <3>5. ASSUME NEW o \in Oid, NEW b \in Backend, PromoteAccelerator(t, o, b) PROVE Goal
      <4>1. b \in Tier
        BY SMTT(30) DEF Tier
      <4> QED BY ZenonT(40), <4>1, <2>4, <3>5 DEF PromoteAccelerator, Materializable
    <3>6. ASSUME NEW o \in Oid, PromotePersistent(t, o, entries[o].durable) PROVE Goal
      <4>1. entries[o].durable \in BOOLEAN
        BY <3>6, EntryFacts DEF PromotePersistent, Materializable, Entry, IInv, Shape
      <4> QED BY SMTT(30), <3>6, <4>1, <2>5
    <3>7. ASSUME NEW o \in Oid, Evict(t, o) \/ Delete(t, o) PROVE Goal
      BY Zenon, <3>7, <2>1 DEF Evict, Delete
    <3> QED
      BY ZenonT(40), <2>6, <2>7, <2>8, <2>9, <3>1, <3>2, <3>3, <3>4, <3>5, <3>6, <3>7 DEF ThreadStep
  <2>10. HolderStep => FALSE
    BY Zenon DEF HolderStep, ReclaimNext, ReclaimDone, SkipPersistent, RemoveHost,
       RemoveAccelerator, RemovePersistent, EvictDone, DeleteDone, InLoop, Removing
  <2> QED
    BY ZenonT(40), <2>1, <2>2, <2>9, <2>10 DEF Next, vars
<1>1. IInv /\ [Next]_vars =>
        [\A o \in Oid :
           section = Absent /\ entries[o] # Absent /\ entries[o].placements # <<>>
           /\ entries'[o] # Absent
           => entries'[o].placements # <<>>]_vars
  BY <1>CopyStays
<1> QED
  BY <1>1, Invariance, PTL DEF Spec, LastCopyKept

-----------------------------------------------------------------------------
(* Where the bytes of a payload are in its blocks *)

\* Multiplication by a block size is monotone, and steps by the block size.
LEMMA Scaled ==
  ASSUME NEW a \in Nat, NEW b \in Nat, NEW s \in Nat \ {0}
  PROVE  /\ a * s \in Nat
         /\ a <= b => a * s <= b * s
         /\ a < b => a * s + s <= b * s
<1>1. \A x, y \in Nat : x * y \in Nat
  BY SMTT(30)
<1>2. ASSUME a <= b PROVE a * s <= b * s
  <2>1. PICK d \in Nat : b = a + d
    <3>1. b - a \in Nat /\ b = a + (b - a)
      BY SMTT(30), <1>2
    <3> QED BY SMTT(30), <3>1
  <2>2. b * s = a * s + d * s
    BY SMTT(30), <2>1
  <2> QED BY SMTT(30), <1>1, <2>2
<1>3. ASSUME a < b PROVE a * s + s <= b * s
  <2>1. PICK d \in Nat : b = a + 1 + d
    <3>1. b - a - 1 \in Nat /\ b = a + 1 + (b - a - 1)
      BY SMTT(30), <1>3
    <3> QED BY SMTT(30), <3>1
  <2>2. b * s = a * s + s + d * s
    BY SMTT(30), <2>1
  <2> QED BY SMTT(30), <1>1, <2>2
<1> QED
  BY SMTT(30), <1>1, <1>2, <1>3

\* Division with remainder.
LEMMA Divided ==
  ASSUME NEW k \in Nat, NEW s \in Nat \ {0}
  PROVE  /\ k \div s \in Nat /\ k % s \in Nat /\ k % s < s
         /\ k = (k \div s) * s + (k % s)
BY SMTT(30)

\* Quotient and remainder are determined.
LEMMA DividedOnce ==
  ASSUME NEW q \in Nat, NEW r \in Nat, NEW s \in Nat \ {0}, r < s
  PROVE  (q * s + r) \div s = q /\ (q * s + r) % s = r
<1> DEFINE k == q * s + r
           p == k \div s
           t == k % s
<1>1. k \in Nat
  BY SMTT(30)
<1>2. p \in Nat /\ t \in Nat /\ t < s /\ k = p * s + t
  BY SMTT(30), <1>1, Divided
<1>3. q * s + r = p * s + t
  BY SMTT(30), <1>2
<1> HIDE DEF p, t
<1>4. q * s \in Nat /\ p * s \in Nat
  BY SMTT(30), <1>2, Scaled
<1>5. ~(q < p)
  BY SMTT(30), <1>2, <1>3, <1>4, Scaled
<1>6. ~(p < q)
  BY SMTT(30), <1>2, <1>3, <1>4, Scaled
<1>7. p = q
  BY SMTT(30), <1>2, <1>5, <1>6
<1>8. t = r
  BY SMTT(30), <1>2, <1>3, <1>4, <1>7
<1> QED
  BY SMTT(30), <1>7, <1>8 DEF p, t

\* The length of block i of a payload of n bytes.
BlockLen(n, s, i) == (IF i * s < n THEN i * s ELSE n) - (i - 1) * s

\* Every block starts inside the payload and has between one and s bytes.
LEMMA BlockSpan ==
  ASSUME NEW n \in Nat, NEW s \in Nat \ {0}, NEW i \in 1..BlockCount(n, s)
  PROVE  /\ (i - 1) * s \in Nat /\ (i - 1) * s < n
         /\ i * s = (i - 1) * s + s
         /\ BlockLen(n, s, i) \in 1..s
         /\ (i - 1) * s + BlockLen(n, s, i) <= n
<1> DEFINE q == (n + s - 1) \div s
           r == (n + s - 1) % s
<1>1. n + s - 1 \in Nat
  OBVIOUS
<1>2. q \in Nat /\ r \in Nat /\ n + s - 1 = q * s + r
  BY SMTT(30), <1>1, Divided
<1>3. i \in Nat /\ i - 1 \in Nat /\ i <= q
  BY SMTT(30), <1>2 DEF BlockCount
<1> HIDE DEF q, r
<1>4. i * s <= q * s /\ i * s \in Nat /\ q * s \in Nat /\ (i - 1) * s \in Nat
  BY SMTT(30), <1>2, <1>3, Scaled
<1>5. i * s = (i - 1) * s + s
  BY SMTT(30), <1>3
<1>6. (i - 1) * s < n
  BY SMTT(30), <1>2, <1>4, <1>5
<1> QED
  BY SMTT(30), <1>4, <1>5, <1>6 DEF BlockLen

\* Byte k of a payload is byte ((k - 1) % s) + 1 of its block.
LEMMA ByteInBlock ==
  ASSUME NEW n \in Nat, NEW s \in Nat \ {0}, NEW k \in 1..n
  PROVE  /\ BlockAt(k, s) \in 1..BlockCount(n, s)
         /\ ((k - 1) % s) + 1 \in 1..BlockLen(n, s, BlockAt(k, s))
         /\ k = (BlockAt(k, s) - 1) * s + (((k - 1) % s) + 1)
<1> DEFINE q == (k - 1) \div s
           r == (k - 1) % s
           m == (n + s - 1) \div s
<1>1. k - 1 \in Nat /\ n + s - 1 \in Nat
  OBVIOUS
<1>2. q \in Nat /\ r \in Nat /\ r < s /\ k - 1 = q * s + r
  BY SMTT(30), <1>1, Divided
<1>3. m \in Nat /\ (n + s - 1) % s \in Nat /\ (n + s - 1) % s < s
      /\ n + s - 1 = m * s + ((n + s - 1) % s)
  BY SMTT(30), <1>1, Divided
<1>4. BlockAt(k, s) = q + 1 /\ BlockCount(n, s) = m
  BY SMTT(30) DEF BlockAt, BlockCount
<1> HIDE DEF q, r, m
<1>5. q * s \in Nat /\ m * s \in Nat
  BY SMTT(30), <1>2, <1>3, Scaled
<1>6. q < m
  <2>1. CASE m <= q
    <3>1. m * s <= q * s
      BY SMTT(30), <1>2, <1>3, <2>1, Scaled
    <3> QED BY SMTT(30), <1>2, <1>3, <1>5, <3>1
  <2> QED BY SMTT(30), <2>1, <1>2, <1>3
<1>7. q + 1 \in 1..m
  BY SMTT(30), <1>2, <1>3, <1>6
<1>8. (q + 1) * s = q * s + s /\ (q + 1 - 1) * s = q * s
  BY SMTT(30), <1>2
<1>9. r + 1 \in 1..BlockLen(n, s, q + 1)
  BY SMTT(30), <1>2, <1>5, <1>8 DEF BlockLen
<1> QED
  <2>1. ((k - 1) % s) + 1 = r + 1
    BY DEF r
  <2>2. BlockAt(k, s) \in 1..BlockCount(n, s)
    BY ZenonT(40), <1>4, <1>7
  <2>3. ((k - 1) % s) + 1 \in 1..BlockLen(n, s, BlockAt(k, s))
    BY ZenonT(40), <1>4, <1>9, <2>1
  <2>4. BlockAt(k, s) - 1 = q
    BY SMTT(30), <1>2, <1>4
  <2>5. k = (BlockAt(k, s) - 1) * s + (((k - 1) % s) + 1)
    <3>1. k = q * s + (r + 1)
      BY SMTT(30), <1>2, <1>5
    <3> QED BY ZenonT(40), <2>1, <2>4, <3>1
  <2> QED BY ZenonT(40), <2>2, <2>3, <2>5

\* Byte j of block i is byte (i - 1) * s + j of the payload.
LEMMA ByteOfBlock ==
  ASSUME NEW n \in Nat, NEW s \in Nat \ {0}, NEW i \in 1..BlockCount(n, s),
         NEW j \in 1..BlockLen(n, s, i)
  PROVE  /\ (i - 1) * s + j \in 1..n
         /\ BlockAt((i - 1) * s + j, s) = i
         /\ (((i - 1) * s + j - 1) % s) + 1 = j
<1>1. /\ (i - 1) * s \in Nat
      /\ BlockLen(n, s, i) \in 1..s
      /\ (i - 1) * s + BlockLen(n, s, i) <= n
  BY SMTT(30), BlockSpan
<1>2. i - 1 \in Nat /\ j - 1 \in Nat /\ j - 1 < s
  <2>1. BlockCount(n, s) \in Int
    BY DEF BlockCount
  <2> QED BY SMTT(30), <1>1, <2>1
<1>3. ((i - 1) * s + (j - 1)) \div s = i - 1 /\ ((i - 1) * s + (j - 1)) % s = j - 1
  BY ZenonT(40), <1>2, DividedOnce
<1>4. (i - 1) * s + j - 1 = (i - 1) * s + (j - 1)
  BY SMTT(30), <1>1, <1>2
<1>5. (i - 1) * s + j \in 1..n
  BY SMTT(30), <1>1, <1>2
<1>6. i = i - 1 + 1 /\ j = j - 1 + 1
  BY SMTT(30), <1>2
<1> QED
  BY SMTT(30), <1>3, <1>4, <1>5, <1>6 DEF BlockAt

\* A slice of a sequence.
LEMMA Slice ==
  ASSUME NEW c \in Seq(Nat), NEW lo \in 1..Len(c), NEW hi \in lo..Len(c)
  PROVE  /\ SubSeq(c, lo, hi) \in Seq(Nat) /\ Len(SubSeq(c, lo, hi)) = hi - lo + 1
         /\ \A j \in 1..(hi - lo + 1) : SubSeq(c, lo, hi)[j] = c[lo + j - 1]
<1>1. Len(c) \in Nat /\ lo \in Nat /\ hi \in Nat /\ 1 <= lo /\ lo <= hi /\ hi <= Len(c)
  OBVIOUS
<1>2. \A x \in lo..hi : c[x] \in Nat
  BY SMTT(30), <1>1
<1>3. SubSeq(c, lo, hi) \in Seq(Nat)
  BY SMTT(30), <1>1, <1>2
<1>4. Len(SubSeq(c, lo, hi)) = hi - lo + 1
  BY SMTT(30), <1>1
<1>5. \A j \in 1..(hi - lo + 1) : SubSeq(c, lo, hi)[j] = c[lo + j - 1]
  BY SMTT(30), <1>1
<1> QED
  BY SMTT(30), <1>3, <1>4, <1>5

\* Block i of a payload has BlockLen bytes: bytes (i - 1) * s + 1 and on.
LEMMA ChunkLen ==
  ASSUME NEW c \in Seq(Nat), NEW s \in Nat \ {0}, NEW i \in 1..BlockCount(Len(c), s)
  PROVE  /\ Chunk(c, s)[i] \in Seq(Nat)
         /\ Len(Chunk(c, s)[i]) = BlockLen(Len(c), s, i)
         /\ \A j \in 1..BlockLen(Len(c), s, i) : Chunk(c, s)[i][j] = c[(i - 1) * s + j]
<1> DEFINE lo == (i - 1) * s + 1
           hi == IF i * s < Len(c) THEN i * s ELSE Len(c)
<1>1. Len(c) \in Nat
  OBVIOUS
<1>2. /\ (i - 1) * s \in Nat /\ (i - 1) * s < Len(c)
      /\ i * s = (i - 1) * s + s
      /\ BlockLen(Len(c), s, i) \in 1..s
      /\ (i - 1) * s + BlockLen(Len(c), s, i) <= Len(c)
  BY <1>1, BlockSpan
<1>3. Chunk(c, s)[i] = SubSeq(c, lo, hi)
  BY Zenon DEF Chunk
<1>4. hi = (i - 1) * s + BlockLen(Len(c), s, i)
  BY <1>1, <1>2 DEF BlockLen
<1>5. lo \in 1..Len(c) /\ hi \in lo..Len(c)
  BY SMTT(30), <1>1, <1>2, <1>4
<1> HIDE DEF lo, hi
<1>6. /\ SubSeq(c, lo, hi) \in Seq(Nat) /\ Len(SubSeq(c, lo, hi)) = hi - lo + 1
      /\ \A j \in 1..(hi - lo + 1) : SubSeq(c, lo, hi)[j] = c[lo + j - 1]
  BY SMTT(30), <1>5, Slice
<1>7. hi - lo + 1 = BlockLen(Len(c), s, i)
  BY SMTT(30), <1>2, <1>4 DEF lo
<1>8. \A j \in 1..BlockLen(Len(c), s, i) : lo + j - 1 = (i - 1) * s + j
  BY SMTT(30), <1>2 DEF lo
<1> QED
  BY SMTT(30), <1>3, <1>6, <1>7, <1>8


-----------------------------------------------------------------------------
(* Sets of pairs: what each object of a set contributes *)

Pairs(S, D) == UNION {{o} \X D[o] : o \in S}

\* Finitely many finite contributions.
LEMMA PairsFinite ==
  ASSUME NEW S, IsFiniteSet(S), NEW D, \A o \in S : IsFiniteSet(D[o])
  PROVE  IsFiniteSet(Pairs(S, D)) /\ Cardinality(Pairs(S, D)) \in Nat
<1> DEFINE f == [o \in S |-> {o} \X D[o]]
           T == {f[o] : o \in S}
<1>1. f \in Surjection(S, T)
  BY Zenon DEF Surjection
<1>2. IsFiniteSet(T)
  <2> HIDE DEF f, T
  <2> QED BY SMTT(30), <1>1, FS_Surjection
<1>3. \A o \in S : IsFiniteSet(f[o])
  <2> TAKE o \in S
  <2>1. IsFiniteSet({o})
    BY ZenonT(40), FS_Singleton
  <2>2. IsFiniteSet({o} \X D[o])
    BY SMTT(30), <2>1, FS_Product
  <2> QED BY SMTT(30), <2>2
<1>4. \A t \in T : IsFiniteSet(t)
  BY SMTT(30), <1>3
<1>5. IsFiniteSet(UNION T)
  <2> HIDE DEF T
  <2> QED BY SMTT(30), <1>2, <1>4, FS_UNION
<1>6. Pairs(S, D) = UNION T
  BY SMTT(30) DEF Pairs
<1> QED
  BY SMTT(30), <1>5, <1>6, FS_CardinalityType

\* One more object adds as many pairs as it contributes.
LEMMA PairsGain ==
  ASSUME NEW S, IsFiniteSet(S), NEW D, NEW E, NEW o, o \notin S,
         \A p \in S : E[p] = D[p], \A p \in S : IsFiniteSet(D[p]), IsFiniteSet(E[o])
  PROVE  Cardinality(Pairs(S \cup {o}, E)) = Cardinality(Pairs(S, D)) + Cardinality(E[o])
<1> DEFINE U == Pairs(S, D)
           V == {o} \X E[o]
<1>1. IsFiniteSet(U) /\ Cardinality(U) \in Nat
  BY SMTT(30), PairsFinite
<1>2. IsFiniteSet({o}) /\ Cardinality({o}) = 1
  BY ZenonT(40), FS_Singleton
<1>3. IsFiniteSet(V) /\ Cardinality(V) = 1 * Cardinality(E[o]) /\ Cardinality(E[o]) \in Nat
  BY ZenonT(40), <1>2, FS_Product, FS_CardinalityType
<1>4. U \cap V = {}
  BY DEF Pairs
<1>5. Pairs(S \cup {o}, E) = U \cup V
  BY DEF Pairs
<1> HIDE DEF U, V
<1>6. Cardinality(U \cup V) = Cardinality(U) + Cardinality(V) - Cardinality(U \cap V)
  BY <1>1, <1>3, FS_Union
<1>7. Cardinality(U \cap V) = 0
  BY <1>4, FS_EmptySet
<1>8. Cardinality(U \cup V) = Cardinality(U) + Cardinality(E[o])
  BY SMTT(30), <1>1, <1>3, <1>6, <1>7
<1> QED
  BY SMTT(30), <1>5, <1>8 DEF U

\* One object fewer takes as many pairs as it contributed.
LEMMA PairsLose ==
  ASSUME NEW S, IsFiniteSet(S), NEW D, NEW E, NEW o \in S,
         \A p \in S \ {o} : E[p] = D[p], \A p \in S : IsFiniteSet(D[p])
  PROVE  Cardinality(Pairs(S, D)) = Cardinality(Pairs(S \ {o}, E)) + Cardinality(D[o])
<1> DEFINE T == S \ {o}
<1>1. IsFiniteSet(T) /\ o \notin T /\ S = T \cup {o}
  BY SMTT(30), FS_Subset
<1>2. \A p \in T : D[p] = E[p] /\ IsFiniteSet(E[p])
  BY SMTT(30)
<1>3. IsFiniteSet(D[o])
  BY SMTT(30)
<1> HIDE DEF T
<1>4. Cardinality(Pairs(T \cup {o}, D)) = Cardinality(Pairs(T, E)) + Cardinality(D[o])
  BY SMTT(30), <1>1, <1>2, <1>3, PairsGain
<1> QED
  BY SMTT(30), <1>1, <1>4 DEF T

-----------------------------------------------------------------------------
(* The bytes of blocks *)

Bytes(H) == UNION {{h} \X (1..Len(h)) : h \in H}

\* The positions of a payload that lie in the blocks with index in J.
Positions(c, s, J) == {k \in DOMAIN c : BlockAt(k, s) \in J}

NamedBy(c, s, J) == {Chunk(c, s)[i] : i \in J}

\* The positions in some blocks of a payload cover the bytes of those blocks, and
\* no more than once when the blocks are distinct.
LEMMA PositionsCover ==
  ASSUME NEW c \in Seq(Nat), NEW s \in Nat \ {0},
         NEW J, J \subseteq 1..BlockCount(Len(c), s)
  PROVE  /\ IsFiniteSet(Positions(c, s, J)) /\ IsFiniteSet(Bytes(NamedBy(c, s, J)))
         /\ Cardinality(Bytes(NamedBy(c, s, J))) <= Cardinality(Positions(c, s, J))
         /\ (\A i, j \in J : Chunk(c, s)[i] = Chunk(c, s)[j] => i = j) =>
              Cardinality(Bytes(NamedBy(c, s, J))) = Cardinality(Positions(c, s, J))
<1> DEFINE P == Positions(c, s, J)
           B == Bytes(NamedBy(c, s, J))
           f == [k \in P |-> <<Chunk(c, s)[BlockAt(k, s)], ((k - 1) % s) + 1>>]
<1>0. c \in Seq(Nat) /\ s \in Nat \ {0} /\ Len(c) \in Nat /\ DOMAIN c = 1..Len(c)
  BY SMTT(30)
<1>1. IsFiniteSet(P)
  <2>1. IsFiniteSet(DOMAIN c)
    BY SMTT(30), <1>0, FS_Interval
  <2> QED BY SMTT(30), <2>1, FS_Subset DEF Positions
<1>2. \A i \in J : Len(Chunk(c, s)[i]) = BlockLen(Len(c), s, i)
  BY SMTT(30), <1>0, ChunkLen
<1>3. \A k \in P : f[k] \in B
  <2> TAKE k \in P
  <2>1. k \in 1..Len(c) /\ BlockAt(k, s) \in J
    BY SMTT(30), <1>0 DEF Positions
  <2>2. ((k - 1) % s) + 1 \in 1..Len(Chunk(c, s)[BlockAt(k, s)])
    BY ZenonT(40), <1>0, <1>2, <2>1, ByteInBlock
  <2> DEFINE h == Chunk(c, s)[BlockAt(k, s)]
  <2>3. h \in NamedBy(c, s, J)
    BY ZenonT(40), <2>1 DEF NamedBy
  <2>4. f[k] = <<h, ((k - 1) % s) + 1>>
    BY SMTT(30)
  <2>a. ((k - 1) % s) + 1 \in 1..Len(h)
    BY SMTT(30), <2>2
  <2> HIDE DEF h, f
  <2>5. f[k] \in {h} \X (1..Len(h))
    BY SMTT(30), <2>a, <2>4
  <2> QED BY ZenonT(40), <2>3, <2>5 DEF Bytes
<1>4. \A x \in B : \E k \in P : f[k] = x
  <2> TAKE x \in B
  <2>1. PICK i \in J : x \in {Chunk(c, s)[i]} \X (1..Len(Chunk(c, s)[i]))
    BY SMTT(30) DEF Bytes, NamedBy
  <2>2. PICK j \in 1..BlockLen(Len(c), s, i) : x = <<Chunk(c, s)[i], j>>
    BY SMTT(30), <1>2, <2>1
  <2> DEFINE k == (i - 1) * s + j
  <2>3. k \in 1..Len(c) /\ BlockAt(k, s) = i /\ ((k - 1) % s) + 1 = j
    BY SMTT(30), <1>0, ByteOfBlock
  <2> HIDE DEF k
  <2>4. k \in P
    BY SMTT(30), <1>0, <2>3 DEF Positions
  <2> QED BY ZenonT(40), <2>2, <2>3, <2>4
<1>5. f \in Surjection(P, B)
  <2> HIDE DEF P, B
  <2>1. f \in [P -> B]
    BY SMTT(30), <1>3
  <2> HIDE DEF f
  <2> QED BY ZenonT(40), <1>4, <2>1 DEF Surjection
<1>6. IsFiniteSet(B) /\ Cardinality(B) <= Cardinality(P)
  <2> HIDE DEF P, B, f
  <2> QED BY SMTT(30), <1>1, <1>5, FS_Surjection
<1>7. ASSUME \A i, j \in J : Chunk(c, s)[i] = Chunk(c, s)[j] => i = j
      PROVE  Cardinality(B) = Cardinality(P)
  <2>1. ASSUME NEW k \in P, NEW l \in P, f[k] = f[l] PROVE k = l
    <3>1. /\ k \in 1..Len(c) /\ BlockAt(k, s) \in J
          /\ l \in 1..Len(c) /\ BlockAt(l, s) \in J
      BY SMTT(30), <1>0 DEF Positions
    <3>2. /\ Chunk(c, s)[BlockAt(k, s)] = Chunk(c, s)[BlockAt(l, s)]
          /\ ((k - 1) % s) + 1 = ((l - 1) % s) + 1
      BY SMTT(30), <2>1
    <3>3. BlockAt(k, s) = BlockAt(l, s)
      BY ZenonT(40), <1>7, <3>1, <3>2
    <3>4. /\ k = (BlockAt(k, s) - 1) * s + (((k - 1) % s) + 1)
          /\ l = (BlockAt(l, s) - 1) * s + (((l - 1) % s) + 1)
      BY SMTT(30), <1>0, <3>1, ByteInBlock
    <3> QED BY ZenonT(40), <3>2, <3>3, <3>4
  <2>2. f \in Injection(P, B)
    <3> HIDE DEF P, B
    <3>1. f \in [P -> B]
      BY <1>3
    <3> HIDE DEF f
    <3> QED BY ZenonT(40), <2>1, <3>1 DEF Injection, IsInjective
  <2> HIDE DEF P, B, f
  <2> QED BY SMTT(30), <1>1, <1>5, <2>2, FS_Surjection
<1> QED
  BY SMTT(30), <1>1, <1>6, <1>7

\* Bytes of different blocks are different.
LEMMA BytesSplit ==
  ASSUME NEW A, NEW B, A \cap B = {}, IsFiniteSet(Bytes(A)), IsFiniteSet(Bytes(B))
  PROVE  /\ IsFiniteSet(Bytes(A \cup B))
         /\ Cardinality(Bytes(A \cup B)) = Cardinality(Bytes(A)) + Cardinality(Bytes(B))
<1> DEFINE U == Bytes(A)
           V == Bytes(B)
<1>1. Bytes(A \cup B) = U \cup V /\ U \cap V = {}
  BY SMTT(30) DEF Bytes
<1> HIDE DEF U, V
<1>2. /\ IsFiniteSet(U \cup V)
      /\ Cardinality(U \cup V) = Cardinality(U) + Cardinality(V) - Cardinality(U \cap V)
  BY SMTT(30), FS_Union DEF U, V
<1>3. Cardinality(U) \in Nat /\ Cardinality(V) \in Nat /\ Cardinality(U \cap V) = 0
  BY ZenonT(40), <1>1, FS_CardinalityType, FS_EmptySet DEF U, V
<1>4. Cardinality(U \cup V) = Cardinality(U) + Cardinality(V)
  BY SMTT(30), <1>2, <1>3
<1> QED
  BY ZenonT(40), <1>1, <1>2, <1>4 DEF U, V

-----------------------------------------------------------------------------
(* Least elements *)

\* A set of natural numbers that is not empty has a least element.
LEMMA NatMin ==
  ASSUME NEW T \in SUBSET Nat, T # {}
  PROVE  \E x \in T : \A y \in T : x <= y
<1> DEFINE R == OpToRel(<, Nat)
<1>1. IsWellFoundedOn(R, Nat)
  BY ZenonT(40), NatLessThanWellFounded
<1>2. \A a, b \in Nat : a < b => <<a, b>> \in R
  BY SMTT(30) DEF OpToRel
<1> HIDE DEF R
<1>3. PICK x \in T : \A y \in T : ~ (<<y, x>> \in R)
  BY ZenonT(40), <1>1, WFMin
<1>4. x \in Nat /\ \A y \in T : y \in Nat
  BY SMTT(30)
<1>5. \A y \in T : ~(y < x)
  BY ZenonT(40), <1>2, <1>3, <1>4
<1>6. \A y \in T : x <= y
  BY SMTT(30), <1>5, <1>4
<1> QED
  BY SMTT(30), <1>6


-----------------------------------------------------------------------------
(* How often a block occurs *)

\* A count is positive exactly when the block occurs.
LEMMA CountPositive ==
  ASSUME NEW blocks, NEW n \in Nat, NEW h
  PROVE  Count(blocks, n, h) > 0 <=> \E i \in 1..n : blocks[i] = h
<1> DEFINE I == {i \in 1..n : blocks[i] = h}
<1>1. IsFiniteSet(I) /\ Count(blocks, n, h) = Cardinality(I)
  BY ZenonT(40), CountType DEF Count
<1>2. I = {} <=> ~\E i \in 1..n : blocks[i] = h
  OBVIOUS
<1> HIDE DEF I
<1>3. Cardinality(I) \in Nat /\ (Cardinality(I) = 0 <=> I = {})
  BY <1>1, FS_EmptySet, FS_CardinalityType
<1> QED
  BY SMTT(30), <1>1, <1>2, <1>3

\* Counts grow at every occurrence.
LEMMA CountStrict ==
  ASSUME NEW blocks, NEW i \in Nat, NEW j \in Nat, i < j, NEW h, blocks[j] = h
  PROVE  Count(blocks, i, h) < Count(blocks, j, h)
<1> DEFINE I == {k \in 1..i : blocks[k] = h}
           J == {k \in 1..j : blocks[k] = h}
<1>1. IsFiniteSet(I) /\ IsFiniteSet(J)
  <2>1. IsFiniteSet(1..i) /\ IsFiniteSet(1..j)
    BY SMTT(30), FS_Interval
  <2>2. I \subseteq 1..i /\ J \subseteq 1..j
    BY SMTT(30)
  <2> HIDE DEF I, J
  <2> QED BY ZenonT(40), <2>1, <2>2, FS_Subset
<1>2. I \subseteq J /\ j \in J /\ j \notin I
  BY SMTT(30)
<1>3. Count(blocks, i, h) = Cardinality(I) /\ Count(blocks, j, h) = Cardinality(J)
  BY SMTT(30) DEF Count
<1> HIDE DEF I, J
<1>4. I \subseteq J /\ I # J
  BY SMTT(30), <1>2
<1>5. Cardinality(I) <= Cardinality(J) /\ (Cardinality(I) = Cardinality(J) => I = J)
      /\ Cardinality(I) \in Nat /\ Cardinality(J) \in Nat
  BY ZenonT(40), <1>1, <1>2, FS_Subset, FS_CardinalityType
<1> QED
  BY SMTT(30), <1>3, <1>4, <1>5

\* A block that occurs has a last occurrence, at which its count is complete.
LEMMA LastOccurrence ==
  ASSUME NEW blocks, NEW n \in Nat, NEW h, Count(blocks, n, h) > 0
  PROVE  \E i \in 1..n : blocks[i] = h /\ Count(blocks, i, h) = Count(blocks, n, h)
<1> DEFINE T == {d \in Nat : d <= n - 1 /\ blocks[n - d] = h}
<1>1. PICK k \in 1..n : blocks[k] = h
  BY SMTT(30), CountPositive
<1>2. n - k \in T
  <2>1. n - k \in Nat /\ n - k <= n - 1 /\ n - (n - k) = k
    BY SMTT(30), <1>1
  <2> QED BY SMTT(30), <1>1, <2>1
<1>3. PICK d \in T : \A e \in T : d <= e
  BY ZenonT(40), <1>2, NatMin
<1> DEFINE i == n - d
<1>4. i \in 1..n /\ blocks[i] = h
  BY SMTT(30), <1>3
<1>5. \A j \in 1..n : blocks[j] = h => j <= i
  <2> SUFFICES ASSUME NEW j \in 1..n, blocks[j] = h PROVE j <= n - d
    BY SMTT(30)
  <2>1. n - j \in Nat /\ n - j <= n - 1 /\ n - (n - j) = j
    BY SMTT(30)
  <2>2. n - j \in T
    BY SMTT(30), <2>1
  <2>3. d <= n - j /\ d \in Nat
    BY ZenonT(40), <1>3, <2>2
  <2> QED BY SMTT(30), <2>3
<1> HIDE DEF i
<1>6. {j \in 1..i : blocks[j] = h} = {j \in 1..n : blocks[j] = h}
  BY SMTT(30), <1>4, <1>5
<1>7. Count(blocks, i, h) = Count(blocks, n, h)
  BY SMTT(30), <1>6 DEF Count
<1> QED
  BY SMTT(30), <1>4, <1>7
=============================================================================
