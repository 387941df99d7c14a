------------------------- MODULE TensorCacheBudget -------------------------
(***************************************************************************)
(* What references, bytes and objects add up to, for every set of threads,  *)
(* objects, payloads and block sizes: what acquiring and releasing the      *)
(* blocks of a payload does to the host budget, and how the sums over       *)
(* objects change when one object moves.                                    *)
(*                                                                          *)
(* Exact is the invariant of the books.  Its step is proved action by action*)
(* in TensorCacheAccounting.                                                *)
(***************************************************************************)
EXTENDS TensorCacheProofs

-----------------------------------------------------------------------------
(* The bytes charged for the blocks in the arena *)

Held == {b \in Block : arena[b] > 0}

\* No payload holds a block twice.
Distinct == \A c \in Content, s \in BlockSizes : IsInjective(Chunk(c, s))

\* The budget charges at least the bytes the arena holds, and exactly those when
\* no payload holds a block twice.
Charged ==
  /\ IsFiniteSet(Bytes(Held))
  /\ Cardinality(Bytes(Held)) <= used
  /\ Distinct => Cardinality(Bytes(Held)) = used

\* The blocks of a payload and how often each occurs.
LEMMA HostBlocksFacts ==
  ASSUME TypeOK, NEW c \in Content
  PROVE  /\ Len(HostBlocks(c)) \in Nat /\ Len(HostBlocks(c)) = BlockCount(Len(c), blockSize)
         /\ DOMAIN HostBlocks(c) = 1..Len(HostBlocks(c))
         /\ \A i \in 1..Len(HostBlocks(c)) :
              HostBlocks(c)[i] \in Block /\ arena[HostBlocks(c)[i]] \in Nat
         /\ \A k \in DOMAIN c : BlockAt(k, blockSize) \in 1..Len(HostBlocks(c))
         /\ Distinct => IsInjective(HostBlocks(c))
<1>1. blockSize \in BlockSizes /\ blockSize \in Nat \ {0} /\ c \in Seq(Nat)
  BY SMTT(30), RuntimeAssumption DEF TypeOK
<1>2. /\ BlockCount(Len(c), blockSize) \in Nat
      /\ DOMAIN HostBlocks(c) = 1..BlockCount(Len(c), blockSize)
      /\ Len(HostBlocks(c)) = BlockCount(Len(c), blockSize)
      /\ \A i \in DOMAIN HostBlocks(c) : HostBlocks(c)[i] \in Block
  BY SMTT(30), <1>1, ChunkType DEF HostBlocks
<1>3. \A b \in Block : arena[b] \in Nat
  BY SMTT(30) DEF TypeOK
<1>4. \A k \in DOMAIN c : BlockAt(k, blockSize) \in 1..BlockCount(Len(c), blockSize)
  BY SMTT(30), <1>1, ByteInBlock
<1>5. Distinct => IsInjective(HostBlocks(c))
  BY SMTT(30), <1>1 DEF Distinct, HostBlocks
<1> QED
  BY SMTT(30), <1>2, <1>3, <1>4, <1>5

\* The blocks of a payload that are not in the arena.
NewBlocks(c) ==
  NamedBy(c, blockSize, {i \in 1..Len(HostBlocks(c)) : arena[HostBlocks(c)[i]] = 0})

\* What a registration reserves covers the bytes of its new blocks.
LEMMA NewBlocksFacts ==
  ASSUME TypeOK, NEW c \in Content
  PROVE  /\ NewBlocks(c) \subseteq Block /\ Held \cap NewBlocks(c) = {}
         /\ \A h \in Block : h \in NewBlocks(c) <=>
              arena[h] = 0 /\ \E i \in 1..Len(HostBlocks(c)) : HostBlocks(c)[i] = h
         /\ IsFiniteSet(Bytes(NewBlocks(c)))
         /\ Cardinality(Bytes(NewBlocks(c))) <= NewBytes(c)
         /\ Distinct => Cardinality(Bytes(NewBlocks(c))) = NewBytes(c)
<1> DEFINE blocks == HostBlocks(c)
           n == Len(blocks)
           J == {i \in 1..n : arena[blocks[i]] = 0}
           N == NamedBy(c, blockSize, J)
<1>1. /\ n \in Nat /\ n = BlockCount(Len(c), blockSize)
      /\ \A i \in 1..n : blocks[i] \in Block /\ arena[blocks[i]] \in Nat
      /\ \A k \in DOMAIN c : BlockAt(k, blockSize) \in 1..n
      /\ Distinct => IsInjective(blocks) /\ DOMAIN blocks = 1..n
  BY ZenonT(40), HostBlocksFacts
<1>2. NewBytes(c) = Cardinality(Positions(c, blockSize, J))
  <2>1. {k \in DOMAIN c : arena[blocks[BlockAt(k, blockSize)]] = 0} = Positions(c, blockSize, J)
    BY SMTT(30), <1>1 DEF Positions
  <2> QED BY ZenonT(40), <2>1 DEF NewBytes
<1>3. /\ IsFiniteSet(Bytes(N))
      /\ Cardinality(Bytes(N)) <= Cardinality(Positions(c, blockSize, J))
      /\ (\A i, j \in J : blocks[i] = blocks[j] => i = j) =>
           Cardinality(Bytes(N)) = Cardinality(Positions(c, blockSize, J))
  <2>1. /\ J \subseteq 1..BlockCount(Len(c), blockSize)
        /\ c \in Seq(Nat) /\ blockSize \in Nat \ {0}
    BY SMTT(30), <1>1, RuntimeAssumption DEF TypeOK
  <2> HIDE DEF J
  <2> QED BY ZenonT(40), <2>1, PositionsCover DEF HostBlocks
<1>4. Distinct => \A i, j \in J : blocks[i] = blocks[j] => i = j
  <2>1. J \subseteq 1..n
    BY SMTT(30)
  <2> HIDE DEF J, n, blocks
  <2> QED BY ZenonT(40), <1>1, <2>1 DEF IsInjective
<1>5. N = {blocks[i] : i \in J} /\ NewBlocks(c) = N
  BY SMTT(30) DEF NamedBy, HostBlocks, NewBlocks
<1> HIDE DEF N, blocks, n
<1>6. \A h \in Block : h \in N <=> arena[h] = 0 /\ \E i \in 1..n : blocks[i] = h
  BY SMTT(30), <1>5
<1>7. N \subseteq Block
  BY SMTT(30), <1>1, <1>5
<1>8. Held \cap N = {}
  BY SMTT(30), <1>6 DEF Held
<1> HIDE DEF J
<1> QED
  BY SMTT(30), <1>2, <1>3, <1>4, <1>5, <1>6, <1>7, <1>8 DEF n, blocks

\* Acquiring the blocks of a payload charges the ones that were not held.
LEMMA ChargedAcquire ==
  ASSUME TypeOK, Charged, NEW c \in Content, Acquire(c, NewBytes(c))
  PROVE  Charged'
<1> DEFINE blocks == HostBlocks(c)
           n == Len(blocks)
           N == NewBlocks(c)
<1>1. n \in Nat
  BY SMTT(30), HostBlocksFacts
<1>2. /\ N \subseteq Block /\ Held \cap N = {} /\ IsFiniteSet(Bytes(N))
      /\ \A h \in Block : h \in N <=> arena[h] = 0 /\ \E i \in 1..n : blocks[i] = h
      /\ Cardinality(Bytes(N)) <= NewBytes(c)
      /\ Distinct => Cardinality(Bytes(N)) = NewBytes(c)
  BY SMTT(30), NewBlocksFacts
<1>3. \A h \in Block : /\ arena[h] \in Nat
                       /\ Count(blocks, n, h) \in Nat
                       /\ arena'[h] = arena[h] + Count(blocks, n, h)
                       /\ Count(blocks, n, h) > 0 <=> \E i \in 1..n : blocks[i] = h
  <2> TAKE h \in Block
  <2>1. arena[h] \in Nat /\ arena'[h] = arena[h] + Count(blocks, n, h)
    BY SMTT(30) DEF TypeOK, Acquire
  <2> HIDE DEF blocks, n
  <2>2. Count(blocks, n, h) \in Nat /\ (Count(blocks, n, h) > 0 <=> \E i \in 1..n : blocks[i] = h)
    BY ZenonT(40), <1>1, CountType, CountPositive
  <2> QED BY SMTT(30), <2>1, <2>2
<1>4. used' = used + NewBytes(c) /\ used \in Nat /\ NewBytes(c) \in Nat
  BY NewBytesType DEF Acquire, TypeOK
<1> HIDE DEF N, blocks, n
<1>5. Held' = Held \cup N
  <2>1. \A h \in Block : arena'[h] > 0 <=> arena[h] > 0 \/ h \in N
    BY <1>2, <1>3
  <2> QED BY <1>2, <2>1 DEF Held
<1>6. /\ IsFiniteSet(Bytes(Held \cup N))
      /\ Cardinality(Bytes(Held \cup N)) = Cardinality(Bytes(Held)) + Cardinality(Bytes(N))
  BY <1>2, BytesSplit DEF Charged
<1>7. Cardinality(Bytes(Held)) \in Nat /\ Cardinality(Bytes(N)) \in Nat
  BY SMTT(30), <1>2, FS_CardinalityType DEF Charged
<1>8. Cardinality(Bytes(Held')) <= used'
  BY SMTT(30), <1>2, <1>4, <1>5, <1>6, <1>7 DEF Charged
<1>9. Distinct => Cardinality(Bytes(Held')) = used'
  BY SMTT(30), <1>2, <1>4, <1>5, <1>6, <1>7 DEF Charged
<1>10. IsFiniteSet(Bytes(Held'))
  BY SMTT(30), <1>5, <1>6
<1>11. Bytes(Held)' = Bytes(Held') /\ Distinct' = Distinct
  BY SMTT(30) DEF Bytes, Distinct
<1> QED
  BY SMTT(30), <1>8, <1>9, <1>10, <1>11 DEF Charged

\* The releases that drop a last reference name different blocks, all held, so
\* the bytes they give back are among the bytes charged.
LEMMA FreedHeld ==
  ASSUME TypeOK, Charged, NEW c \in Content, NEW m \in 0..Len(HostBlocks(c))
  PROVE  /\ Freed(HostBlocks(c), m) \subseteq 1..Len(HostBlocks(c))
         /\ NamedBy(c, blockSize, Freed(HostBlocks(c), m)) \subseteq Held
         /\ IsFiniteSet(Bytes(NamedBy(c, blockSize, Freed(HostBlocks(c), m))))
         /\ FreedBytes(c, m) = Cardinality(Bytes(NamedBy(c, blockSize, Freed(HostBlocks(c), m))))
         /\ FreedBytes(c, m) <= used
<1> DEFINE blocks == HostBlocks(c)
           F == Freed(blocks, m)
           N == NamedBy(c, blockSize, F)
<1>1. /\ Len(blocks) \in Nat /\ Len(blocks) = BlockCount(Len(c), blockSize)
      /\ \A i \in 1..Len(blocks) : blocks[i] \in Block /\ arena[blocks[i]] \in Nat
  BY SMTT(30), HostBlocksFacts
<1>2. m \in Nat /\ F \subseteq 1..Len(blocks) /\ F \subseteq 1..m
  BY SMTT(30), <1>1 DEF Freed
<1>3. \A i \in F : arena[blocks[i]] = Count(blocks, i, blocks[i])
  BY SMTT(30) DEF Freed
<1>4. N = {blocks[i] : i \in F}
  BY SMTT(30) DEF NamedBy, HostBlocks
<1>5. FreedBytes(c, m) = Cardinality(Positions(c, blockSize, F))
  BY SMTT(30) DEF FreedBytes, Positions
<1>6. /\ IsFiniteSet(Positions(c, blockSize, F)) /\ IsFiniteSet(Bytes(N))
      /\ (\A i, j \in F : blocks[i] = blocks[j] => i = j) =>
           Cardinality(Bytes(N)) = Cardinality(Positions(c, blockSize, F))
  <2>1. /\ F \subseteq 1..BlockCount(Len(c), blockSize)
        /\ c \in Seq(Nat) /\ blockSize \in Nat \ {0}
    BY SMTT(30), <1>1, <1>2, RuntimeAssumption DEF TypeOK
  <2> HIDE DEF F
  <2> QED BY ZenonT(40), <2>1, PositionsCover DEF HostBlocks
<1> HIDE DEF F, N, blocks
<1>7. \A i, j \in F : blocks[i] = blocks[j] => i = j
  <2>1. ASSUME NEW i \in F, NEW j \in F, blocks[i] = blocks[j], i < j PROVE FALSE
    <3> DEFINE h == blocks[j]
    <3>1. i \in Nat /\ j \in Nat
      BY SMTT(30), <1>2
    <3>2. Count(blocks, i, h) < Count(blocks, j, h) /\ Count(blocks, j, h) \in Nat
      BY ZenonT(40), <2>1, <3>1, CountStrict, CountType
    <3>3. arena[h] = Count(blocks, i, h) /\ arena[h] = Count(blocks, j, h)
      BY SMTT(30), <1>3, <2>1
    <3> QED BY SMTT(30), <3>2, <3>3
  <2>2. \A i \in F : i \in Nat
    BY SMTT(30), <1>2
  <2>3. \A i, j \in F : i < j \/ j < i \/ i = j
    BY SMTT(30), <2>2
  <2> QED BY ZenonT(40), <2>1, <2>3
<1>8. N \subseteq Held
  <2> SUFFICES ASSUME NEW i \in F PROVE blocks[i] \in Held
    BY SMTT(30), <1>4
  <2>0. i \in 1..Len(blocks)
    BY SMTT(30), <1>2
  <2>1. i \in Nat /\ i \in 1..i /\ blocks[i] \in Block
    BY SMTT(30), <1>1, <2>0
  <2> DEFINE h == blocks[i]
  <2>2. Count(blocks, i, h) > 0
    BY SMTT(30), <2>1, CountPositive
  <2>3. arena[h] > 0
    BY SMTT(30), <1>3, <2>2
  <2> QED BY SMTT(30), <2>1, <2>3 DEF Held
<1>9. FreedBytes(c, m) = Cardinality(Bytes(N))
  BY SMTT(30), <1>5, <1>6, <1>7
<1>10. FreedBytes(c, m) <= used
  <2>1. Bytes(N) \subseteq Bytes(Held)
    BY SMTT(30), <1>8 DEF Bytes
  <2>2. Cardinality(Bytes(N)) <= Cardinality(Bytes(Held)) /\ Cardinality(Bytes(N)) \in Nat
        /\ Cardinality(Bytes(Held)) \in Nat
    BY SMTT(30), <2>1, FS_Subset, FS_CardinalityType DEF Charged
  <2> QED BY SMTT(30), <1>9, <2>2 DEF Charged, TypeOK
<1> QED
  BY SMTT(30), <1>2, <1>6, <1>8, <1>9, <1>10 DEF F, N, blocks

\* Giving the bytes of a host placement back never underflows: every release
\* finishes and gives back exactly the blocks no other placement holds.
LEMMA ChargedRelease ==
  ASSUME TypeOK, Charged, NEW c \in Content,
         \A h \in Block : arena[h] >= Count(HostBlocks(c), Len(HostBlocks(c)), h),
         NEW n \in 0..Len(HostBlocks(c)), NEW ok \in BOOLEAN, Release(c, n, ok)
  PROVE  /\ ok
         /\ Charged'
         /\ \A h \in Block :
              arena'[h] = arena[h] - Count(HostBlocks(c), Len(HostBlocks(c)), h)
<1> DEFINE blocks == HostBlocks(c)
           L == Len(blocks)
           F == Freed(blocks, L)
           N == NamedBy(c, blockSize, F)
<1>1. /\ L \in Nat /\ L = BlockCount(Len(c), blockSize)
      /\ \A i \in 1..L : blocks[i] \in Block /\ arena[blocks[i]] \in Nat
  BY SMTT(30), HostBlocksFacts
<1>2. ok
  <2>1. FreedBytes(c, n) <= used /\ FreedBytes(c, n) \in Nat /\ used \in Nat
    BY SMTT(30), FreedHeld, FreedBytesType DEF TypeOK
  <2> QED BY SMTT(30), <2>1 DEF Release
<1>3. /\ n = L /\ used' = used - FreedBytes(c, L)
      /\ arena' = [h \in Block |->
                     IF arena[h] > Count(blocks, L, h) THEN arena[h] - Count(blocks, L, h) ELSE 0]
  BY SMTT(30), <1>2 DEF Release
<1>4. \A h \in Block : /\ arena[h] \in Nat /\ Count(blocks, L, h) \in Nat
                       /\ arena[h] >= Count(blocks, L, h)
  <2> HIDE DEF L
  <2>1. \A h \in Block : Count(blocks, L, h) \in Nat
    BY ZenonT(40), <1>1, CountType
  <2> QED BY SMTT(30), <2>1 DEF TypeOK, L
<1>5. \A h \in Block : arena'[h] = arena[h] - Count(blocks, L, h)
  <2> HIDE DEF L, blocks
  <2> QED BY SMTT(30), <1>3, <1>4
<1>6. /\ N \subseteq Held /\ IsFiniteSet(Bytes(N)) /\ F \subseteq 1..L
      /\ FreedBytes(c, L) = Cardinality(Bytes(N))
  <2>1. L \in 0..Len(blocks)
    BY SMTT(30), <1>1
  <2> QED BY SMTT(30), <2>1, FreedHeld
<1>7. N = {blocks[i] : i \in F} /\ \A i \in F : arena[blocks[i]] = Count(blocks, i, blocks[i])
  BY SMTT(30) DEF NamedBy, HostBlocks, Freed
<1>8. \A i \in 1..L : arena[blocks[i]] = Count(blocks, i, blocks[i]) => i \in F
  BY SMTT(30) DEF Freed
<1> HIDE DEF F, N, L, blocks
<1>9. \A h \in Held : h \in N <=> arena[h] = Count(blocks, L, h)
  <2> TAKE h \in Held
  <2>0. h \in Block /\ arena[h] > 0
    BY SMTT(30) DEF Held
  <2>1. ASSUME h \in N PROVE arena[h] = Count(blocks, L, h)
    <3>1. PICK i \in F : h = blocks[i] /\ arena[h] = Count(blocks, i, h)
      BY SMTT(30), <1>7, <2>1
    <3>2. i \in Nat /\ i <= L
      BY SMTT(30), <1>1, <1>6
    <3>3. Count(blocks, i, h) <= Count(blocks, L, h)
      BY SMTT(30), <1>1, <3>2, CountMonotone
    <3> QED BY SMTT(30), <1>4, <2>0, <3>1, <3>3
  <2>2. ASSUME arena[h] = Count(blocks, L, h) PROVE h \in N
    <3>1. PICK i \in 1..L : blocks[i] = h /\ Count(blocks, i, h) = Count(blocks, L, h)
      BY ZenonT(40), <1>1, <2>0, <2>2, LastOccurrence
    <3>2. i \in F
      BY SMTT(30), <1>8, <2>2, <3>1
    <3> QED BY SMTT(30), <1>7, <3>1, <3>2
  <2> QED BY SMTT(30), <2>1, <2>2
<1>10. Held' = Held \ N
  <2>1. \A h \in Block : arena'[h] > 0 <=> arena[h] > 0 /\ ~(arena[h] = Count(blocks, L, h))
    BY SMTT(30), <1>4, <1>5
  <2> QED BY SMTT(30), <1>9, <2>1 DEF Held
<1>11. Held = Held' \cup N /\ Held' \cap N = {}
  BY SMTT(30), <1>6, <1>10
<1>12. IsFiniteSet(Bytes(Held'))
  <2>1. Bytes(Held') \subseteq Bytes(Held)
    BY SMTT(30), <1>10 DEF Bytes
  <2> QED BY SMTT(30), <2>1, FS_Subset DEF Charged
<1>13. Cardinality(Bytes(Held)) = Cardinality(Bytes(Held')) + Cardinality(Bytes(N))
  <2> DEFINE H == Held'
  <2>1. Held = H \cup N /\ H \cap N = {} /\ IsFiniteSet(Bytes(H))
    BY SMTT(30), <1>11, <1>12
  <2> HIDE DEF H
  <2>2. Cardinality(Bytes(H \cup N)) = Cardinality(Bytes(H)) + Cardinality(Bytes(N))
    BY SMTT(30), <1>6, <2>1, BytesSplit
  <2> QED BY SMTT(30), <2>1, <2>2 DEF H
<1>14. /\ Cardinality(Bytes(Held)) \in Nat /\ Cardinality(Bytes(Held')) \in Nat
       /\ Cardinality(Bytes(N)) \in Nat /\ used \in Nat
       /\ used' = used - Cardinality(Bytes(N))
  BY SMTT(30), <1>3, <1>6, <1>12, FS_CardinalityType DEF Charged, TypeOK
<1>15. Cardinality(Bytes(Held')) <= used'
  BY SMTT(30), <1>13, <1>14 DEF Charged
<1>16. Distinct => Cardinality(Bytes(Held')) = used'
  BY SMTT(30), <1>13, <1>14 DEF Charged
<1>17. Bytes(Held)' = Bytes(Held') /\ Distinct' = Distinct
  BY SMTT(30) DEF Bytes, Distinct
<1>18. Charged'
  BY SMTT(30), <1>12, <1>15, <1>16, <1>17 DEF Charged
<1> QED
  BY SMTT(30), <1>2, <1>5, <1>18 DEF L, blocks

-----------------------------------------------------------------------------
(* What the accounts say *)

\* No registration has found too little room: no thread is about to make some.
NoPressure == \A t \in Thread : pending[t] = Absent

RefsExact == \A h \in Block : arena[h] = Cardinality(HostUses(h))

Holders(t) == {o \in Oid : Has(o, t)}

PayloadBytes == [o \in Oid |-> DOMAIN entries[o].payload]

AllocExact == \A b \in Backend : allocated[b] = Cardinality(Pairs(Holders(b), PayloadBytes))

CountExact == objectCount = Cardinality(Registered)

Deleting(o) == section # Absent /\ section.op = "delete" /\ section.oid = o

\* delete has not yet dealt with any tier its object is still in.
DeletePending ==
  \A o \in Oid : Deleting(o) =>
    entries[o] # Absent /\ Range(entries[o].placements) \subseteq Range(section.todo)

\* A durable object that is not being deleted is in the persistent tier.
DurablePlaced ==
  \A o \in Oid : entries[o] # Absent /\ entries[o].durable /\ ~Deleting(o) => Has(o, Persistent)

Exact == Charged /\ RefsExact /\ AllocExact /\ CountExact /\ DeletePending /\ DurablePlaced

\* What recovery makes of a manifest.
LEMMA RecoveredEntry ==
  ASSUME NEW m \in Manifest, m # Absent
  PROVE  /\ Recovered(m) \in Entry
         /\ Recovered(m).payload = m.payload
         /\ Recovered(m).placements = <<Persistent>>
<1> DEFINE r == [payload |-> m.payload, chunked |-> m.chunked, placements |-> <<Persistent>>,
                 durable |-> TRUE]
<1>1. Recovered(m) = r
  BY SMTT(30) DEF Recovered
<1>2. m.payload \in Content /\ m.chunked \in BlockSizes /\ <<Persistent>> \in Seq(Tier)
  BY SMTT(30) DEF Manifest, Tier
<1> QED
  BY SMTT(30), <1>1, <1>2 DEF Entry

\* The entry a registration inserts.
LEMMA InsertedEntry ==
  ASSUME NEW c \in Content, NEW s \in BlockSizes, NEW r,
         r = [payload |-> c, chunked |-> s, placements |-> <<Host>>, durable |-> FALSE]
  PROVE  r \in Entry /\ r.payload = c /\ r.placements = <<Host>> /\ ~r.durable
<1>1. <<Host>> \in Seq(Tier)
  BY SMTT(30) DEF Tier
<1> QED
  BY SMTT(30), <1>1 DEF Entry

-----------------------------------------------------------------------------
(* How a step moves one object between tiers *)

\* The step puts object o into the tiers of A and takes it out of those of R.
Moved(o, A, R) ==
  /\ entries' \in [Oid -> Entry \cup {Absent}]
  /\ Registered' = Registered
  /\ \A p \in Oid : p # o => entries'[p] = entries[p]
  /\ entries[o] # Absent /\ entries'[o] # Absent
  /\ entries'[o].payload = entries[o].payload
  /\ Range(entries'[o].placements) = (Range(entries[o].placements) \cup A) \ R

\* The step keeps the payload of every object that it does not delete.
PayloadsKept ==
  \A o \in Oid : entries[o] # Absent =>
    \/ entries'[o] # Absent /\ entries'[o].payload = entries[o].payload
    \/ entries'[o] = Absent /\ manifest'[o] = Absent

\* A move keeps every payload.
LEMMA MovedKeeps ==
  ASSUME NEW o \in Oid, NEW A, NEW R, Moved(o, A, R)
  PROVE  PayloadsKept
BY SMTT(30) DEF Moved, PayloadsKept

\* remove_placement
LEMMA MovedOut ==
  ASSUME IInv, NEW o \in Oid, NEW t \in Tier, Has(o, t),
         entries' = [entries EXCEPT ![o].placements = Without(@, t)]
  PROVE  Moved(o, {}, {t}) /\ entries'[o].durable = entries[o].durable
<1> DEFINE p0 == entries[o].placements
           q == Without(p0, t)
<1>1. entries[o] # Absent /\ t \in Range(p0)
  BY SMTT(30) DEF Has
<1>2. p0 \in Seq(Tier) /\ IsInjective(p0) /\ entries[o] \in Entry
  BY SMTT(30), <1>1, EntryFacts DEF IInv, Shape
<1>3. q \in Seq(Tier) /\ IsInjective(q) /\ Range(q) = Range(p0) \ {t}
  BY SMTT(30), <1>1, <1>2, WithoutTier
<1>4. entries' = [entries EXCEPT ![o].placements = q]
  BY SMTT(30)
<1>5. entries'[o].durable = entries[o].durable
  BY SMTT(30), <1>1, <1>2, <1>4 DEF IInv, Shape, TypeOK, Entry
<1> HIDE DEF q
<1>6. /\ entries' \in [Oid -> Entry \cup {Absent}]
      /\ Registered' = Registered
      /\ entries'[o] # Absent
      /\ entries'[o].payload = entries[o].payload
      /\ entries'[o].placements = q
      /\ \A p \in Oid : p # o => entries'[p] = entries[p]
  BY ZenonT(40), <1>1, <1>3, <1>4, PlacementsSet DEF IInv, Shape
<1>7. Range(q) = (Range(p0) \cup {}) \ {t}
  BY SMTT(30), <1>3
<1> QED
  BY ZenonT(40), <1>1, <1>5, <1>6, <1>7 DEF Moved

\* add_placement
LEMMA MovedIn ==
  ASSUME IInv, NEW o \in Oid, NEW t \in Tier, entries[o] # Absent, ~Has(o, t),
         entries' = [entries EXCEPT ![o].placements = Pushed(o, t)]
  PROVE  Moved(o, {t}, {}) /\ entries'[o].durable = entries[o].durable
<1> DEFINE p0 == entries[o].placements
           q == Append(p0, t)
<1>1. p0 \in Seq(Tier) /\ IsInjective(p0) /\ t \notin Range(p0) /\ entries[o] \in Entry
  BY SMTT(30), EntryFacts DEF IInv, Shape, Has
<1>2. q \in Seq(Tier) /\ IsInjective(q) /\ Range(q) = Range(p0) \cup {t}
  BY SMTT(30), <1>1, AppendTier
<1>3. entries' = [entries EXCEPT ![o].placements = q]
  BY SMTT(30) DEF Pushed
<1> HIDE DEF q
<1>4. entries'[o].durable = entries[o].durable
  BY SMTT(30), <1>1, <1>3 DEF IInv, Shape, TypeOK, Entry
<1>5. /\ entries' \in [Oid -> Entry \cup {Absent}]
      /\ Registered' = Registered
      /\ entries'[o] # Absent
      /\ entries'[o].payload = entries[o].payload
      /\ entries'[o].placements = q
      /\ \A p \in Oid : p # o => entries'[p] = entries[p]
  BY ZenonT(40), <1>2, <1>3, PlacementsSet DEF IInv, Shape
<1>6. Range(q) = (Range(p0) \cup {t}) \ {}
  BY SMTT(30), <1>2
<1> QED
  BY ZenonT(40), <1>4, <1>5, <1>6 DEF Moved

\* add_placement of one tier, then remove_placement of another
LEMMA MovedOver ==
  ASSUME IInv, NEW o \in Oid, NEW t \in Tier, NEW u \in Tier, Has(o, u), ~Has(o, t),
         entries' = [entries EXCEPT ![o].placements = Without(Pushed(o, t), u)]
  PROVE  Moved(o, {t}, {u}) /\ entries'[o].durable = entries[o].durable
<1> DEFINE p0 == entries[o].placements
           q == Without(Append(p0, t), u)
<1>1. /\ p0 \in Seq(Tier) /\ IsInjective(p0) /\ t \notin Range(p0) /\ u \in Range(p0)
      /\ entries[o] # Absent /\ entries[o] \in Entry
  BY SMTT(30), EntryFacts DEF IInv, Shape, Has
<1>2. q \in Seq(Tier) /\ IsInjective(q) /\ Range(q) = (Range(p0) \cup {t}) \ {u}
  BY SMTT(30), <1>1, MovedTier
<1>3. entries' = [entries EXCEPT ![o].placements = q]
  BY SMTT(30) DEF Pushed
<1> HIDE DEF q
<1>4. entries'[o].durable = entries[o].durable
  BY SMTT(30), <1>1, <1>3 DEF IInv, Shape, TypeOK, Entry
<1>5. /\ entries' \in [Oid -> Entry \cup {Absent}]
      /\ Registered' = Registered
      /\ entries'[o] # Absent
      /\ entries'[o].payload = entries[o].payload
      /\ entries'[o].placements = q
      /\ \A p \in Oid : p # o => entries'[p] = entries[p]
  BY ZenonT(40), <1>1, <1>2, <1>3, PlacementsSet DEF IInv, Shape
<1> QED
  BY ZenonT(40), <1>1, <1>2, <1>4, <1>5 DEF Moved

\* add_placement of the persistent tier, with the durable flag
LEMMA MovedDown ==
  ASSUME IInv, NEW t \in Thread, NEW o \in Oid, NEW d \in BOOLEAN, PromotePersistent(t, o, d)
  PROVE  Moved(o, {Persistent}, {})
<1> DEFINE p0 == entries[o].placements
           q == Append(p0, Persistent)
<1>1. entries[o] # Absent /\ Persistent \in Tier
  BY SMTT(30) DEF PromotePersistent, Materializable, Tier
<1>2. p0 \in Seq(Tier) /\ IsInjective(p0) /\ Persistent \notin Range(p0)
  BY SMTT(30), <1>1, EntryFacts DEF IInv, Shape, Has, PromotePersistent
<1>3. q \in Seq(Tier) /\ IsInjective(q) /\ Range(q) = Range(p0) \cup {Persistent}
  BY SMTT(30), <1>1, <1>2, AppendTier
<1>4. entries' = [entries EXCEPT ![o].placements = q, ![o].durable = d]
  BY SMTT(30) DEF PromotePersistent, Pushed
<1> HIDE DEF q
<1>5. /\ entries' \in [Oid -> Entry \cup {Absent}]
      /\ entries'[o].payload = entries[o].payload
      /\ entries'[o].placements = q
      /\ \A p \in Oid : p # o => entries'[p] = entries[p]
  BY ZenonT(40), <1>1, <1>3, <1>4, DurableSet DEF IInv, Shape
<1>6. entries'[o] # Absent
  <2>1. entries' = [entries EXCEPT ![o] = [entries[o] EXCEPT !.placements = q, !.durable = d]]
    BY ZenonT(40), <1>4 DEF IInv, Shape, TypeOK
  <2>2. [entries[o] EXCEPT !.placements = q, !.durable = d] \in Entry
    BY ZenonT(40), <1>1, <1>3, EntryFacts DEF Entry, IInv, Shape
  <2> QED BY ZenonT(40), <2>1, <2>2, AbsentAssumption DEF IInv, Shape, TypeOK
<1>7. Registered' = Registered
  BY SMTT(30), <1>1, <1>5, <1>6 DEF Registered
<1>8. Range(q) = (Range(p0) \cup {Persistent}) \ {}
  BY SMTT(30), <1>3
<1> QED
  BY ZenonT(40), <1>1, <1>5, <1>6, <1>7, <1>8 DEF Moved

-----------------------------------------------------------------------------
(* What a move does to the accounts *)

\* What a registered object holds is a payload.
LEMMA PayloadTyped ==
  ASSUME TypeOK, NEW o \in Oid, entries[o] # Absent
  PROVE  entries[o].payload \in Content
<1>1. entries[o] \in Entry
  BY ZenonT(40) DEF TypeOK
<1> QED
  BY ONLY <1>1 DEF Entry

\* The objects in a tier after a move.
LEMMA HoldersMoved ==
  ASSUME NEW o \in Oid, NEW A, NEW R, Moved(o, A, R), NEW t
  PROVE  /\ t \in R => Holders(t)' = Holders(t) \ {o}
         /\ t \in A \ R => Holders(t)' = Holders(t) \cup {o}
         /\ t \notin A \cup R => Holders(t)' = Holders(t)
<1>1. \A p \in Oid : p # o => (Has(p, t)' <=> Has(p, t))
  BY SMTT(30) DEF Moved, Has
<1>2. Has(o, t)' <=> (Has(o, t) \/ t \in A) /\ t \notin R
  BY SMTT(30) DEF Moved, Has
<1> QED
  BY SMTT(30), <1>1, <1>2 DEF Holders

\* Each registered object contributes the same finite set to D and to E.
Agree(D, E) == \A p \in Oid : entries[p] # Absent => E[p] = D[p] /\ IsFiniteSet(D[p])

\* The total over the objects in a tier, when each contributes a finite set that
\* depends on its payload only.
LEMMA TotalMoved ==
  ASSUME NEW o \in Oid, NEW A, NEW R, Moved(o, A, R), NEW t, NEW D, NEW E, Agree(D, E)
  PROVE  /\ Cardinality(D[o]) \in Nat /\ Cardinality(Pairs(Holders(t), D)) \in Nat
         /\ t \in R /\ Has(o, t) => Cardinality(Pairs(Holders(t)', E))
              = Cardinality(Pairs(Holders(t), D)) - Cardinality(D[o])
         /\ t \in A \ R /\ ~Has(o, t) => Cardinality(Pairs(Holders(t)', E))
              = Cardinality(Pairs(Holders(t), D)) + Cardinality(D[o])
         /\ t \notin A \cup R => Cardinality(Pairs(Holders(t)', E))
              = Cardinality(Pairs(Holders(t), D))
<1> DEFINE S == Holders(t)
           T == Holders(t)'
<1>1. /\ t \in R => T = S \ {o}
      /\ t \in A \ R => T = S \cup {o}
      /\ t \notin A \cup R => T = S
  BY SMTT(30), HoldersMoved
<1>2. IsFiniteSet(S) /\ \A p \in S : E[p] = D[p] /\ IsFiniteSet(D[p])
  BY SMTT(30), RuntimeAssumption, FS_Subset DEF Holders, Has, Agree
<1>3. E[o] = D[o] /\ IsFiniteSet(D[o])
  BY SMTT(30) DEF Moved, Agree
<1>4. Has(o, t) <=> o \in S
  BY SMTT(30) DEF Holders
<1> HIDE DEF S, T
<1>5. Cardinality(D[o]) \in Nat /\ Cardinality(Pairs(S, D)) \in Nat
  BY SMTT(30), <1>2, <1>3, PairsFinite, FS_CardinalityType
<1>6. ASSUME t \in R, o \in S
      PROVE  Cardinality(Pairs(T, E)) = Cardinality(Pairs(S, D)) - Cardinality(D[o])
  <2>1. Cardinality(Pairs(S, D)) = Cardinality(Pairs(S \ {o}, E)) + Cardinality(D[o])
    BY SMTT(30), <1>2, <1>6, PairsLose
  <2>2. IsFiniteSet(S \ {o}) /\ \A p \in S \ {o} : IsFiniteSet(E[p])
    BY SMTT(30), <1>2, FS_Subset
  <2>3. Cardinality(Pairs(S \ {o}, E)) \in Nat
    BY SMTT(30), <2>2, PairsFinite
  <2>4. T = S \ {o}
    BY SMTT(30), <1>1, <1>6
  <2> QED BY SMTT(30), <1>5, <2>1, <2>3, <2>4
<1>7. ASSUME t \in A \ R, o \notin S
      PROVE  Cardinality(Pairs(T, E)) = Cardinality(Pairs(S, D)) + Cardinality(D[o])
  <2>1. T = S \cup {o}
    BY SMTT(30), <1>1, <1>7
  <2>2. Cardinality(Pairs(S \cup {o}, E)) = Cardinality(Pairs(S, D)) + Cardinality(E[o])
    <3>1. IsFiniteSet(E[o]) /\ \A p \in S : E[p] = D[p]
      BY SMTT(30), <1>2, <1>3
    <3>2. \A p \in S : IsFiniteSet(D[p])
      BY SMTT(30), <1>2
    <3>3. IsFiniteSet(S) /\ o \notin S
      BY SMTT(30), <1>2, <1>7
    <3> QED BY ONLY SMTT(30), <3>1, <3>2, <3>3, PairsGain
  <2> QED BY SMTT(30), <1>3, <2>1, <2>2
<1>8. ASSUME t \notin A \cup R PROVE Pairs(T, E) = Pairs(S, D)
  BY SMTT(30), <1>1, <1>2, <1>8 DEF Pairs
<1> QED
  BY SMTT(30), <1>4, <1>5, <1>6, <1>7, <1>8 DEF S, T

\* The total when the object leaves a tier it is in, enters one it is not in, and
\* when the tier is none of those.
LEMMA TotalLost ==
  ASSUME NEW o \in Oid, NEW A, NEW R, Moved(o, A, R), NEW t, NEW D, NEW E, Agree(D, E),
         t \in R, Has(o, t)
  PROVE  Cardinality(Pairs(Holders(t)', E)) = Cardinality(Pairs(Holders(t), D)) - Cardinality(D[o])
BY ONLY SMTT(30), TotalMoved, o \in Oid, Moved(o, A, R), Agree(D, E), t \in R, Has(o, t)

LEMMA TotalGained ==
  ASSUME NEW o \in Oid, NEW A, NEW R, Moved(o, A, R), NEW t, NEW D, NEW E, Agree(D, E),
         t \in A \ R, ~Has(o, t)
  PROVE  Cardinality(Pairs(Holders(t)', E)) = Cardinality(Pairs(Holders(t), D)) + Cardinality(D[o])
BY ONLY SMTT(30), TotalMoved, o \in Oid, Moved(o, A, R), Agree(D, E), t \in A \ R, ~Has(o, t)

LEMMA TotalKept ==
  ASSUME NEW o \in Oid, NEW A, NEW R, Moved(o, A, R), NEW t, NEW D, NEW E, Agree(D, E),
         t \notin A \cup R
  PROVE  Cardinality(Pairs(Holders(t)', E)) = Cardinality(Pairs(Holders(t), D))
BY ONLY SMTT(30), TotalMoved, o \in Oid, Moved(o, A, R), Agree(D, E), t \notin A \cup R

\* The positions of block h in the payload of each entry of e.
UsesOf(e, s, h) == [o \in Oid |-> Occurrences(e[o].payload, s, h)]

\* The references of the current state as pairs.
LEMMA UsesAsPairs ==
  ASSUME TypeOK, NEW h
  PROVE  HostUses(h) = Pairs(Holders(Host), UsesOf(entries, blockSize, h))
<1>1. HostUses(h) = UsesIn(entries, blockSize, h)
  BY SMTT(30), HostUsesIs
<1> QED
  BY SMTT(30), <1>1 DEF UsesIn, Pairs, Holders, UsesOf, Has, InHost

\* A block occurs finitely often in a payload that is held.
LEMMA HeldUsesFinite ==
  ASSUME TypeOK, OnePlacementPerTier, NEW h
  PROVE  \A p \in Holders(Host) : IsFiniteSet(UsesOf(entries, blockSize, h)[p])
<1> SUFFICES ASSUME NEW p \in Holders(Host)
             PROVE  IsFiniteSet(UsesOf(entries, blockSize, h)[p])
  OBVIOUS
<1>1. p \in Oid /\ entries[p] # Absent
  BY ZenonT(40) DEF Holders, Has
<1>2. entries[p].payload \in Content /\ blockSize \in BlockSizes
  BY ZenonT(40), <1>1, EntryFacts DEF TypeOK
<1>3. UsesOf(entries, blockSize, h)[p] = Occurrences(entries[p].payload, blockSize, h)
  BY SMTT(30), <1>1 DEF UsesOf
<1> QED
  BY ZenonT(40), <1>2, <1>3, OccurrencesFinite

\* The references of the next state as pairs.
LEMMA NextUsesAsPairs ==
  ASSUME TypeOK', NEW h
  PROVE  HostUses(h)' = Pairs(Holders(Host)', UsesOf(entries', blockSize', h))
<1>1. HostUses(h)' = UsesIn(entries', blockSize', h)
  BY SMTT(30), NextHostUsesIs
<1> QED
  BY SMTT(30), <1>1 DEF UsesIn, Pairs, Holders, UsesOf, Has, InHost

\* A move changes the references to each block by what the object's own host
\* placement holds.
LEMMA UsesMoved ==
  ASSUME TypeOK, TypeOK', NEW o \in Oid, NEW A, NEW R, Moved(o, A, R),
         blockSize' = blockSize, NEW h \in Block
  PROVE  LET k == Count(HostBlocks(entries[o].payload),
                        Len(HostBlocks(entries[o].payload)), h)
         IN  /\ k \in Nat /\ Cardinality(HostUses(h)) \in Nat
             /\ Host \in R /\ Has(o, Host) =>
                  Cardinality(HostUses(h)') = Cardinality(HostUses(h)) - k
             /\ Host \in A \ R /\ ~Has(o, Host) =>
                  Cardinality(HostUses(h)') = Cardinality(HostUses(h)) + k
             /\ Host \notin A \cup R =>
                  Cardinality(HostUses(h)') = Cardinality(HostUses(h))
<1> DEFINE D == UsesOf(entries, blockSize, h)
           E == UsesOf(entries', blockSize, h)
           c == entries[o].payload
<1>1. \A p \in Oid : entries[p] # Absent => entries[p].payload \in Content
  BY ZenonT(40), PayloadTyped
<1>2. \A p \in Oid : entries[p] # Absent => entries'[p].payload = entries[p].payload
  BY SMTT(30) DEF Moved
<1>3. \A p \in Oid : entries[p] # Absent => IsFiniteSet(D[p])
  BY SMTT(30), <1>1, OccurrencesFinite DEF UsesOf, TypeOK
<1>4. \A p \in Oid : entries[p] # Absent => E[p] = D[p]
  BY SMTT(30), <1>2 DEF UsesOf
<1>5. /\ Cardinality(D[o]) = Count(HostBlocks(c), Len(HostBlocks(c)), h)
      /\ Cardinality(D[o]) \in Nat
  <2>1. c \in Content /\ blockSize \in BlockSizes
    BY SMTT(30), <1>1 DEF Moved, TypeOK
  <2> QED BY SMTT(30), <2>1, OccurrencesFinite DEF UsesOf, HostBlocks
<1>6. /\ HostUses(h) = Pairs(Holders(Host), D)
      /\ HostUses(h)' = Pairs(Holders(Host)', E)
  BY ZenonT(40), UsesAsPairs, NextUsesAsPairs
<1> HIDE DEF D, E, c
<1>7. /\ Cardinality(Pairs(Holders(Host), D)) \in Nat
      /\ Host \in R /\ Has(o, Host) => Cardinality(Pairs(Holders(Host)', E))
           = Cardinality(Pairs(Holders(Host), D)) - Cardinality(D[o])
      /\ Host \in A \ R /\ ~Has(o, Host) => Cardinality(Pairs(Holders(Host)', E))
           = Cardinality(Pairs(Holders(Host), D)) + Cardinality(D[o])
      /\ Host \notin A \cup R => Cardinality(Pairs(Holders(Host)', E))
           = Cardinality(Pairs(Holders(Host), D))
  <2>1. Agree(D, E)
    BY ZenonT(40), <1>3, <1>4 DEF Agree
  <2>2. Cardinality(Pairs(Holders(Host), D)) \in Nat
    BY ZenonT(40), <2>1, TotalMoved
  <2>3. ASSUME Host \in R, Has(o, Host)
        PROVE  Cardinality(Pairs(Holders(Host)', E))
                 = Cardinality(Pairs(Holders(Host), D)) - Cardinality(D[o])
    BY ONLY SMTT(30), <2>1, <2>3, TotalLost, o \in Oid, Moved(o, A, R)
  <2>4. ASSUME Host \in A \ R, ~Has(o, Host)
        PROVE  Cardinality(Pairs(Holders(Host)', E))
                 = Cardinality(Pairs(Holders(Host), D)) + Cardinality(D[o])
    BY ONLY SMTT(30), <2>1, <2>4, TotalGained, o \in Oid, Moved(o, A, R)
  <2>5. ASSUME Host \notin A \cup R
        PROVE  Cardinality(Pairs(Holders(Host)', E)) = Cardinality(Pairs(Holders(Host), D))
    BY ONLY SMTT(30), <2>1, <2>5, TotalKept, o \in Oid, Moved(o, A, R)
  <2> QED BY ZenonT(40), <2>2, <2>3, <2>4, <2>5
<1> QED
  BY ZenonT(40), <1>5, <1>6, <1>7 DEF c

\* The length of a payload is the number of its byte positions.
LEMMA PayloadSize ==
  ASSUME TypeOK, NEW o \in Oid, entries[o] # Absent
  PROVE  /\ IsFiniteSet(DOMAIN entries[o].payload)
         /\ Cardinality(DOMAIN entries[o].payload) = Len(entries[o].payload)
         /\ Len(entries[o].payload) \in Nat
<1> DEFINE n == Len(entries[o].payload)
<1>1. entries[o].payload \in Seq(Nat)
  BY SMTT(30), RuntimeAssumption DEF TypeOK, Entry
<1>2. n \in Nat /\ DOMAIN entries[o].payload = 1..n
  BY SMTT(30), <1>1
<1> HIDE DEF n
<1>3. IsFiniteSet(1..n) /\ Cardinality(1..n) = n
  BY SMTT(30), <1>2, FS_Interval
<1> QED
  BY ZenonT(40), <1>2, <1>3 DEF n

\* A move keeps the backends' books when each backend is charged for the payload
\* it receives and credited for the one it gives up.
LEMMA AllocMoved ==
  ASSUME TypeOK, AllocExact, NEW o \in Oid, NEW A, NEW R, Moved(o, A, R), A \cap R = {},
         \A b \in Backend :
           /\ b \in R => Has(o, b) /\ allocated'[b] = allocated[b] - Len(entries[o].payload)
           /\ b \in A => ~Has(o, b) /\ allocated'[b] = allocated[b] + Len(entries[o].payload)
           /\ b \notin A \cup R => allocated'[b] = allocated[b]
  PROVE  AllocExact'
<1> SUFFICES ASSUME NEW b \in Backend
             PROVE  allocated'[b] = Cardinality(Pairs(Holders(b)', PayloadBytes'))
  BY SMTT(30) DEF AllocExact, Pairs
<1> DEFINE D == PayloadBytes
           E == PayloadBytes'
<1>1. \A p \in Oid : entries[p] # Absent => IsFiniteSet(D[p])
  BY SMTT(30), PayloadSize DEF PayloadBytes
<1>2. \A p \in Oid : entries[p] # Absent => entries'[p].payload = entries[p].payload
  BY SMTT(30) DEF Moved
<1>3. \A p \in Oid : entries[p] # Absent => E[p] = D[p]
  BY SMTT(30), <1>2 DEF PayloadBytes
<1>4. Cardinality(D[o]) = Len(entries[o].payload)
  BY SMTT(30), PayloadSize DEF PayloadBytes, Moved
<1>5. allocated[b] = Cardinality(Pairs(Holders(b), D))
  BY SMTT(30) DEF AllocExact
<1> HIDE DEF D, E
<1>6. Agree(D, E)
  BY ZenonT(40), <1>1, <1>3 DEF Agree
<1>7. CASE b \in R
  <2>1. Has(o, b) /\ allocated'[b] = allocated[b] - Len(entries[o].payload)
    BY ZenonT(40), <1>7
  <2>2. Cardinality(Pairs(Holders(b)', E)) = Cardinality(Pairs(Holders(b), D)) - Cardinality(D[o])
    BY ONLY SMTT(30), <1>6, <1>7, <2>1, TotalLost, o \in Oid, Moved(o, A, R)
  <2> QED BY ZenonT(40), <1>4, <1>5, <2>1, <2>2 DEF E
<1>8. CASE b \in A
  <2>1. ~Has(o, b) /\ allocated'[b] = allocated[b] + Len(entries[o].payload)
    BY ZenonT(40), <1>8
  <2>2. b \in A \ R
    BY ZenonT(40), <1>8
  <2>3. Cardinality(Pairs(Holders(b)', E)) = Cardinality(Pairs(Holders(b), D)) + Cardinality(D[o])
    BY ONLY SMTT(30), <1>6, <2>1, <2>2, TotalGained, o \in Oid, Moved(o, A, R)
  <2> QED BY ZenonT(40), <1>4, <1>5, <2>1, <2>3 DEF E
<1>9. CASE b \notin A \cup R
  <2>1. Cardinality(Pairs(Holders(b)', E)) = Cardinality(Pairs(Holders(b), D))
    BY ONLY SMTT(30), <1>6, <1>9, TotalKept, o \in Oid, Moved(o, A, R)
  <2>2. allocated'[b] = allocated[b]
    BY ZenonT(40), <1>9
  <2> QED BY ZenonT(40), <1>5, <2>1, <2>2 DEF E
<1> QED
  BY ZenonT(40), <1>7, <1>8, <1>9

\* Moving an object keeps durable objects in the persistent tier.
LEMMA DurableMoved ==
  ASSUME DurablePlaced, NEW o \in Oid, NEW A, NEW R, Moved(o, A, R),
         Persistent \in R => Deleting(o)',
         \A p \in Oid : Deleting(p) => Deleting(p)',
         entries'[o].durable => entries[o].durable \/ Persistent \in A \/ Has(o, Persistent)
  PROVE  DurablePlaced'
<1> SUFFICES ASSUME NEW p \in Oid, entries'[p] # Absent, entries'[p].durable, ~Deleting(p)'
             PROVE  Has(p, Persistent)'
  BY SMTT(30) DEF DurablePlaced
<1>1. ~Deleting(p)
  BY SMTT(30)
<1>2. CASE p # o
  BY SMTT(30), <1>1, <1>2 DEF DurablePlaced, Moved, Has
<1>3. CASE p = o
  <2>1. Has(o, Persistent) \/ Persistent \in A
    BY SMTT(30), <1>1, <1>3 DEF DurablePlaced, Moved
  <2>2. Persistent \notin R
    BY SMTT(30), <1>3
  <2> QED BY SMTT(30), <1>3, <2>1, <2>2 DEF Moved, Has
<1> QED
  BY SMTT(30), <1>2, <1>3

\* A move that leaves the host tier alone keeps the accounts.
LEMMA MoveBelow ==
  ASSUME TypeOK, TypeOK', Exact, NEW o \in Oid, NEW A, NEW R, Moved(o, A, R),
         Host \notin A \cup R, UNCHANGED <<arena, used, objectCount, blockSize>>,
         AllocExact', DeletePending', DurablePlaced'
  PROVE  Exact' /\ PayloadsKept
<1>1. Charged'
  BY SMTT(30) DEF Charged, Held, Bytes, Distinct, Exact
<1>2. RefsExact'
  BY SMTT(30), UsesMoved DEF RefsExact, Exact
<1>3. CountExact'
  BY SMTT(30) DEF CountExact, Moved, Exact
<1> QED
  BY SMTT(30), <1>1, <1>2, <1>3, MovedKeeps DEF Exact

\* A move into the host tier keeps the accounts.
LEMMA MoveUp ==
  ASSUME TypeOK, TypeOK', Exact, NEW o \in Oid, NEW A, NEW R, Moved(o, A, R),
         Host \in A \ R, ~Has(o, Host),
         Acquire(entries[o].payload, NewBytes(entries[o].payload)),
         UNCHANGED <<objectCount, blockSize>>, AllocExact', DeletePending', DurablePlaced'
  PROVE  Exact' /\ PayloadsKept
<1>0. entries[o].payload \in Content
  BY ZenonT(40), PayloadTyped DEF Moved
<1>1. Charged'
  BY SMTT(30), <1>0, ChargedAcquire DEF Exact
<1>2. RefsExact'
  <2> SUFFICES ASSUME NEW h \in Block PROVE arena'[h] = Cardinality(HostUses(h)')
    BY SMTT(30) DEF RefsExact
  <2> DEFINE k == Count(HostBlocks(entries[o].payload), Len(HostBlocks(entries[o].payload)), h)
  <2>1. Cardinality(HostUses(h)') = Cardinality(HostUses(h)) + k
    BY SMTT(30), UsesMoved
  <2>2. arena'[h] = arena[h] + k /\ arena[h] = Cardinality(HostUses(h))
    BY SMTT(30) DEF Acquire, RefsExact, Exact
  <2> QED BY ZenonT(40), <2>1, <2>2
<1>3. CountExact'
  BY SMTT(30) DEF CountExact, Moved, Exact
<1> QED
  BY ZenonT(40), <1>1, <1>2, <1>3, MovedKeeps DEF Exact

\* A move out of the host tier keeps the accounts, and its release cannot fail.
LEMMA MoveDown ==
  ASSUME TypeOK, TypeOK', Exact, NEW o \in Oid, NEW A, NEW R, Moved(o, A, R),
         Host \in R, Has(o, Host),
         NEW n \in 0..Len(HostBlocks(entries[o].payload)), NEW ok \in BOOLEAN,
         Release(entries[o].payload, n, ok), UNCHANGED <<objectCount, blockSize>>
  PROVE  ok /\ Charged' /\ RefsExact' /\ CountExact' /\ PayloadsKept
<1> DEFINE c == entries[o].payload
           k(h) == Count(HostBlocks(c), Len(HostBlocks(c)), h)
<1>0. c \in Content
  BY ZenonT(40), PayloadTyped DEF Moved
<1>1. \A h \in Block : /\ k(h) \in Nat /\ Cardinality(HostUses(h)) \in Nat
                       /\ Cardinality(HostUses(h)') = Cardinality(HostUses(h)) - k(h)
                       /\ Cardinality(HostUses(h)') \in Nat
  <2> TAKE h \in Block
  <2>1. /\ k(h) \in Nat /\ Cardinality(HostUses(h)) \in Nat
        /\ Cardinality(HostUses(h)') = Cardinality(HostUses(h)) - k(h)
    BY SMTT(30), UsesMoved
  <2>2. HostUses(h)' = UsesIn(entries', blockSize', h)
    BY SMTT(30), NextHostUsesIs
  <2>3. Cardinality(HostUses(h)') \in Nat
    BY ZenonT(40), <2>2, UsesFinite DEF TypeOK, EntryMap
  <2> QED BY SMTT(30), <2>1, <2>3
<1>2. \A h \in Block : arena[h] = Cardinality(HostUses(h))
  BY SMTT(30) DEF RefsExact, Exact
<1>3. \A h \in Block : arena[h] >= k(h)
  <2> HIDE DEF k
  <2> QED BY SMTT(30), <1>1, <1>2
<1>4. ok /\ Charged' /\ \A h \in Block : arena'[h] = arena[h] - k(h)
  BY SMTT(30), <1>0, <1>3, ChargedRelease DEF Exact
<1>5. RefsExact'
  <2> HIDE DEF k
  <2> QED BY SMTT(30), <1>1, <1>2, <1>4 DEF RefsExact
<1>6. CountExact'
  BY DEF CountExact, Moved, Exact
<1> QED
  BY ZenonT(40), <1>4, <1>5, <1>6, MovedKeeps
=============================================================================
