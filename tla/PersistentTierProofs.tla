----------------------- MODULE PersistentTierProofs -----------------------
(***************************************************************************)
(* Safety of the persistent tier for every set of objects, blocks and block *)
(* lists and every capacity, with file operations that fail, entries that   *)
(* are replaced, and a restart after any step.                              *)
(***************************************************************************)
EXTENDS PersistentTier, FiniteSetTheorems, TLAPS

-----------------------------------------------------------------------------
(* The inductive invariant *)

\* A call works on an entry that is not (or no longer) listed as persistent,
\* at a position of its block list; it commits only after the last block.
OpSound ==
  op # None =>
    /\ entries[op.oid] # None
    /\ ~entries[op.oid].persistent
    /\ op.next \in 1..(Len(BlocksOf(op.oid)) + 1)
    /\ op.stage \in {"temp", "unlink", "rename"} => ~MoreBlocks
    /\ op.stage = "name" => MoreBlocks /\ refs[Current] = 0

\* The manifest of a persistent object names its payload.
ManifestsMatch == \A o \in Oid : Persistent(o) => manifests[o] = BlocksOf(o)

IInv == TypeOK /\ OpSound /\ RefsCover /\ FilesBacked /\ ManifestsMatch

-----------------------------------------------------------------------------
(* References *)

\* A payload is a finite list of blocks.
LEMMA PayloadFacts ==
  ASSUME NEW p \in Payload
  PROVE  /\ Len(p) \in Nat /\ DOMAIN p = 1..Len(p)
         /\ \A i \in DOMAIN p : p[i] \in Block
         /\ Range(p) \subseteq Block
<1>1. p \in Seq(Block)
  BY StoreAssumption
<1>2. Len(p) \in Nat /\ DOMAIN p = 1..Len(p) /\ \A i \in DOMAIN p : p[i] \in Block
  BY <1>1
<1> QED
  BY <1>2 DEF Range

\* The entry of an object under the type invariant.
LEMMA EntryFacts ==
  ASSUME TypeOK, NEW o \in Oid, entries[o] # None
  PROVE  /\ entries[o] \in Entry
         /\ BlocksOf(o) \in Payload
         /\ entries[o].live \in BOOLEAN /\ entries[o].persistent \in BOOLEAN
BY DEF TypeOK, Entry, BlocksOf

\* Positions are pinned inside the block list.
LEMMA PinnedRange ==
  ASSUME TypeOK, OpSound, NEW o \in Oid, NEW i \in Pinned(o)
  PROVE  /\ entries[o] # None
         /\ BlocksOf(o) \in Payload
         /\ i \in 1..Len(BlocksOf(o))
         /\ BlocksOf(o)[i] \in Block
<1>1. entries[o] # None
  BY DEF Pinned
<1>2. BlocksOf(o) \in Payload
  BY <1>1, EntryFacts
<1>3. Len(BlocksOf(o)) \in Nat /\ DOMAIN BlocksOf(o) = 1..Len(BlocksOf(o))
  BY <1>2, PayloadFacts
<1>4. i \in 1..Len(BlocksOf(o))
  <2>1. CASE entries[o].persistent
    BY <1>1, <1>3, <2>1 DEF Pinned
  <2>2. CASE ~entries[o].persistent
    <3>1. op # None /\ op.oid = o
      BY <1>1, <2>2 DEF Pinned
    <3>2. op.next \in 1..(Len(BlocksOf(o)) + 1)
      BY <3>1 DEF OpSound
    <3>3. i \in op.next..Len(BlocksOf(o)) \/ i \in 1..(op.next - 1)
      BY <1>1, <2>2, <3>1 DEF Pinned
    <3> QED
      BY <1>3, <3>2, <3>3
  <2> QED
    BY <2>1, <2>2
<1> QED
  BY <1>1, <1>2, <1>4, PayloadFacts

\* What it means to hold a reference.
LEMMA ReferenceIs ==
  ASSUME NEW b, NEW x
  PROVE  x \in References(b) <=>
           \E o \in Oid : \E i \in Pinned(o) : x = <<o, i>> /\ BlocksOf(o)[i] = b
BY DEF References

\* Finitely many references are held.
LEMMA ReferencesFinite ==
  ASSUME TypeOK, OpSound, NEW b
  PROVE  IsFiniteSet(References(b)) /\ Cardinality(References(b)) \in Nat
<1> DEFINE f == [o \in Oid |-> {o} \X {i \in Pinned(o) : BlocksOf(o)[i] = b}]
           T == {f[o] : o \in Oid}
<1>1. f \in Surjection(Oid, T)
  BY Zenon DEF Surjection
<1>2. IsFiniteSet(T)
  <2> HIDE DEF f, T
  <2> QED BY <1>1, StoreAssumption, FS_Surjection
<1>3. \A o \in Oid : IsFiniteSet(f[o])
  <2> TAKE o \in Oid
  <2> DEFINE J == {i \in Pinned(o) : BlocksOf(o)[i] = b}
  <2>1. J \subseteq 1..Len(BlocksOf(o))
    BY PinnedRange
  <2>2. IsFiniteSet(J)
    <3>1. CASE J = {}
      BY <3>1, FS_EmptySet
    <3>2. CASE J # {}
      <4>1. PICK i \in Pinned(o) : TRUE
        BY <3>2
      <4>2. Len(BlocksOf(o)) \in Nat
        BY <4>1, PinnedRange, PayloadFacts
      <4>3. IsFiniteSet(1..Len(BlocksOf(o)))
        BY <4>2, FS_Interval
      <4> QED
        BY <2>1, <4>3, FS_Subset
    <3> QED
      BY <3>1, <3>2
  <2>3. IsFiniteSet({o})
    BY Zenon, FS_Singleton
  <2> HIDE DEF J
  <2>4. IsFiniteSet({o} \X J)
    BY <2>2, <2>3, FS_Product
  <2> QED
    BY <2>4 DEF J
<1>4. \A t \in T : IsFiniteSet(t)
  BY <1>3
<1>5. IsFiniteSet(UNION T)
  <2> HIDE DEF T
  <2> QED BY <1>2, <1>4, FS_UNION
<1>6. References(b) = UNION T
  BY DEF References
<1> QED
  BY <1>5, <1>6, FS_CardinalityType

\* A persistent object's blocks are all on disk.
LEMMA PersistentOnDisk ==
  ASSUME TypeOK, OpSound, RefsCover, FilesBacked, NEW o \in Oid, Persistent(o)
  PROVE  BlocksExist(BlocksOf(o))
<1>1. entries[o] # None /\ Pinned(o) = DOMAIN BlocksOf(o)
  BY DEF Persistent, Pinned
<1>2. BlocksOf(o) \in Payload
  BY <1>1, EntryFacts
<1> SUFFICES ASSUME NEW i \in DOMAIN BlocksOf(o)
             PROVE  BlocksOf(o)[i] \in files
  BY DEF BlocksExist, Range
<1> DEFINE b == BlocksOf(o)[i]
<1>3. b \in Block
  BY <1>2, PayloadFacts
<1>4. <<o, i>> \in References(b)
  BY <1>1, ReferenceIs
<1>5. IsFiniteSet(References(b)) /\ Cardinality(References(b)) \in Nat
  BY ReferencesFinite
<1>6. Cardinality(References(b)) # 0
  <2> HIDE DEF b
  <2> QED BY <1>4, <1>5, FS_EmptySet
<1>7. refs[b] \in Nat
  BY <1>3 DEF TypeOK
<1> HIDE DEF b
<1>8. refs[b] > 0
  BY <1>3, <1>5, <1>6, <1>7 DEF RefsCover
<1> QED
  BY <1>3, <1>8 DEF FilesBacked, b

-----------------------------------------------------------------------------
(* How a step changes the references *)

\* A step that pins no new position and lowers no count keeps the cover.
LEMMA CoverKept ==
  ASSUME IInv, refs' \in [Block -> Nat],
         \A b \in Block : refs[b] <= refs'[b],
         \A o \in Oid : \A i \in Pinned(o)' :
           i \in Pinned(o) /\ BlocksOf(o)'[i] = BlocksOf(o)[i]
  PROVE  RefsCover'
<1> SUFFICES ASSUME NEW b \in Block
             PROVE  Cardinality(References(b)') <= refs'[b]
  BY DEF RefsCover
<1>1. References(b)' \subseteq References(b)
  BY DEF References
<1>2. IsFiniteSet(References(b)) /\ Cardinality(References(b)) \in Nat
  BY ReferencesFinite DEF IInv
<1>3. Cardinality(References(b)') \in Nat /\ Cardinality(References(b)') <= Cardinality(References(b))
  BY <1>1, <1>2, FS_Subset, FS_CardinalityType
<1>4. Cardinality(References(b)) <= refs[b] /\ refs[b] \in Nat /\ refs'[b] \in Nat
  BY DEF IInv, RefsCover, TypeOK
<1> QED
  BY <1>2, <1>3, <1>4

\* A step of a call that pins the position it is at and counts one reference
\* for its block keeps the cover.
LEMMA CoverGained ==
  ASSUME IInv, op # None, MoreBlocks,
         refs' = [refs EXCEPT ![Current] = @ + 1],
         \A o \in Oid : \A i \in Pinned(o)' :
           /\ BlocksOf(o)'[i] = BlocksOf(o)[i]
           /\ i \in Pinned(o) \/ (o = op.oid /\ i = op.next)
  PROVE  RefsCover'
<1> DEFINE x == <<op.oid, op.next>>
<1> SUFFICES ASSUME NEW b \in Block
             PROVE  Cardinality(References(b)') <= refs'[b]
  BY DEF RefsCover
<1>1. IsFiniteSet(References(b)) /\ Cardinality(References(b)) \in Nat
  BY ReferencesFinite DEF IInv
<1>2. Cardinality(References(b)) <= refs[b] /\ refs[b] \in Nat
  BY DEF IInv, RefsCover, TypeOK
<1>3. CASE b = Current
  <2>1. References(b)' \subseteq References(b) \cup {x}
    BY DEF References
  <2>2. /\ IsFiniteSet(References(b) \cup {x})
        /\ \/ Cardinality(References(b) \cup {x}) = Cardinality(References(b))
           \/ Cardinality(References(b) \cup {x}) = Cardinality(References(b)) + 1
    BY Zenon, <1>1, FS_AddElement
  <2>3. /\ Cardinality(References(b)') \in Nat
        /\ Cardinality(References(b)') <= Cardinality(References(b) \cup {x})
    BY <2>1, <2>2, FS_Subset, FS_CardinalityType
  <2>4. refs'[b] = refs[b] + 1
    BY <1>3 DEF IInv, TypeOK
  <2> HIDE DEF x
  <2> QED
    BY <1>1, <1>2, <2>2, <2>3, <2>4
<1>4. CASE b # Current
  <2>1. References(b)' \subseteq References(b)
    BY <1>4 DEF References, Current
  <2>2. Cardinality(References(b)') \in Nat /\ Cardinality(References(b)') <= Cardinality(References(b))
    BY <1>1, <2>1, FS_Subset, FS_CardinalityType
  <2>3. refs'[b] = refs[b]
    BY <1>4 DEF IInv, TypeOK
  <2> QED
    BY SMTT(30), <1>1, <1>2, <2>2, <2>3
<1> QED
  BY <1>3, <1>4

\* A step of a call that unpins the position it is at may count one reference
\* less for its block.
LEMMA CoverLost ==
  ASSUME IInv, op # None, MoreBlocks,
         op.next \in Pinned(op.oid),
         refs' = [refs EXCEPT ![Current] = IF @ = 0 THEN 0 ELSE @ - 1],
         \A o \in Oid : \A i \in Pinned(o)' :
           /\ BlocksOf(o)'[i] = BlocksOf(o)[i]
           /\ i \in Pinned(o) /\ ~(o = op.oid /\ i = op.next)
  PROVE  /\ RefsCover'
         /\ refs[Current] > 0
<1> DEFINE x == <<op.oid, op.next>>
<1>0. op.oid \in Oid /\ Current \in Block
  <2>1. op.oid \in Oid
    BY DEF IInv, TypeOK, Op
  <2> QED
    BY <2>1, PinnedRange DEF IInv, Current
<1>1. \A b \in Block : /\ IsFiniteSet(References(b)) /\ Cardinality(References(b)) \in Nat
                       /\ Cardinality(References(b)) <= refs[b] /\ refs[b] \in Nat
  BY ReferencesFinite DEF IInv, RefsCover, TypeOK
<1>2. x \in References(Current)
  BY <1>0, ReferenceIs DEF Current
<1>3. Cardinality(References(Current)) # 0
  <2> HIDE DEF x
  <2> QED BY <1>0, <1>1, <1>2, FS_EmptySet
<1>4. refs[Current] > 0
  BY <1>0, <1>1, <1>3
<1>5. ASSUME NEW b \in Block
      PROVE  Cardinality(References(b)') <= refs'[b]
  <2>1. CASE b = Current
    <3>1. References(b)' \subseteq References(b) \ {x}
      BY DEF References
    <3>2. /\ IsFiniteSet(References(b) \ {x})
          /\ Cardinality(References(b) \ {x}) = Cardinality(References(b)) - 1
      BY Zenon, <1>1, <1>2, <2>1, FS_RemoveElement
    <3>3. /\ Cardinality(References(b)') \in Nat
          /\ Cardinality(References(b)') <= Cardinality(References(b) \ {x})
      BY <3>1, <3>2, FS_Subset, FS_CardinalityType
    <3>4. refs'[b] = refs[b] - 1
      BY <1>4, <2>1 DEF IInv, TypeOK
    <3> HIDE DEF x
    <3> QED
      BY <1>1, <3>2, <3>3, <3>4
  <2>2. CASE b # Current
    <3>1. References(b)' \subseteq References(b)
      BY DEF References
    <3>2. /\ Cardinality(References(b)') \in Nat
          /\ Cardinality(References(b)') <= Cardinality(References(b))
      BY SMTT(30), <1>1, <3>1, FS_Subset, FS_CardinalityType
    <3>3. refs'[b] = refs[b]
      BY <2>2 DEF IInv, TypeOK
    <3> QED
      BY <1>1, <3>2, <3>3
  <2> QED
    BY <2>1, <2>2
<1> QED
  BY <1>4, <1>5 DEF RefsCover

-----------------------------------------------------------------------------
(* Every action preserves the invariant *)

\* The object a call is about.
LEMMA OpFacts ==
  ASSUME IInv, op # None
  PROVE  /\ op \in Op /\ op.oid \in Oid /\ op.next \in Nat /\ op.need \in Nat
         /\ op.stage \in Stage
         /\ entries[op.oid] \in Entry /\ entries[op.oid] # None
         /\ ~entries[op.oid].persistent
         /\ BlocksOf(op.oid) \in Payload
         /\ Len(BlocksOf(op.oid)) \in Nat
         /\ DOMAIN BlocksOf(op.oid) = 1..Len(BlocksOf(op.oid))
         /\ op.next \in 1..(Len(BlocksOf(op.oid)) + 1)
         /\ MoreBlocks => Current \in Block
<1>1. op \in Op
  BY DEF IInv, TypeOK
<1>2. op.oid \in Oid /\ op.next \in Nat /\ op.need \in Nat /\ op.stage \in Stage
  BY <1>1 DEF Op
<1>3. entries[op.oid] # None /\ ~entries[op.oid].persistent
      /\ op.next \in 1..(Len(BlocksOf(op.oid)) + 1)
  BY DEF IInv, OpSound
<1>4. entries[op.oid] \in Entry /\ BlocksOf(op.oid) \in Payload
  BY <1>2, <1>3, EntryFacts DEF IInv
<1>5. Len(BlocksOf(op.oid)) \in Nat /\ DOMAIN BlocksOf(op.oid) = 1..Len(BlocksOf(op.oid))
      /\ \A i \in DOMAIN BlocksOf(op.oid) : BlocksOf(op.oid)[i] \in Block
  BY <1>4, PayloadFacts
<1> QED
  BY <1>1, <1>2, <1>3, <1>4, <1>5 DEF MoreBlocks, Current

\* The number of blocks to write is a natural number.
LEMMA NewStorageType ==
  ASSUME NEW p \in Payload
  PROVE  NewStorage(p) \in Nat
<1>1. Len(p) \in Nat /\ DOMAIN p = 1..Len(p)
  BY PayloadFacts
<1>2. IsFiniteSet(DOMAIN p)
  BY <1>1, FS_Interval
<1> QED
  BY <1>2, FS_Subset, FS_CardinalityType DEF NewStorage

\* Committing a reservation keeps the counters natural numbers.
LEMMA CommitReserveType ==
  ASSUME NEW m \in Budget, NEW n \in Nat, n <= m.reserved
  PROVE  CommitReserve(m, n) \in Budget
<1> DEFINE g == [m EXCEPT !.reserved = @ - n]
<1>1. g \in Budget /\ g.used = m.used
  BY DEF Budget
<1>2. [g EXCEPT !.used = @ + n] \in Budget
  <2> HIDE DEF g
  <2> QED BY <1>1 DEF Budget
<1>3. CommitReserve(m, n) \in {g, [g EXCEPT !.used = @ + n]}
  BY DEF CommitReserve, AddUsed
<1> QED
  BY <1>1, <1>2, <1>3

\* A new, or replaced, entry holds no references.
LEMMA RegisterStep ==
  ASSUME IInv, NEW o \in Oid, NEW p \in Payload, Register(o, p)
  PROVE  IInv'
<1> USE DEF Register
<1>0. [payload |-> p, live |-> TRUE, persistent |-> FALSE] \in Entry
  BY DEF Entry
<1>1. TypeOK'
  BY <1>0 DEF IInv, TypeOK
<1>2. OpSound'
  BY DEF OpSound
<1>3. RefsCover'
  <2>1. \A q \in Oid : \A i \in Pinned(q)' :
          i \in Pinned(q) /\ BlocksOf(q)'[i] = BlocksOf(q)[i]
    BY DEF IInv, TypeOK, Pinned, BlocksOf
  <2> QED
    BY SMTT(30), <2>1, CoverKept DEF IInv, TypeOK
<1>4. FilesBacked'
  BY DEF IInv, FilesBacked
<1>5. ManifestsMatch'
  BY DEF IInv, TypeOK, ManifestsMatch, Persistent, BlocksOf
<1> QED
  BY <1>1, <1>2, <1>3, <1>4, <1>5 DEF IInv

\* Copies in other tiers come and go without the files noticing.
LEMMA CopyStep ==
  ASSUME IInv, NEW o \in Oid, DropCopy(o) \/ Reload(o)
  PROVE  IInv'
<1>0. /\ op = None /\ entries[o] # None
      /\ \E l \in BOOLEAN : entries' = [entries EXCEPT ![o].live = l]
      /\ UNCHANGED <<files, manifests, temps, refs, storageUsed, budget, op>>
  BY Zenon DEF DropCopy, Reload, Persistent
<1>a. PICK l \in BOOLEAN : entries' = [entries EXCEPT ![o].live = l]
  BY Zenon, <1>0
<1>1. TypeOK'
  BY <1>0, <1>a DEF IInv, TypeOK, Entry
<1>b. \A q \in Oid : /\ entries'[q] = None <=> entries[q] = None
                     /\ entries[q] # None => /\ entries'[q].payload = entries[q].payload
                                             /\ entries'[q].persistent = entries[q].persistent
  BY <1>0, <1>1, <1>a, NoneAssumption DEF IInv, TypeOK, Entry
<1>2. OpSound'
  BY <1>0 DEF OpSound
<1>3. RefsCover'
  <2>1. \A q \in Oid : \A i \in Pinned(q)' :
          i \in Pinned(q) /\ BlocksOf(q)'[i] = BlocksOf(q)[i]
    BY <1>0, <1>b DEF Pinned, BlocksOf
  <2> QED
    BY <1>0, <2>1, CoverKept DEF IInv, TypeOK
<1>4. FilesBacked'
  BY <1>0 DEF IInv, FilesBacked
<1>5. ManifestsMatch'
  BY <1>0, <1>b DEF IInv, ManifestsMatch, Persistent, BlocksOf
<1> QED
  BY <1>1, <1>2, <1>3, <1>4, <1>5 DEF IInv

\* A persist starts with the first block and no reference of its own.
LEMMA BeginPersistStep ==
  ASSUME IInv, NEW o \in Oid, BeginPersist(o)
  PROVE  IInv'
<1> USE DEF BeginPersist
<1>0. /\ entries[o] # None /\ ~entries[o].persistent /\ BlocksOf(o) \in Payload
      /\ Len(BlocksOf(o)) \in Nat /\ NewStorage(BlocksOf(o)) \in Nat
  BY EntryFacts, PayloadFacts, NewStorageType DEF IInv
<1>a. op' = [stage |-> "put", oid |-> o, next |-> 1, need |-> NewStorage(BlocksOf(o))]
  OBVIOUS
<1>1. TypeOK'
  <2>1. op' \in Op
    BY <1>0 DEF Op, Stage
  <2>2. budget' \in Budget
    BY SMTT(30), <1>0 DEF Budget, Reserve, IInv, TypeOK
  <2> QED
    BY <2>1, <2>2 DEF IInv, TypeOK
<1>2. OpSound'
  BY <1>0, <1>a DEF OpSound, BlocksOf, MoreBlocks
<1>3. RefsCover'
  <2>1. \A q \in Oid : \A i \in Pinned(q)' :
          i \in Pinned(q) /\ BlocksOf(q)'[i] = BlocksOf(q)[i]
    BY <1>a DEF Pinned, BlocksOf
  <2> QED
    BY <2>1, CoverKept DEF IInv, TypeOK
<1>4. FilesBacked'
  BY DEF IInv, FilesBacked
<1>5. ManifestsMatch'
  BY DEF IInv, ManifestsMatch, Persistent, BlocksOf
<1> QED
  BY SMTT(30), <1>1, <1>2, <1>3, <1>4, <1>5 DEF IInv

\* The put steps: one more position pinned, one more reference counted, and a
\* block with references has its file.
LEMMA PutStep ==
  ASSUME IInv, PutShared \/ PutExisting \/ RenameBlock
  PROVE  IInv'
<1>0. /\ op # None /\ MoreBlocks /\ op.stage \in {"put", "name"}
      /\ refs' = [refs EXCEPT ![Current] = @ + 1]
      /\ op' = Goto("put", op.next + 1)
      /\ files \subseteq files' /\ files' \subseteq files \cup {Current}
      /\ Current \in files'
      /\ temps' \subseteq temps
      /\ storageUsed' \in Nat
      /\ UNCHANGED <<manifests, budget, entries>>
  <2>1. CASE PutShared
    <3>1. op # None /\ MoreBlocks /\ op.stage = "put" /\ refs[Current] > 0
      BY <2>1 DEF PutShared, At
    <3>2. Current \in files
      BY <3>1, OpFacts DEF IInv, FilesBacked
    <3> QED
      BY <2>1, <3>1, <3>2 DEF PutShared, IInv, TypeOK
  <2>2. CASE PutExisting
    <3>1. op # None /\ MoreBlocks /\ op.stage = "put" /\ refs[Current] = 0
      BY <2>2 DEF PutExisting, At
    <3> QED
      BY <2>2, <3>1 DEF PutExisting, IInv, TypeOK
  <2>3. CASE RenameBlock
    <3>1. op # None /\ MoreBlocks /\ op.stage = "name" /\ refs[Current] = 0
      BY <2>3 DEF RenameBlock, At, IInv, OpSound
    <3> QED
      BY <2>3, <3>1 DEF RenameBlock, IInv, TypeOK
  <2> QED
    BY <2>1, <2>2, <2>3
<1>a. /\ op \in Op /\ op.oid \in Oid /\ op.next \in Nat /\ Current \in Block
      /\ ~entries[op.oid].persistent /\ entries[op.oid] # None
      /\ op.next \in 1..(Len(BlocksOf(op.oid)) + 1) /\ Len(BlocksOf(op.oid)) \in Nat
      /\ op.next <= Len(BlocksOf(op.oid))
  BY <1>0, OpFacts DEF MoreBlocks
<1>b. op' # None /\ op' \in Op /\ op'.stage = "put" /\ op'.oid = op.oid /\ op'.next = op.next + 1
  <2>1. op' \in Op /\ op'.stage = "put" /\ op'.oid = op.oid /\ op'.next = op.next + 1
    BY <1>0, <1>a DEF Goto, Op, Stage
  <2> QED
    BY <2>1, NoneAssumption
<1>1. TypeOK'
  BY <1>0, <1>a, <1>b DEF IInv, TypeOK
<1>2. OpSound'
  BY SMTT(30), <1>0, <1>a, <1>b DEF OpSound, BlocksOf
<1>3. RefsCover'
  <2>1. \A q \in Oid : \A i \in Pinned(q)' :
          /\ BlocksOf(q)'[i] = BlocksOf(q)[i]
          /\ i \in Pinned(q) \/ (q = op.oid /\ i = op.next)
    BY SMTT(30), <1>0, <1>a, <1>b DEF Pinned, BlocksOf
  <2> QED
    BY <1>0, <2>1, CoverGained
<1>4. FilesBacked'
  BY <1>0, <1>a DEF IInv, TypeOK, FilesBacked
<1>5. ManifestsMatch'
  BY <1>0 DEF IInv, ManifestsMatch, Persistent, BlocksOf
<1> QED
  BY SMTT(30), <1>1, <1>2, <1>3, <1>4, <1>5 DEF IInv

\* The steps of a persist that move on without touching blocks or entries.
LEMMA PersistMoveStep ==
  ASSUME IInv,
         WriteBlockTemp \/ CommitBudget \/ WriteManifestTemp \/ UnlinkManifest
  PROVE  IInv'
<1>0. /\ op # None
      /\ op.stage \in {"put", "temp", "unlink"}
      /\ \E t \in {"name", "temp", "unlink", "rename"} :
           /\ op' = Goto(t, op.next)
           /\ t = "name" => MoreBlocks /\ refs[Current] = 0
           /\ t # "name" => ~MoreBlocks
      /\ \A q \in Oid : q # op.oid => manifests'[q] = manifests[q]
      /\ manifests' \in [Oid -> Payload \cup {None}]
      /\ temps' \subseteq Block \cup Oid
      /\ budget' \in Budget
      /\ UNCHANGED <<files, refs, storageUsed, entries>>
  <2>0. TypeOK
    BY SMTT(30) DEF IInv
  <2>1. CASE WriteBlockTemp
    BY SMTT(30), <2>0, <2>1, OpFacts DEF WriteBlockTemp, At, TypeOK
  <2>2. CASE CommitBudget
    <3>1. op # None /\ op.stage = "put" /\ ~MoreBlocks /\ op.need <= budget.reserved
      BY <2>2 DEF CommitBudget, At, CanCommitReserve
    <3>2. CommitReserve(budget, op.need) \in Budget
      <4>1. op.need \in Nat
        BY <3>1, OpFacts
      <4>2. budget \in Budget
        BY SMTT(30), <2>0 DEF TypeOK
      <4> QED
        BY <3>1, <4>1, <4>2, CommitReserveType
    <3> QED
      BY <2>0, <2>2, <3>1, <3>2 DEF CommitBudget, TypeOK
  <2>3. CASE WriteManifestTemp
    BY SMTT(30), <2>0, <2>3, OpFacts DEF WriteManifestTemp, At, TypeOK, IInv, OpSound
  <2>4. CASE UnlinkManifest
    BY SMTT(30), <2>0, <2>4, OpFacts DEF UnlinkManifest, At, TypeOK, IInv, OpSound
  <2> QED
    BY <2>1, <2>2, <2>3, <2>4
<1>a. PICK t \in {"name", "temp", "unlink", "rename"} :
        /\ op' = Goto(t, op.next)
        /\ t = "name" => MoreBlocks /\ refs[Current] = 0
        /\ t # "name" => ~MoreBlocks
  BY SMTT(30), <1>0
<1>b. /\ op \in Op /\ op.oid \in Oid /\ op.next \in Nat
      /\ ~entries[op.oid].persistent /\ entries[op.oid] # None
      /\ op.next \in 1..(Len(BlocksOf(op.oid)) + 1)
  BY <1>0, OpFacts
<1>c. op' # None /\ op' \in Op /\ op'.stage = t /\ op'.oid = op.oid /\ op'.next = op.next
  <2>1. op' \in Op /\ op'.stage = t /\ op'.oid = op.oid /\ op'.next = op.next
    BY SMTT(30), <1>a, <1>b DEF Goto, Op, Stage
  <2> QED
    BY <2>1, NoneAssumption
<1>1. TypeOK'
  BY SMTT(30), <1>0, <1>c DEF IInv, TypeOK
<1>2. OpSound'
  BY SMTT(30), <1>0, <1>a, <1>b, <1>c DEF OpSound, BlocksOf, MoreBlocks, Current
<1>3. RefsCover'
  <2>1. \A q \in Oid : \A i \in Pinned(q)' :
          i \in Pinned(q) /\ BlocksOf(q)'[i] = BlocksOf(q)[i]
    BY <1>0, <1>b, <1>c DEF Pinned, BlocksOf
  <2> QED
    BY SMTT(30), <1>0, <2>1, CoverKept DEF IInv, TypeOK
<1>4. FilesBacked'
  BY <1>0 DEF IInv, FilesBacked
<1>5. ManifestsMatch'
  BY <1>0, <1>b DEF IInv, ManifestsMatch, Persistent, BlocksOf
<1> QED
  BY SMTT(30), <1>1, <1>2, <1>3, <1>4, <1>5 DEF IInv

\* The rename that commits: every position is already pinned.
LEMMA RenameManifestStep ==
  ASSUME IInv, RenameManifest
  PROVE  IInv'
<1>0. /\ op # None /\ op.stage = "rename" /\ ~MoreBlocks
      /\ op.oid \in Oid /\ entries[op.oid] # None /\ entries[op.oid] \in Entry
      /\ ~entries[op.oid].persistent /\ BlocksOf(op.oid) \in Payload
      /\ Len(BlocksOf(op.oid)) \in Nat /\ op.next \in Nat
      /\ op.next \in 1..(Len(BlocksOf(op.oid)) + 1)
      /\ DOMAIN BlocksOf(op.oid) = 1..Len(BlocksOf(op.oid))
  BY OpFacts DEF RenameManifest, At, IInv, OpSound
<1>a. op.next = Len(BlocksOf(op.oid)) + 1
  BY <1>0 DEF MoreBlocks
<1>1. TypeOK'
  <2>1. [entries[op.oid] EXCEPT !.persistent = TRUE] \in Entry
    BY Zenon, <1>0 DEF Entry
  <2>2. entries' \in [Oid -> Entry \cup {None}]
    BY <1>0, <2>1 DEF RenameManifest, IInv, TypeOK
  <2>3. manifests' \in [Oid -> Payload \cup {None}]
    BY <1>0 DEF RenameManifest, IInv, TypeOK
  <2> QED
    BY <2>2, <2>3 DEF RenameManifest, IInv, TypeOK
<1>b. /\ op' = None /\ refs' = refs /\ files' = files
      /\ \A q \in Oid : q # op.oid => entries'[q] = entries[q] /\ manifests'[q] = manifests[q]
      /\ manifests'[op.oid] = BlocksOf(op.oid)
      /\ entries'[op.oid].payload = entries[op.oid].payload
      /\ entries'[op.oid].persistent
  BY <1>0 DEF RenameManifest, IInv, TypeOK, Entry
<1>2. OpSound'
  BY <1>b DEF OpSound
<1>3. RefsCover'
  <2>1. ASSUME NEW q \in Oid, NEW i \in Pinned(q)'
        PROVE  i \in Pinned(q) /\ BlocksOf(q)'[i] = BlocksOf(q)[i]
    <3>1. CASE q = op.oid
      <4>1. BlocksOf(q)' = BlocksOf(q)
        BY SMTT(30), <1>b, <3>1 DEF BlocksOf
      <4>2. Pinned(q)' \subseteq 1..Len(BlocksOf(q))
        BY SMTT(30), <1>0, <1>b, <3>1, <4>1 DEF Pinned
      <4>3. Pinned(q) = 1..(op.next - 1)
        BY <1>0, <3>1 DEF Pinned
      <4> QED
        BY SMTT(30), <1>0, <1>a, <3>1, <4>1, <4>2, <4>3
    <3>2. CASE q # op.oid
      BY <1>b, <3>2 DEF Pinned, BlocksOf
    <3> QED
      BY <3>1, <3>2
  <2> QED
    BY <1>b, <2>1, CoverKept DEF IInv, TypeOK
<1>4. FilesBacked'
  BY <1>b DEF IInv, FilesBacked
<1>5. ManifestsMatch'
  BY <1>b DEF IInv, ManifestsMatch, Persistent, BlocksOf
<1> QED
  BY <1>1, <1>2, <1>3, <1>4, <1>5 DEF IInv

\* A call that stops leaves its references behind, counted and unused.
LEMMA PersistFailsStep ==
  ASSUME IInv, PersistFails
  PROVE  IInv'
<1>0. op # None /\ op' = None /\ UNCHANGED <<files, manifests, temps, refs, storageUsed, budget, entries>>
  BY DEF PersistFails, At
<1>1. TypeOK' /\ OpSound'
  BY <1>0 DEF IInv, TypeOK, OpSound
<1>2. RefsCover'
  <2>1. \A q \in Oid : \A i \in Pinned(q)' :
          i \in Pinned(q) /\ BlocksOf(q)'[i] = BlocksOf(q)[i]
    BY <1>0 DEF Pinned, BlocksOf
  <2> QED
    BY <1>0, <2>1, CoverKept DEF IInv, TypeOK
<1>3. FilesBacked' /\ ManifestsMatch'
  BY <1>0 DEF IInv, FilesBacked, ManifestsMatch, Persistent, BlocksOf
<1> QED
  BY <1>1, <1>2, <1>3 DEF IInv

\* A delete takes over the references of the placement it removes.
LEMMA BeginDeleteStep ==
  ASSUME IInv, NEW o \in Oid, BeginDelete(o)
  PROVE  IInv'
<1>0. /\ op = None /\ entries[o] # None /\ entries[o] \in Entry
      /\ BlocksOf(o) \in Payload /\ Len(BlocksOf(o)) \in Nat
      /\ DOMAIN BlocksOf(o) = 1..Len(BlocksOf(o))
      /\ UNCHANGED <<files, manifests, temps, refs, storageUsed, budget>>
  BY EntryFacts, PayloadFacts DEF BeginDelete, IInv
<1>a. /\ op' \in Op /\ op'.oid = o /\ op'.next = 1
      /\ op'.stage = IF Persistent(o) THEN "release" ELSE "forget"
  BY DEF BeginDelete, Op, Stage
<1>b. op' # None
  BY <1>a, NoneAssumption
<1>c. [entries[o] EXCEPT !.persistent = FALSE] \in Entry
  BY Zenon, <1>0 DEF Entry
<1>1. TypeOK'
  BY <1>0, <1>a, <1>c DEF BeginDelete, IInv, TypeOK
<1>d. /\ \A q \in Oid : q # o => entries'[q] = entries[q]
      /\ entries'[o].payload = entries[o].payload
      /\ ~entries'[o].persistent
      /\ entries'[o] # None
  BY Zenon, <1>0, <1>c, NoneAssumption DEF BeginDelete, IInv, TypeOK, Entry
<1>2. OpSound'
  BY SMTT(30), <1>0, <1>a, <1>d DEF OpSound, BlocksOf, MoreBlocks
<1>3. RefsCover'
  <2>1. ASSUME NEW q \in Oid, NEW i \in Pinned(q)'
        PROVE  i \in Pinned(q) /\ BlocksOf(q)'[i] = BlocksOf(q)[i]
    <3>1. CASE q = o
      <4>1. BlocksOf(q)' = BlocksOf(q)
        BY <1>d, <3>1 DEF BlocksOf
      <4>2. CASE Persistent(o)
        <5>1. i \in 1..Len(BlocksOf(o))
          BY SMTT(30), <1>0, <1>a, <1>b, <1>d, <3>1, <4>1, <4>2 DEF Pinned
        <5>2. Pinned(o) = DOMAIN BlocksOf(o)
          BY SMTT(30), <1>0, <4>2 DEF Persistent, Pinned
        <5> QED
          BY SMTT(30), <1>0, <3>1, <4>1, <5>1, <5>2
      <4>3. CASE ~Persistent(o)
        BY SMTT(30), <1>0, <1>a, <1>b, <1>d, <3>1, <4>3 DEF Pinned
      <4> QED
        BY <4>2, <4>3
    <3>2. CASE q # o
      BY <1>0, <1>a, <1>d, <3>2 DEF Pinned, BlocksOf
    <3> QED
      BY <3>1, <3>2
  <2> QED
    BY <1>0, <2>1, CoverKept DEF IInv, TypeOK
<1>4. FilesBacked'
  BY SMTT(30), <1>0 DEF IInv, FilesBacked
<1>5. ManifestsMatch'
  BY <1>0, <1>d DEF IInv, ManifestsMatch, Persistent, BlocksOf
<1> QED
  BY <1>1, <1>2, <1>3, <1>4, <1>5 DEF IInv

\* Releasing a block: its file goes only with the last reference.
LEMMA ReleaseBlockStep ==
  ASSUME IInv, ReleaseBlock
  PROVE  IInv'
<1>0. /\ op # None /\ op.stage = "release" /\ MoreBlocks
      /\ op \in Op /\ op.oid \in Oid /\ op.next \in Nat /\ Current \in Block
      /\ entries[op.oid] # None /\ ~entries[op.oid].persistent
      /\ Len(BlocksOf(op.oid)) \in Nat
      /\ op.next \in 1..(Len(BlocksOf(op.oid)) + 1)
      /\ op.next <= Len(BlocksOf(op.oid))
  BY OpFacts DEF ReleaseBlock, At, MoreBlocks
<1>a. /\ refs' = [refs EXCEPT ![Current] = IF @ = 0 THEN 0 ELSE @ - 1]
      /\ op' = Goto(op.stage, op.next + 1)
      /\ files' \subseteq files
      /\ files' = files \/ (files' = files \ {Current} /\ refs[Current] = 1)
      /\ storageUsed' \in Nat
      /\ UNCHANGED <<manifests, temps, budget, entries>>
  <2>1. storageUsed \in Nat
    BY SMTT(30) DEF IInv, TypeOK
  <2> QED
    BY <2>1 DEF ReleaseBlock
<1>b. op' # None /\ op' \in Op /\ op'.stage = "release" /\ op'.oid = op.oid /\ op'.next = op.next + 1
  <2>1. op' \in Op /\ op'.stage = "release" /\ op'.oid = op.oid /\ op'.next = op.next + 1
    BY SMTT(30), <1>0, <1>a DEF Goto, Op, Stage
  <2> QED
    BY SMTT(30), <2>1, NoneAssumption
<1>1. TypeOK'
  BY SMTT(30), <1>0, <1>a, <1>b DEF IInv, TypeOK
<1>2. OpSound'
  BY SMTT(30), <1>0, <1>a, <1>b DEF OpSound, BlocksOf
<1>3. RefsCover' /\ refs[Current] > 0
  <2>1. ASSUME NEW q \in Oid, NEW i \in Pinned(q)'
        PROVE  /\ BlocksOf(q)'[i] = BlocksOf(q)[i]
               /\ i \in Pinned(q) /\ ~(q = op.oid /\ i = op.next)
    <3>1. CASE q = op.oid
      <4>1. i \in (op.next + 1)..Len(BlocksOf(q)) /\ BlocksOf(q)' = BlocksOf(q)
        BY SMTT(30), <1>0, <1>a, <1>b, <3>1 DEF Pinned, BlocksOf
      <4>2. Pinned(q) = op.next..Len(BlocksOf(q))
        BY SMTT(30), <1>0, <3>1 DEF Pinned
      <4> QED
        BY SMTT(30), <1>0, <3>1, <4>1, <4>2
    <3>2. CASE q # op.oid
      BY <1>a, <1>b, <3>2 DEF Pinned, BlocksOf
    <3> QED
      BY <3>1, <3>2
  <2>2. op.next \in Pinned(op.oid)
    BY <1>0 DEF Pinned
  <2> QED
    BY <1>0, <1>a, <2>1, <2>2, CoverLost
<1>4. FilesBacked'
  BY <1>0, <1>a DEF IInv, TypeOK, FilesBacked
<1>5. ManifestsMatch'
  BY <1>a DEF IInv, ManifestsMatch, Persistent, BlocksOf
<1> QED
  BY SMTT(30), <1>1, <1>2, <1>3, <1>4, <1>5 DEF IInv

\* The end of a delete: nothing is pinned any more, and only the manifest of the
\* deleted object is touched.
LEMMA EndDeleteStep ==
  ASSUME IInv, EraseManifest \/ Forget \/ DeleteStops
  PROVE  IInv'
<1>0. /\ op # None /\ op.stage \in {"release", "forget"}
      /\ op.stage = "release" => ~MoreBlocks
      /\ op \in Op /\ op.oid \in Oid /\ op.next \in Nat
      /\ entries[op.oid] # None /\ entries[op.oid] \in Entry
      /\ ~entries[op.oid].persistent
      /\ op.next \in 1..(Len(BlocksOf(op.oid)) + 1)
  BY OpFacts DEF EraseManifest, Forget, DeleteStops, At
<1>a. /\ files' = files /\ refs' = refs /\ UNCHANGED <<temps, storageUsed, budget>>
      /\ manifests' \in [Oid -> Payload \cup {None}]
      /\ \A q \in Oid : q # op.oid => manifests'[q] = manifests[q] /\ entries'[q] = entries[q]
  BY <1>0 DEF EraseManifest, Forget, DeleteStops, IInv, TypeOK
<1>b. /\ entries' \in [Oid -> Entry \cup {None}]
      /\ entries'[op.oid] # None => /\ entries'[op.oid].payload = entries[op.oid].payload
                                    /\ ~entries'[op.oid].persistent
  <2>1. CASE EraseManifest
    BY <1>0, <2>1 DEF EraseManifest, IInv, TypeOK
  <2>2. CASE Forget
    BY <1>0, <2>2 DEF Forget, IInv, TypeOK
  <2>3. CASE DeleteStops
    <3>1. /\ [entries[op.oid] EXCEPT !.live = FALSE] \in Entry
          /\ [entries[op.oid] EXCEPT !.live = FALSE].payload = entries[op.oid].payload
          /\ ~[entries[op.oid] EXCEPT !.live = FALSE].persistent
      BY Zenon, <1>0 DEF Entry
    <3> QED
      BY <1>0, <2>3, <3>1 DEF DeleteStops, IInv, TypeOK
  <2> QED
    BY <2>1, <2>2, <2>3
<1>c. \/ op' = None
      \/ /\ op' \in Op /\ op' # None /\ op'.stage = "forget"
         /\ op'.oid = op.oid /\ op'.next = op.next /\ entries' = entries
  <2>1. CASE EraseManifest
    <3>1. op' \in Op /\ op'.stage = "forget" /\ op'.oid = op.oid /\ op'.next = op.next
      BY <1>0, <2>1 DEF EraseManifest, Goto, Op, Stage
    <3> QED
      BY SMTT(30), <2>1, <3>1, NoneAssumption DEF EraseManifest
  <2>2. CASE Forget \/ DeleteStops
    BY <2>2 DEF Forget, DeleteStops
  <2> QED
    BY <2>1, <2>2
<1>1. TypeOK'
  BY <1>a, <1>b, <1>c DEF IInv, TypeOK
<1>2. OpSound'
  BY SMTT(30), <1>0, <1>c DEF OpSound, BlocksOf
<1>3. RefsCover'
  <2>1. ASSUME NEW q \in Oid, NEW i \in Pinned(q)'
        PROVE  i \in Pinned(q) /\ BlocksOf(q)'[i] = BlocksOf(q)[i]
    <3>1. CASE q = op.oid
      BY SMTT(30), <1>b, <1>c, <3>1 DEF Pinned
    <3>2. CASE q # op.oid
      BY <1>a, <1>c, <3>2 DEF Pinned, BlocksOf
    <3> QED
      BY SMTT(30), <3>1, <3>2
  <2> QED
    BY SMTT(30), <1>a, <2>1, CoverKept DEF IInv, TypeOK
<1>4. FilesBacked'
  BY <1>a DEF IInv, FilesBacked
<1>5. ManifestsMatch'
  BY <1>a, <1>b DEF IInv, ManifestsMatch, Persistent, BlocksOf
<1> QED
  BY <1>1, <1>2, <1>3, <1>4, <1>5 DEF IInv

\* A recovered entry is persistent with the payload of its manifest.
LEMMA RecoveredFacts ==
  ASSUME IInv, Restart, NEW o \in Oid
  PROVE  /\ entries'[o] # None <=> o \in Recoverable(manifests)
         /\ o \in Recoverable(manifests) =>
              /\ entries'[o] \in Entry
              /\ entries'[o].persistent /\ entries'[o].payload = manifests[o]
              /\ manifests[o] \in Payload /\ manifests[o] # None
<1>1. entries'[o] = IF o \in Recoverable(manifests) THEN RecoveredEntry(manifests[o]) ELSE None
  BY DEF Restart
<1>2. o \in Recoverable(manifests) => manifests[o] \in Payload /\ manifests[o] # None
  BY DEF Recoverable, IInv, TypeOK
<1>3. \A p \in Payload : /\ RecoveredEntry(p) \in Entry
                         /\ RecoveredEntry(p).persistent /\ RecoveredEntry(p).payload = p
  BY DEF RecoveredEntry, Entry
<1> QED
  BY <1>1, <1>2, <1>3, NoneAssumption

\* Finitely many manifests of finite lists hold a block finitely often.
LEMMA OccurrencesFinite ==
  ASSUME NEW m, NEW S, IsFiniteSet(S), \A o \in S : m[o] \in Payload, NEW b
  PROVE  IsFiniteSet(Occurrences(m, S, b))
<1> DEFINE f == [o \in S |-> {o} \X {i \in DOMAIN m[o] : m[o][i] = b}]
           T == {f[o] : o \in S}
<1>1. f \in Surjection(S, T)
  BY Zenon DEF Surjection
<1>2. IsFiniteSet(T)
  <2> HIDE DEF f, T
  <2> QED BY <1>1, FS_Surjection
<1>3. \A o \in S : IsFiniteSet(f[o])
  <2> TAKE o \in S
  <2> DEFINE J == {i \in DOMAIN m[o] : m[o][i] = b}
  <2>1. Len(m[o]) \in Nat /\ DOMAIN m[o] = 1..Len(m[o])
    BY PayloadFacts
  <2>2. IsFiniteSet(DOMAIN m[o])
    BY <2>1, FS_Interval
  <2>3. IsFiniteSet(J)
    BY <2>2, FS_Subset
  <2>4. IsFiniteSet({o})
    BY Zenon, FS_Singleton
  <2> HIDE DEF J
  <2>5. IsFiniteSet({o} \X J)
    BY <2>3, <2>4, FS_Product
  <2> QED
    BY <2>5 DEF J
<1>4. IsFiniteSet(UNION T)
  <2>1. \A t \in T : IsFiniteSet(t)
    BY <1>3
  <2> HIDE DEF T
  <2> QED BY <1>2, <2>1, FS_UNION
<1> QED
  BY <1>4 DEF Occurrences

\* Finitely many manifests of finite lists name finitely many blocks.
LEMMA RangesFinite ==
  ASSUME NEW m, NEW S, IsFiniteSet(S), \A o \in S : m[o] \in Payload
  PROVE  IsFiniteSet(UNION {Range(m[o]) : o \in S})
<1> DEFINE f == [o \in S |-> Range(m[o])]
           T == {f[o] : o \in S}
<1>1. f \in Surjection(S, T)
  BY Zenon DEF Surjection
<1>2. IsFiniteSet(T)
  <2> HIDE DEF f, T
  <2> QED BY <1>1, FS_Surjection
<1>3. \A o \in S : IsFiniteSet(Range(m[o]))
  <2> TAKE o \in S
  <2> DEFINE p == m[o]
  <2>1. Len(p) \in Nat /\ DOMAIN p = 1..Len(p)
    BY PayloadFacts
  <2>2. IsFiniteSet(DOMAIN p)
    BY <2>1, FS_Interval
  <2>3. [i \in DOMAIN p |-> p[i]] \in Surjection(DOMAIN p, Range(p))
    BY Zenon DEF Surjection, Range
  <2> HIDE DEF p
  <2> QED
    BY <2>2, <2>3, FS_Surjection DEF p
<1>4. \A t \in T : IsFiniteSet(t)
  BY <1>3
<1>5. IsFiniteSet(UNION T)
  <2> HIDE DEF T
  <2> QED BY <1>2, <1>4, FS_UNION
<1> QED
  BY SMTT(30), <1>5

\* A block occurs in some of the manifests exactly when one of them names it.
LEMMA OccurrencesCover ==
  ASSUME NEW m, NEW S, NEW b
  PROVE  Occurrences(m, S, b) # {} <=> b \in UNION {Range(m[o]) : o \in S}
<1>1. ASSUME NEW x \in Occurrences(m, S, b) PROVE b \in UNION {Range(m[o]) : o \in S}
  <2>1. PICK o \in S : x \in {o} \X {i \in DOMAIN m[o] : m[o][i] = b}
    BY DEF Occurrences
  <2>2. x[2] \in DOMAIN m[o] /\ m[o][x[2]] = b
    BY <2>1
  <2> QED BY <2>2 DEF Range
<1>2. ASSUME NEW o \in S, b \in Range(m[o]) PROVE Occurrences(m, S, b) # {}
  <2>1. PICK i \in DOMAIN m[o] : m[o][i] = b
    BY <1>2 DEF Range
  <2>2. <<o, i>> \in {o} \X {j \in DOMAIN m[o] : m[o][j] = b}
    BY <2>1
  <2> QED BY <2>2 DEF Occurrences
<1> QED BY <1>1, <1>2

\* Recovery counts exactly the references of the entries it makes.
LEMMA RestartStep ==
  ASSUME IInv, Restart
  PROVE  IInv'
<1> DEFINE back == Recoverable(manifests)
<1>0. /\ files' = files /\ manifests' = manifests /\ op' = None /\ temps' = {}
      /\ refs' = [b \in Block |-> Cardinality(Occurrences(manifests, back, b))]
      /\ storageUsed' = Cardinality(UNION {Range(manifests[o]) : o \in back})
      /\ budget' = EmptyBudget(Capacity)
      /\ entries' = [o \in Oid |-> IF o \in back THEN RecoveredEntry(manifests[o]) ELSE None]
  BY DEF Restart
<1>a. back \subseteq Oid /\ IsFiniteSet(back)
  BY StoreAssumption, FS_Subset DEF Recoverable
<1>b. \A o \in Oid : /\ entries'[o] # None <=> o \in back
                     /\ o \in back => /\ entries'[o] \in Entry
                                      /\ entries'[o].persistent
                                      /\ entries'[o].payload = manifests[o]
                                      /\ manifests[o] \in Payload /\ manifests[o] # None
  BY RecoveredFacts
<1>c. OpSound'
  BY <1>0 DEF OpSound
<1>d. \A b \in Block : References(b)' = Occurrences(manifests, back, b)
  <2> TAKE b \in Block
  <2>1. \A o \in Oid : Pinned(o)' = IF o \in back THEN DOMAIN manifests[o] ELSE {}
    BY <1>0, <1>b DEF Pinned, BlocksOf
  <2>2. \A x : x \in References(b)' <=>
          \E o \in Oid : \E i \in Pinned(o)' : x = <<o, i>> /\ BlocksOf(o)'[i] = b
    BY DEF References
  <2>3. \A x : x \in Occurrences(manifests, back, b) <=>
          \E o \in back : \E i \in DOMAIN manifests[o] : x = <<o, i>> /\ manifests[o][i] = b
    BY DEF Occurrences
  <2>4. \A o \in back : BlocksOf(o)' = manifests[o]
    BY SMTT(30), <1>a, <1>b DEF BlocksOf
  <2> HIDE DEF back
  <2> QED
    BY SMTT(30), <1>a, <2>1, <2>2, <2>3, <2>4
<1>g. \A o \in back : manifests[o] \in Payload
  BY <1>a, <1>b
<1>e. \A b \in Block : IsFiniteSet(Occurrences(manifests, back, b))
  <2> HIDE DEF back
  <2> QED BY <1>a, <1>g, OccurrencesFinite
<1>f. \A b \in Block : refs'[b] = Cardinality(References(b)') /\ refs'[b] \in Nat
  <2> HIDE DEF back
  <2> QED BY <1>0, <1>d, <1>e, FS_CardinalityType
<1>1. TypeOK'
  <2>1. refs' \in [Block -> Nat]
    BY <1>0, <1>f
  <2>2. storageUsed' \in Nat
    <3>1. IsFiniteSet(UNION {Range(manifests[o]) : o \in back})
      <4> HIDE DEF back
      <4> QED BY <1>a, <1>g, RangesFinite
    <3> QED
      BY <1>0, <3>1, FS_CardinalityType
  <2>3. budget' \in Budget
    BY SMTT(30), <1>0, StoreAssumption DEF EmptyBudget, Budget
  <2>4. entries' \in [Oid -> Entry \cup {None}]
    BY <1>0, <1>b
  <2> QED
    BY <1>0, <2>1, <2>2, <2>3, <2>4 DEF IInv, TypeOK
<1>3. RefsCover'
  BY <1>f DEF RefsCover
<1>4. FilesBacked'
  <2> SUFFICES ASSUME NEW b \in Block, refs'[b] > 0
               PROVE  b \in files
    BY <1>0 DEF FilesBacked
  <2>1. Occurrences(manifests, back, b) # {}
    <3> HIDE DEF back
    <3> QED BY <1>d, <1>f, FS_EmptySet
  <2>2. PICK o \in back : \E i \in DOMAIN manifests[o] : manifests[o][i] = b
    BY <2>1 DEF Occurrences
  <2>3. Range(manifests[o]) \subseteq files
    BY DEF Recoverable, BlocksExist
  <2> QED
    BY <2>2, <2>3 DEF Range
<1>5. ManifestsMatch'
  BY Zenon, <1>0, <1>b DEF ManifestsMatch, Persistent, BlocksOf
<1> QED
  BY <1>1, <1>c, <1>3, <1>4, <1>5 DEF IInv

-----------------------------------------------------------------------------
(* The theorems about the state *)

\* An empty store satisfies the invariant.
LEMMA InitInv == Init => IInv
<1> SUFFICES ASSUME Init PROVE IInv
  OBVIOUS
<1>1. TypeOK
  BY StoreAssumption DEF Init, TypeOK, EmptyBudget, Budget
<1>2. OpSound /\ FilesBacked /\ ManifestsMatch
  BY DEF Init, OpSound, FilesBacked, ManifestsMatch, Persistent
<1>3. \A b : References(b) = {}
  BY DEF Init, References, Pinned
<1>4. RefsCover
  BY <1>3, FS_EmptySet DEF RefsCover, Init
<1> QED
  BY <1>1, <1>2, <1>4 DEF IInv

\* Every step preserves the invariant.
LEMMA NextInv == IInv /\ [Next]_vars => IInv'
<1> SUFFICES ASSUME IInv, [Next]_vars PROVE IInv'
  OBVIOUS
<1>1. ASSUME NEW o \in Oid, NEW p \in Payload, Register(o, p) PROVE IInv'
  BY <1>1, RegisterStep
<1>2. ASSUME NEW o \in Oid, DropCopy(o) \/ Reload(o) PROVE IInv'
  BY <1>2, CopyStep
<1>3. ASSUME NEW o \in Oid, BeginPersist(o) PROVE IInv'
  BY <1>3, BeginPersistStep
<1>4. ASSUME NEW o \in Oid, BeginDelete(o) PROVE IInv'
  BY <1>4, BeginDeleteStep
<1>5. CASE OpStep
  BY <1>5, PutStep, PersistMoveStep, RenameManifestStep, ReleaseBlockStep, EndDeleteStep
     DEF OpStep
<1>6. CASE PersistFails
  BY <1>6, PersistFailsStep
<1>7. CASE Restart
  BY <1>7, RestartStep
<1>8. CASE UNCHANGED vars
  <2>1. TypeOK' /\ OpSound' /\ FilesBacked' /\ ManifestsMatch'
    BY <1>8 DEF vars, IInv, TypeOK, OpSound, FilesBacked, ManifestsMatch, Persistent,
                BlocksOf, MoreBlocks, Current
  <2>2. \A q \in Oid : \A i \in Pinned(q)' :
          i \in Pinned(q) /\ BlocksOf(q)'[i] = BlocksOf(q)[i]
    BY SMTT(30), <1>8 DEF vars, Pinned, BlocksOf
  <2>3. RefsCover'
    BY SMTT(30), <1>8, <2>2, CoverKept DEF vars, IInv, TypeOK
  <2> QED
    BY SMTT(30), <2>1, <2>3 DEF IInv
<1> QED
  BY <1>1, <1>2, <1>3, <1>4, <1>5, <1>6, <1>7, <1>8 DEF Next

\* The invariant holds throughout.
LEMMA Invariance == Spec => []IInv
BY InitInv, NextInv, PTL DEF Spec

\* Files, manifests, references and entries keep their types: no operation of
\* the persistent tier drives a counter below zero.
THEOREM StoreTypeCorrect == Spec => []TypeOK
<1>1. IInv => TypeOK
  BY DEF IInv
<1> QED
  BY <1>1, Invariance, PTL

\* remove_placement never removes a block file that a committed object or the
\* call under way needs, for any objects, block lists and failures.
THEOREM StoreRefsCover == Spec => []RefsCover
<1>1. IInv => RefsCover
  BY DEF IInv
<1> QED
  BY <1>1, Invariance, PTL

\* A block with references always has its file.
THEOREM StoreFilesBacked == Spec => []FilesBacked
<1>1. IInv => FilesBacked
  BY DEF IInv
<1> QED
  BY <1>1, Invariance, PTL

\* Whatever failed or crashed before, every object listed as persistent has
\* its manifest and all its blocks on disk.
THEOREM StoreCommittedReadable == Spec => []CommittedReadable
<1>1. IInv => CommittedReadable
  BY PersistentOnDisk DEF IInv, CommittedReadable, ManifestsMatch
<1> QED
  BY <1>1, Invariance, PTL

-----------------------------------------------------------------------------
(* The budget *)

\* Until it commits, a persist has its bytes reserved.
BudgetInv ==
  /\ budget.used + budget.reserved <= budget.capacity
  /\ op # None /\ op.stage \in {"put", "name"} => op.need <= budget.reserved

\* The budget counters are numbers.
LEMMA BudgetFacts ==
  ASSUME NEW m \in Budget
  PROVE  m.used \in Nat /\ m.reserved \in Nat /\ m.capacity \in Nat
BY DEF Budget

\* Committing a covered reservation moves its bytes and cannot fail.
LEMMA CommitReserveMoves ==
  ASSUME NEW m \in Budget, NEW n \in Nat, n <= m.reserved,
         m.used + m.reserved <= m.capacity
  PROVE  /\ CommitReserve(m, n).used = m.used + n
         /\ CommitReserve(m, n).reserved = m.reserved - n
         /\ CommitReserve(m, n).capacity = m.capacity
<1> DEFINE g == [m EXCEPT !.reserved = @ - n]
<1>1. /\ g \in Budget /\ g.used = m.used /\ g.capacity = m.capacity
      /\ g.reserved = m.reserved - n
  BY DEF Budget
<1>2. CanAddUsed(g, n)
  <2> HIDE DEF g
  <2> QED BY <1>1, BudgetFacts DEF CanAddUsed
<1>3. CommitReserve(m, n) = AddUsed(g, n)
  BY <1>2 DEF CommitReserve
<1> HIDE DEF g
<1>4. AddUsed(g, n).used = g.used + n /\ AddUsed(g, n).reserved = g.reserved
      /\ AddUsed(g, n).capacity = g.capacity
  BY <1>1 DEF AddUsed, Budget
<1> QED
  BY <1>1, <1>3, <1>4

\* Every step keeps the budget sound.
LEMMA BudgetStep == IInv /\ BudgetInv /\ [Next]_vars => BudgetInv'
<1> SUFFICES ASSUME IInv, BudgetInv, [Next]_vars PROVE BudgetInv'
  OBVIOUS
<1>0. budget \in Budget
  BY DEF IInv, TypeOK
<1>1. ASSUME NEW o \in Oid, BeginPersist(o) PROVE BudgetInv'
  <2> DEFINE n == NewStorage(BlocksOf(o))
  <2>1. n \in Nat
    BY <1>1, EntryFacts, NewStorageType DEF BeginPersist, IInv
  <2>2. /\ budget' = [budget EXCEPT !.reserved = @ + n]
        /\ budget.used + budget.reserved + n <= budget.capacity
        /\ op'.need = n
    BY <1>1 DEF BeginPersist, Reserve, CanReserve
  <2> HIDE DEF n
  <2>3. /\ budget'.used = budget.used /\ budget'.reserved = budget.reserved + n
        /\ budget'.capacity = budget.capacity
    BY <1>0, <2>2 DEF Budget
  <2> QED
    BY SMTT(30), <1>0, <2>1, <2>2, <2>3, BudgetFacts DEF BudgetInv
<1>2. CASE CommitBudget
  <2>1. op # None /\ op.stage = "put" /\ op.need \in Nat /\ op.need <= budget.reserved
    BY <1>2, OpFacts DEF CommitBudget, At, BudgetInv
  <2>2. /\ budget'.used = budget.used + op.need /\ budget'.reserved = budget.reserved - op.need
        /\ budget'.capacity = budget.capacity
    BY <1>0, <1>2, <2>1, CommitReserveMoves DEF CommitBudget, BudgetInv
  <2>3. op'.stage = "temp"
    BY SMTT(30), <1>2 DEF CommitBudget, Goto
  <2> QED
    BY SMTT(30), <1>0, <2>1, <2>2, <2>3, BudgetFacts DEF BudgetInv
<1>3. CASE Restart
  BY <1>3, StoreAssumption DEF Restart, EmptyBudget, BudgetInv
<1>4. ASSUME budget' = budget,
             op' # None /\ op'.stage \in {"put", "name"} =>
               /\ op # None /\ op.stage \in {"put", "name"} /\ op'.need = op.need
      PROVE  BudgetInv'
  BY <1>4 DEF BudgetInv
<1>5. ASSUME NEW o \in Oid, BeginDelete(o) PROVE BudgetInv'
  <2>1. op'.stage \in {"release", "forget"} /\ budget' = budget
    BY <1>5 DEF BeginDelete
  <2> QED
    BY <1>4, <2>1
<1>6. ASSUME NEW o \in Oid, \/ \E p \in Payload : Register(o, p)
                            \/ DropCopy(o) \/ Reload(o)
      PROVE  BudgetInv'
  BY <1>4, <1>6 DEF Register, DropCopy, Reload
<1>7. CASE PutShared \/ PutExisting \/ WriteBlockTemp \/ RenameBlock
  <2>1. /\ budget' = budget /\ op # None /\ op.stage \in {"put", "name"}
        /\ op'.need = op.need
    BY SMTT(30), <1>7 DEF PutShared, PutExisting, WriteBlockTemp, RenameBlock, At, Goto
  <2> QED
    BY SMTT(30), <1>4, <2>1
<1>8. CASE WriteManifestTemp \/ UnlinkManifest \/ ReleaseBlock \/ EraseManifest
  <2>1. budget' = budget /\ op'.stage \in {"unlink", "rename", "release", "forget"}
    BY SMTT(30), <1>8 DEF WriteManifestTemp, UnlinkManifest, ReleaseBlock, EraseManifest, At, Goto
  <2> QED
    BY SMTT(30), <1>4, <2>1
<1>9. CASE RenameManifest \/ Forget \/ DeleteStops \/ PersistFails
  BY <1>4, <1>9 DEF RenameManifest, Forget, DeleteStops, PersistFails
<1>10. CASE UNCHANGED vars
  BY <1>4, <1>10 DEF vars
<1> QED
  BY <1>1, <1>2, <1>3, <1>5, <1>6, <1>7, <1>8, <1>9, <1>10 DEF Next, OpStep

\* The storage budget is never overdrawn, and commit_reserve never gives up a
\* reservation it cannot turn into usage.
THEOREM StoreBudgetSound == Spec => []BudgetSound
<1>1. Init => BudgetInv
  BY StoreAssumption DEF Init, BudgetInv, EmptyBudget
<1>2. BudgetInv => BudgetSound
  BY DEF BudgetInv, BudgetSound, At
<1> QED
  BY <1>1, <1>2, BudgetStep, Invariance, PTL DEF Spec

-----------------------------------------------------------------------------
(* The bytes reported for the tier *)

\* The blocks that are counted as stored.
Stored == {b \in Block : refs[b] > 0}

StorageInv == IsFiniteSet(Stored) /\ StorageUsedExact

\* Counts and total stay, or only counts that were and are positive change.
LEMMA StorageKept ==
  ASSUME StorageInv, storageUsed' = storageUsed,
         \A b \in Block : refs'[b] > 0 <=> refs[b] > 0
  PROVE  StorageInv'
<1>1. Stored' = Stored
  BY DEF Stored
<1> QED
  BY <1>1 DEF StorageInv, StorageUsedExact, Stored

\* The first reference to a block adds it to what is stored.
LEMMA StorageGained ==
  ASSUME IInv, StorageInv, NEW c \in Block, refs[c] = 0,
         refs' = [refs EXCEPT ![c] = 1], storageUsed' = storageUsed + 1
  PROVE  StorageInv'
<1>1. refs \in [Block -> Nat]
  BY DEF IInv, TypeOK
<1>2. Stored' = Stored \cup {c} /\ c \notin Stored
  BY <1>1 DEF Stored
<1>3. IsFiniteSet(Stored) /\ storageUsed = Cardinality(Stored)
  BY DEF StorageInv, StorageUsedExact, Stored
<1>4. IsFiniteSet(Stored \cup {c}) /\ Cardinality(Stored \cup {c}) = Cardinality(Stored) + 1
  BY <1>2, <1>3, FS_AddElement
<1>5. IsFiniteSet(Stored') /\ storageUsed' = Cardinality(Stored')
  BY <1>2, <1>3, <1>4
<1> QED
  BY <1>5 DEF StorageInv, StorageUsedExact, Stored

\* The last reference to a block takes it away.
LEMMA StorageLost ==
  ASSUME IInv, StorageInv, NEW c \in Block, refs[c] = 1,
         refs' = [refs EXCEPT ![c] = 0],
         storageUsed' = IF storageUsed > 0 THEN storageUsed - 1 ELSE 0
  PROVE  StorageInv'
<1>1. refs \in [Block -> Nat]
  BY DEF IInv, TypeOK
<1>2. Stored' = Stored \ {c} /\ c \in Stored
  BY <1>1 DEF Stored
<1>3. IsFiniteSet(Stored) /\ storageUsed = Cardinality(Stored)
  BY DEF StorageInv, StorageUsedExact, Stored
<1>4. /\ IsFiniteSet(Stored \ {c}) /\ Cardinality(Stored \ {c}) = Cardinality(Stored) - 1
      /\ Cardinality(Stored) \in Nat /\ Cardinality(Stored) # 0
  BY <1>2, <1>3, FS_RemoveElement, FS_CardinalityType, FS_EmptySet
<1>5. IsFiniteSet(Stored') /\ storageUsed' = Cardinality(Stored')
  BY <1>2, <1>3, <1>4
<1> QED
  BY <1>5 DEF StorageInv, StorageUsedExact, Stored

\* After a restart the counted blocks are those of the recovered manifests.
LEMMA StorageRecovered ==
  ASSUME IInv, Restart
  PROVE  StorageInv'
<1> DEFINE back == Recoverable(manifests)
           all == UNION {Range(manifests[o]) : o \in back}
           uses(b) == Occurrences(manifests, back, b)
<1>1. /\ back \subseteq Oid /\ IsFiniteSet(back)
      /\ \A o \in back : manifests[o] \in Payload
  BY StoreAssumption, FS_Subset, RecoveredFacts DEF Recoverable
<1>2. /\ refs' = [b \in Block |-> Cardinality(uses(b))]
      /\ storageUsed' = Cardinality(all)
  BY DEF Restart
<1>3. \A b \in Block : IsFiniteSet(uses(b))
  <2> HIDE DEF back
  <2> QED BY <1>1, OccurrencesFinite
<1>4. IsFiniteSet(all)
  <2> HIDE DEF back
  <2> QED BY <1>1, RangesFinite
<1>5. \A b \in Block : uses(b) # {} <=> b \in all
  BY OccurrencesCover
<1>6. all \subseteq Block
  <2> HIDE DEF back
  <2> QED BY <1>1, PayloadFacts
<1>7. \A b \in Block : refs'[b] > 0 <=> b \in all
  <2> HIDE DEF all
  <2> TAKE b \in Block
  <2>1. refs'[b] = Cardinality(uses(b))
    BY <1>2
  <2>2. IsFiniteSet(uses(b)) /\ (uses(b) # {} <=> b \in all)
    BY <1>3, <1>5
  <2> HIDE DEF uses
  <2>3. Cardinality(uses(b)) \in Nat /\ (Cardinality(uses(b)) = 0 <=> uses(b) = {})
    BY <2>2, FS_EmptySet, FS_CardinalityType
  <2> QED BY <2>1, <2>2, <2>3
<1> HIDE DEF all
<1>8. Stored' = all
  BY <1>6, <1>7 DEF Stored
<1>9. {b \in Block : refs[b] > 0}' = all
  BY <1>8 DEF Stored
<1> QED
  BY SMTT(30), <1>2, <1>4, <1>8, <1>9 DEF StorageInv, StorageUsedExact

\* Every step keeps storage_used equal to the number of stored blocks.
LEMMA StorageStep == IInv /\ StorageInv /\ [Next]_vars => StorageInv'
<1> SUFFICES ASSUME IInv, StorageInv, [Next]_vars PROVE StorageInv'
  OBVIOUS
<1>0. refs \in [Block -> Nat]
  BY DEF IInv, TypeOK
<1>1. CASE PutShared
  <2>1. Current \in Block /\ refs[Current] > 0
    BY <1>1, OpFacts DEF PutShared, At
  <2> QED
    BY SMTT(30), <1>0, <1>1, <2>1, StorageKept DEF PutShared
<1>2. CASE PutExisting \/ RenameBlock
  <2>1. Current \in Block /\ refs[Current] = 0
    BY Zenon, <1>2, OpFacts DEF PutExisting, RenameBlock, At, IInv, OpSound
  <2>2. refs' = [refs EXCEPT ![Current] = 1] /\ storageUsed' = storageUsed + 1
    BY <1>2 DEF PutExisting, RenameBlock
  <2> QED
    BY Zenon, <2>1, <2>2, StorageGained
<1>3. CASE ReleaseBlock
  <2>1. Current \in Block /\ refs[Current] \in Nat
    BY <1>0, <1>3, OpFacts DEF ReleaseBlock, At
  <2>2. refs' = [refs EXCEPT ![Current] = IF @ = 0 THEN 0 ELSE @ - 1]
    BY <1>3 DEF ReleaseBlock
  <2>3. CASE refs[Current] = 1
    <3>1. refs' = [refs EXCEPT ![Current] = 0]
      BY <2>2, <2>3
    <3>2. storageUsed' = IF storageUsed > 0 THEN storageUsed - 1 ELSE 0
      BY SMTT(30), <1>3, <2>3 DEF ReleaseBlock
    <3> QED BY Zenon, <2>1, <2>3, <3>1, <3>2, StorageLost
  <2>4. CASE refs[Current] # 1
    <3>1. storageUsed' = storageUsed
      BY <1>3, <2>4 DEF ReleaseBlock
    <3>2. \A b \in Block : refs'[b] > 0 <=> refs[b] > 0
      BY <1>0, <2>1, <2>2, <2>4
    <3> QED BY SMTT(30), <3>1, <3>2, StorageKept
  <2> QED BY SMTT(30), <2>3, <2>4
<1>4. CASE Restart
  BY <1>4, StorageRecovered
<1>5. ASSUME refs' = refs, storageUsed' = storageUsed PROVE StorageInv'
  BY <1>5, StorageKept
<1>6. ASSUME NEW o \in Oid, \/ \E p \in Payload : Register(o, p)
                            \/ DropCopy(o) \/ Reload(o) \/ BeginPersist(o) \/ BeginDelete(o)
      PROVE  StorageInv'
  BY Zenon, <1>5, <1>6 DEF Register, DropCopy, Reload, BeginPersist, BeginDelete
<1>7. CASE \/ WriteBlockTemp \/ CommitBudget \/ WriteManifestTemp \/ UnlinkManifest
           \/ RenameManifest \/ EraseManifest \/ Forget \/ DeleteStops \/ PersistFails
  BY Zenon, <1>5, <1>7 DEF WriteBlockTemp, CommitBudget, WriteManifestTemp, UnlinkManifest,
     RenameManifest, EraseManifest, Forget, DeleteStops, PersistFails
<1>8. CASE UNCHANGED vars
  BY SMTT(30), <1>5, <1>8 DEF vars
<1> QED
  BY Zenon, <1>1, <1>2, <1>3, <1>4, <1>6, <1>7, <1>8 DEF Next, OpStep

\* storage_used counts every distinct stored block once and nothing else, for
\* any objects and block lists, through failed writes and removals, replaced
\* entries and restarts.
THEOREM StoreUsageExact == Spec => []StorageUsedExact
<1>1. Init => StorageInv
  <2> SUFFICES ASSUME Init PROVE StorageInv
    OBVIOUS
  <2>1. Stored = {} /\ storageUsed = 0
    BY DEF Init, Stored
  <2> QED
    BY <2>1, FS_EmptySet DEF StorageInv, StorageUsedExact, Stored
<1>2. StorageInv => StorageUsedExact
  BY DEF StorageInv
<1> QED
  BY <1>1, <1>2, StorageStep, Invariance, PTL DEF Spec

-----------------------------------------------------------------------------
(* The files implement the abstract store *)

\* What the abstract specification sees.
Committed == [o \in Oid |-> IF Persistent(o) THEN BlocksOf(o) ELSE None]
Ghosts == [o \in Oid |-> IF Persistent(o) THEN None ELSE manifests[o]]

\* A step that changes no persistent entry and at most one manifest, that of an
\* object which is not persistent, is a stutter or the end of a ghost.
LEMMA QuietStep ==
  ASSUME NEW o \in Oid,
         ~Persistent(o), ~Persistent(o)',
         \A q \in Oid : /\ Persistent(q)' <=> Persistent(q)
                        /\ Persistent(q) => BlocksOf(q)' = BlocksOf(q)
                        /\ q # o => manifests'[q] = manifests[q],
         manifests'[o] \in {None, manifests[o]}
  PROVE  [Abstract!Next]_<<Committed, Ghosts>>
<1>1. Committed' = Committed
  BY SMTT(30) DEF Committed
<1>2. CASE manifests'[o] = manifests[o]
  BY <1>1, <1>2 DEF Ghosts
<1>3. CASE manifests'[o] = None
  <2>1. Ghosts' = [Ghosts EXCEPT ![o] = None]
    BY Zenon, <1>3 DEF Ghosts
  <2>2. Abstract!Vanish(o)
    BY Zenon, <1>1, <2>1 DEF Abstract!Vanish, Committed, Ghosts
  <2> QED
    BY Zenon, <2>2 DEF Abstract!Next
<1> QED
  BY SMTT(30), <1>2, <1>3

\* A step that leaves persistent entries and all manifests alone is a stutter.
LEMMA StutterStep ==
  ASSUME manifests' = manifests,
         \A q \in Oid : /\ Persistent(q)' <=> Persistent(q)
                        /\ Persistent(q) => BlocksOf(q)' = BlocksOf(q)
  PROVE  [Abstract!Next]_<<Committed, Ghosts>>
BY DEF Committed, Ghosts

\* A persistent object that stops being one is given up; its manifest, still
\* there, is its ghost.
LEMMA GiveUpStep ==
  ASSUME NEW o \in Oid, Persistent(o), ~Persistent(o)',
         manifests' = manifests, manifests[o] = BlocksOf(o),
         \A q \in Oid \ {o} : /\ Persistent(q)' <=> Persistent(q)
                              /\ Persistent(q) => BlocksOf(q)' = BlocksOf(q)
  PROVE  [Abstract!Next]_<<Committed, Ghosts>>
<1>1. Committed' = [Committed EXCEPT ![o] = None]
  BY Zenon DEF Committed
<1>2. Ghosts' = [Ghosts EXCEPT ![o] = Committed[o]]
  BY Zenon DEF Committed, Ghosts
<1>3. Abstract!GiveUp(o)
  BY <1>1, <1>2 DEF Abstract!GiveUp, Committed, Ghosts
<1> QED
  BY <1>3 DEF Abstract!Next

\* The rename of a manifest commits the object.
LEMMA CommitStep ==
  ASSUME IInv, RenameManifest
  PROVE  [Abstract!Next]_<<Committed, Ghosts>>
<1>0. /\ op # None /\ op.oid \in Oid /\ entries[op.oid] # None /\ entries[op.oid] \in Entry
      /\ ~entries[op.oid].persistent /\ BlocksOf(op.oid) \in Payload
  BY OpFacts DEF RenameManifest, At
<1>1. /\ \A q \in Oid : q # op.oid => entries'[q] = entries[q] /\ manifests'[q] = manifests[q]
      /\ entries'[op.oid] = [entries[op.oid] EXCEPT !.persistent = TRUE]
  BY Zenon, <1>0 DEF RenameManifest, IInv, TypeOK
<1>2. [entries[op.oid] EXCEPT !.persistent = TRUE] \in Entry
  BY Zenon, <1>0 DEF Entry
<1>3. /\ entries'[op.oid] # None /\ entries'[op.oid].persistent
      /\ entries'[op.oid].payload = entries[op.oid].payload
  BY Zenon, <1>0, <1>1, <1>2, NoneAssumption DEF Entry
<1> DEFINE p == BlocksOf(op.oid)
<1>4. Committed' = [Committed EXCEPT ![op.oid] = p]
  BY Zenon, <1>0, <1>1, <1>3 DEF Committed, Persistent, BlocksOf
<1>5. Ghosts' = [Ghosts EXCEPT ![op.oid] = None]
  BY Zenon, <1>0, <1>1, <1>3 DEF Ghosts, Persistent, BlocksOf
<1>6. Committed[op.oid] = None
  BY <1>0 DEF Committed, Persistent
<1>7. PICK o \in Oid, b \in Payload : o = op.oid /\ b = p
  BY <1>0
<1>8. Abstract!Commit(o, b)
  BY Zenon, <1>4, <1>5, <1>6, <1>7 DEF Abstract!Commit, Committed, Ghosts
<1> QED
  BY <1>8 DEF Abstract!Next

\* A restart brings back every committed object, and ghosts whose blocks are
\* all on disk.
LEMMA RestartRefines ==
  ASSUME IInv, Restart
  PROVE  [Abstract!Next]_<<Committed, Ghosts>>
<1> DEFINE back == Recoverable(manifests)
           ghosts == {o \in back : ~Persistent(o)}
<1>1. \A o \in Oid : Persistent(o) => o \in back /\ manifests[o] = BlocksOf(o)
  <2> SUFFICES ASSUME NEW o \in Oid, Persistent(o)
               PROVE  o \in back /\ manifests[o] = BlocksOf(o)
    OBVIOUS
  <2>1. manifests[o] = BlocksOf(o) /\ BlocksExist(BlocksOf(o))
    BY PersistentOnDisk DEF IInv, ManifestsMatch
  <2>2. BlocksOf(o) # None
    BY EntryFacts, NoneAssumption DEF IInv, Persistent
  <2> QED
    BY <2>1, <2>2 DEF Recoverable
<1>2. \A o \in Oid : /\ Persistent(o)' <=> o \in back
                     /\ o \in back => BlocksOf(o)' = manifests[o] /\ manifests[o] # None
  BY RecoveredFacts DEF Persistent, BlocksOf
<1>3. manifests' = manifests
  BY DEF Restart
<1>4. Committed' = [o \in Oid |-> IF o \in ghosts THEN Ghosts[o] ELSE Committed[o]]
  <2> SUFFICES ASSUME NEW o \in Oid
               PROVE  Committed'[o] = IF o \in ghosts THEN Ghosts[o] ELSE Committed[o]
    BY DEF Committed
  <2> QED
    BY <1>1, <1>2 DEF Committed, Ghosts
<1>5. Ghosts' = [o \in Oid |-> IF o \in ghosts THEN None ELSE Ghosts[o]]
  BY <1>1, <1>2, <1>3 DEF Ghosts
<1>6. ghosts \in SUBSET {o \in Oid : Ghosts[o] # None}
  BY <1>2 DEF Ghosts, Recoverable
<1> HIDE DEF ghosts
<1>7. Abstract!Restart
  BY Zenon, <1>4, <1>5, <1>6 DEF Abstract!Restart, Committed, Ghosts
<1> QED
  BY <1>7 DEF Abstract!Next

\* Every step of the files is a step of the abstract store or a stutter.
LEMMA RefinementStep ==
  IInv /\ [Next]_vars => [Abstract!Next]_<<Committed, Ghosts>>
<1> SUFFICES ASSUME IInv, [Next]_vars
             PROVE  [Abstract!Next]_<<Committed, Ghosts>>
  OBVIOUS
<1>1. ASSUME NEW o \in Oid, NEW p \in Payload, Register(o, p)
      PROVE  [Abstract!Next]_<<Committed, Ghosts>>
  <2>1. /\ manifests' = manifests /\ ~Persistent(o)'
        /\ \A q \in Oid \ {o} : /\ Persistent(q)' <=> Persistent(q)
                                /\ BlocksOf(q)' = BlocksOf(q)
    BY Zenon, <1>1 DEF Register, Persistent, BlocksOf, IInv, TypeOK
  <2>2. CASE Persistent(o)
    BY Zenon, <2>1, <2>2, GiveUpStep DEF IInv, ManifestsMatch
  <2>3. CASE ~Persistent(o)
    BY <2>1, <2>3, StutterStep
  <2> QED
    BY <2>2, <2>3
<1>2. ASSUME NEW o \in Oid, DropCopy(o) \/ Reload(o)
      PROVE  [Abstract!Next]_<<Committed, Ghosts>>
  <2>0. /\ entries[o] # None /\ manifests' = manifests
        /\ \E l \in BOOLEAN : entries' = [entries EXCEPT ![o].live = l]
    BY Zenon, <1>2 DEF DropCopy, Reload, Persistent
  <2>1. PICK l \in BOOLEAN : entries' = [entries EXCEPT ![o].live = l]
    BY Zenon, <2>0
  <2>2. [entries[o] EXCEPT !.live = l] \in Entry
    BY <2>0, EntryFacts DEF IInv, Entry
  <2>3. \A q \in Oid : /\ Persistent(q)' <=> Persistent(q)
                       /\ Persistent(q) => BlocksOf(q)' = BlocksOf(q)
    BY <2>0, <2>1, <2>2, NoneAssumption DEF Persistent, BlocksOf, IInv, TypeOK, Entry
  <2> QED
    BY <2>0, <2>3, StutterStep
<1>3. ASSUME NEW o \in Oid, BeginDelete(o)
      PROVE  [Abstract!Next]_<<Committed, Ghosts>>
  <2>1. entries[o] # None /\ manifests' = manifests
        /\ entries' = [entries EXCEPT ![o].persistent = FALSE]
    BY <1>3 DEF BeginDelete
  <2>2. /\ ~Persistent(o)'
        /\ \A q \in Oid \ {o} : /\ Persistent(q)' <=> Persistent(q)
                                /\ BlocksOf(q)' = BlocksOf(q)
    BY <2>1, EntryFacts DEF Persistent, BlocksOf, IInv, TypeOK, Entry
  <2>3. CASE Persistent(o)
    BY <2>1, <2>2, <2>3, GiveUpStep DEF IInv, ManifestsMatch
  <2>4. CASE ~Persistent(o)
    BY <2>1, <2>2, <2>4, StutterStep
  <2> QED
    BY <2>3, <2>4
<1>4. ASSUME UNCHANGED <<manifests, entries>>
      PROVE  [Abstract!Next]_<<Committed, Ghosts>>
  BY <1>4, StutterStep DEF Persistent, BlocksOf
<1>5. CASE UnlinkManifest \/ EraseManifest \/ Forget \/ DeleteStops
  <2>0. op # None /\ op.oid \in Oid
    BY <1>5, OpFacts DEF UnlinkManifest, EraseManifest, Forget, DeleteStops, At
  <2>a. PICK o \in Oid : o = op.oid
    BY <2>0
  <2>1. ~entries[o].persistent /\ entries[o] \in Entry
    BY Zenon, <2>0, <2>a, OpFacts
  <2>2. /\ \A q \in Oid \ {o} : manifests'[q] = manifests[q] /\ entries'[q] = entries[q]
        /\ manifests'[o] \in {None, manifests[o]}
        /\ entries'[o] \in {None, entries[o], [entries[o] EXCEPT !.live = FALSE]}
    BY <1>5, <2>a DEF UnlinkManifest, EraseManifest, Forget, DeleteStops, IInv, TypeOK
  <2>3. ~[entries[o] EXCEPT !.live = FALSE].persistent
    BY <2>1 DEF Entry
  <2>4. /\ ~Persistent(o) /\ ~Persistent(o)'
        /\ \A q \in Oid \ {o} : /\ Persistent(q)' <=> Persistent(q)
                                /\ BlocksOf(q)' = BlocksOf(q)
    BY ZenonT(30), <2>1, <2>2, <2>3 DEF Persistent, BlocksOf
  <2> QED
    BY <2>2, <2>4, QuietStep
<1>6. CASE RenameManifest
  BY <1>6, CommitStep
<1>7. CASE Restart
  BY <1>7, RestartRefines
<1>8. CASE \/ PutShared \/ PutExisting \/ WriteBlockTemp \/ RenameBlock
           \/ CommitBudget \/ WriteManifestTemp \/ ReleaseBlock \/ PersistFails
  BY Zenon, <1>4, <1>8 DEF PutShared, PutExisting, WriteBlockTemp, RenameBlock, CommitBudget,
                    WriteManifestTemp, ReleaseBlock, PersistFails
<1>9. ASSUME NEW o \in Oid, BeginPersist(o)
      PROVE  [Abstract!Next]_<<Committed, Ghosts>>
  BY Zenon, <1>4, <1>9 DEF BeginPersist
<1>10. CASE UNCHANGED vars
  BY <1>4, <1>10 DEF vars
<1> QED
  BY SMTT(30), <1>1, <1>2, <1>3, <1>5, <1>6, <1>7, <1>8, <1>9, <1>10 DEF Next, OpStep

\* The persistent tier implements the abstract durable store for every set of
\* objects, blocks and block lists: one step commits, nothing committed is lost
\* in a crash, and only an object that was committed before is ever recovered.
THEOREM StoreImplements == Spec => ImplementsDurableStore
<1>1. Init => Abstract!Init
  BY DEF Init, Abstract!Init, Persistent
<1>2. IInv /\ [Next]_vars => [Abstract!Next]_<<Committed, Ghosts>>
  BY RefinementStep
<1> QED
  BY <1>1, <1>2, Invariance, PTL
     DEF Spec, ImplementsDurableStore, Abstract!Spec, Abstract!vars, Committed, Ghosts

=============================================================================
