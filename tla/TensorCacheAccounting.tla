----------------------- MODULE TensorCacheAccounting -----------------------
(***************************************************************************)
(* The books of the runtime: references in the arena, bytes of the host     *)
(* budget and of the backends, the object count, and the durable objects a  *)
(* restart brings back.                                                     *)
(*                                                                          *)
(* They are exact as long as no registration has to make room.  register    *)
(* computes what it needs, releases the mutex to evict, and reserves the old*)
(* figure afterwards: what it then charges, and what it inserts over, can be*)
(* stale.                                                                   *)
(***************************************************************************)
EXTENDS TensorCacheBudget

-----------------------------------------------------------------------------
(* One lemma per action: it keeps the accounts *)

\* The tiers are told apart.
LEMMA TiersDiffer ==
  /\ Host \in Tier /\ Persistent \in Tier /\ Host # Persistent
  /\ \A b \in Backend : b \in Tier /\ b # Host /\ b # Persistent
BY SMTT(30), RuntimeAssumption DEF Tier, Host, Persistent

\* Without a removal loop nothing is being deleted.
LEMMA NoDelete ==
  ASSUME section = Absent, section' = Absent
  PROVE  /\ DeletePending'
         /\ \A p \in Oid : Deleting(p) => Deleting(p)'
BY SMTT(30) DEF DeletePending, Deleting

\* promote to the host tier keeps the accounts.
LEMMA PromoteHostExact ==
  ASSUME IInv, IInv', Exact, NEW t \in Thread, NEW o \in Oid, PromoteHost(t, o)
  PROVE  Exact' /\ PayloadsKept
<1>1. /\ entries[o] # Absent /\ ~Has(o, Host)
      /\ entries' = [entries EXCEPT ![o].placements = Pushed(o, Host)]
      /\ Acquire(entries[o].payload, NewBytes(entries[o].payload))
      /\ UNCHANGED <<allocated, objectCount, blockSize>>
      /\ section = Absent /\ section' = Absent
  BY DEF PromoteHost, Materializable, Idle
<1>2. Moved(o, {Host}, {}) /\ entries'[o].durable = entries[o].durable
  BY ZenonT(40), <1>1, TiersDiffer, MovedIn
<1>3. AllocExact'
  <2>1. \A b \in Backend : b \notin {Host} /\ allocated'[b] = allocated[b]
    BY SMTT(30), <1>1, TiersDiffer
  <2> QED BY SMTT(30), <1>2, <2>1, AllocMoved DEF IInv, Shape, Exact
<1>4. DeletePending' /\ DurablePlaced'
  BY SMTT(30), <1>1, <1>2, NoDelete, DurableMoved DEF Exact
<1>5. Host \in {Host} \ {}
  BY SMTT(30)
<1> QED
  BY SMTT(30), <1>1, <1>2, <1>3, <1>4, <1>5, MoveUp DEF IInv, Shape

\* promote to an accelerator keeps the accounts.
LEMMA PromoteAcceleratorExact ==
  ASSUME IInv, IInv', Exact, NEW t \in Thread, NEW o \in Oid, NEW b \in Backend,
         PromoteAccelerator(t, o, b)
  PROVE  Exact' /\ PayloadsKept
<1>1. /\ entries[o] # Absent /\ ~Has(o, b)
      /\ entries' = [entries EXCEPT ![o].placements = Pushed(o, b)]
      /\ allocated' = [allocated EXCEPT ![b] = @ + Len(entries[o].payload)]
      /\ UNCHANGED <<arena, used, objectCount, blockSize>>
      /\ section = Absent /\ section' = Absent
  BY SMTT(30) DEF PromoteAccelerator, Materializable, Idle
<1>2. Moved(o, {b}, {}) /\ entries'[o].durable = entries[o].durable
  BY ZenonT(40), <1>1, TiersDiffer, MovedIn
<1>3. AllocExact'
  <2>1. \A d \in Backend :
           /\ d \in {b} => ~Has(o, d) /\ allocated'[d] = allocated[d] + Len(entries[o].payload)
           /\ d \notin {b} => allocated'[d] = allocated[d]
    BY SMTT(30), <1>1 DEF IInv, Shape, TypeOK
  <2> QED BY SMTT(30), <1>2, <2>1, AllocMoved DEF IInv, Shape, Exact
<1>4. DeletePending' /\ DurablePlaced'
  BY SMTT(30), <1>1, <1>2, NoDelete, DurableMoved DEF Exact
<1>5. Host \notin {b} \cup {}
  BY SMTT(30), TiersDiffer
<1> QED
  BY SMTT(30), <1>1, <1>2, <1>3, <1>4, <1>5, MoveBelow DEF IInv, Shape

\* promote and persist to the persistent tier keep the accounts.
LEMMA PromotePersistentExact ==
  ASSUME IInv, IInv', Exact, NEW t \in Thread, NEW o \in Oid, NEW d \in BOOLEAN,
         PromotePersistent(t, o, d)
  PROVE  Exact' /\ PayloadsKept
<1>1. /\ UNCHANGED <<arena, used, allocated, objectCount, blockSize>>
      /\ section = Absent /\ section' = Absent
  BY SMTT(30) DEF PromotePersistent, Idle
<1>2. Moved(o, {Persistent}, {})
  BY SMTT(30), MovedDown
<1>3. AllocExact'
  <2>1. \A b \in Backend : b \notin {Persistent} /\ allocated'[b] = allocated[b]
    BY SMTT(30), <1>1, TiersDiffer
  <2> QED BY SMTT(30), <1>2, <2>1, AllocMoved DEF IInv, Shape, Exact
<1>4. DeletePending' /\ DurablePlaced'
  BY SMTT(30), <1>1, <1>2, NoDelete, DurableMoved DEF Exact
<1>5. Host \notin {Persistent} \cup {}
  BY SMTT(30), TiersDiffer
<1> QED
  BY SMTT(30), <1>1, <1>2, <1>3, <1>4, <1>5, MoveBelow DEF IInv, Shape

\* persist keeps the accounts.
LEMMA PersistExact ==
  ASSUME IInv, IInv', Exact, NEW t \in Thread, NEW o \in Oid, Persist(t, o)
  PROVE  Exact' /\ PayloadsKept
<1>1. CASE PromotePersistent(t, o, TRUE)
  BY ZenonT(40), <1>1, PromotePersistentExact
<1>2. CASE /\ Idle(t) /\ Has(o, Persistent)
           /\ entries' = [entries EXCEPT ![o].durable = TRUE]
           /\ UNCHANGED <<arena, used, allocated, objectCount, blockSize, manifest,
                          pending, section>>
  <2> DEFINE r == [entries[o] EXCEPT !.durable = TRUE]
  <2>1. entries[o] # Absent /\ entries[o] \in Entry
    BY SMTT(30), <1>2, EntryFacts DEF Has, IInv, Shape
  <2>2. entries' = [entries EXCEPT ![o] = r]
    BY SMTT(30), <1>2 DEF IInv, Shape, TypeOK
  <2>3. r \in Entry /\ r.placements = entries[o].placements /\ r.payload = entries[o].payload
    BY ZenonT(40), <2>1 DEF Entry
  <2> HIDE DEF r
  <2>4. entries'[o] = r /\ \A p \in Oid : p # o => entries'[p] = entries[p]
    BY SMTT(30), <2>2 DEF IInv, Shape, TypeOK
  <2>5. entries'[o] # Absent
    BY SMTT(30), <2>3, <2>4, AbsentAssumption
  <2>6. Registered' = Registered
    BY SMTT(30), <2>1, <2>4, <2>5 DEF Registered
  <2>7. Moved(o, {}, {})
    <3>1. Range(entries'[o].placements) = (Range(entries[o].placements) \cup {}) \ {}
      BY SMTT(30), <2>3, <2>4
    <3>2. entries' \in [Oid -> Entry \cup {Absent}] /\ entries'[o].payload = entries[o].payload
      BY SMTT(30), <2>3, <2>4 DEF IInv, Shape, TypeOK
    <3> QED BY ZenonT(40), <2>1, <2>4, <2>5, <2>6, <3>1, <3>2 DEF Moved
  <2>8. section = Absent /\ section' = Absent
    BY SMTT(30), <1>2 DEF Idle
  <2>9. DeletePending' /\ DurablePlaced'
    BY SMTT(30), <1>2, <2>7, <2>8, NoDelete, DurableMoved DEF Exact
  <2>10. AllocExact'
    BY SMTT(30), <1>2, <2>7, AllocMoved DEF IInv, Shape, Exact
  <2> QED BY SMTT(30), <1>2, <2>7, <2>9, <2>10, MoveBelow DEF IInv, Shape
<1> QED
  BY ZenonT(40), <1>1, <1>2 DEF Persist

\* demote from the host tier keeps the accounts.
LEMMA DemoteHostExact ==
  ASSUME IInv, IInv', Exact, NEW t \in Thread, NEW o \in Oid, DemoteHost(t, o)
  PROVE  Exact' /\ PayloadsKept
<1>1. /\ Has(o, Host) /\ UNCHANGED <<allocated, objectCount, blockSize>>
      /\ section = Absent /\ section' = Absent
  BY SMTT(30) DEF DemoteHost, Idle
<1>2. PICK A \in {{}, {Persistent}} : Moved(o, A, {Host}) /\ entries'[o].durable = entries[o].durable
  <2>1. CASE entries' = [entries EXCEPT ![o].placements = Without(@, Host)]
    BY ZenonT(40), <1>1, <2>1, TiersDiffer, MovedOut
  <2>2. CASE /\ ~Has(o, Persistent)
             /\ entries' = [entries EXCEPT ![o].placements =
                              Without(Pushed(o, Persistent), Host)]
    BY ZenonT(40), <1>1, <2>2, TiersDiffer, MovedOver
  <2> QED BY SMTT(30), <2>1, <2>2 DEF DemoteHost
<1>3. PICK n \in 0..Len(HostBlocks(entries[o].payload)), ok \in BOOLEAN :
         Release(entries[o].payload, n, ok)
  BY SMTT(30) DEF DemoteHost
<1>4. Charged' /\ RefsExact' /\ CountExact' /\ PayloadsKept
  <2>1. Host \in {Host}
    BY SMTT(30)
  <2> QED BY ZenonT(40), <1>1, <1>2, <1>3, <2>1, MoveDown DEF IInv, Shape
<1>5. AllocExact'
  <2>1. A \cap {Host} = {}
        /\ \A b \in Backend : b \notin A \cup {Host} /\ allocated'[b] = allocated[b]
    BY SMTT(30), <1>1, TiersDiffer
  <2> QED BY SMTT(30), <1>2, <2>1, AllocMoved DEF IInv, Shape, Exact
<1>6. DeletePending' /\ DurablePlaced'
  <2>1. Persistent \notin {Host}
    BY SMTT(30), TiersDiffer
  <2> QED BY SMTT(30), <1>1, <1>2, <2>1, NoDelete, DurableMoved DEF Exact
<1> QED
  BY SMTT(30), <1>4, <1>5, <1>6 DEF Exact

\* demote from an accelerator keeps the accounts.
LEMMA DemoteAcceleratorExact ==
  ASSUME IInv, IInv', Exact, NEW t \in Thread, NEW o \in Oid, NEW b \in Backend,
         DemoteAccelerator(t, o, b)
  PROVE  Exact' /\ PayloadsKept
<1>1. /\ Has(o, b) /\ UNCHANGED <<objectCount, blockSize>>
      /\ allocated' = [allocated EXCEPT ![b] = @ - Len(entries[o].payload)]
      /\ section = Absent /\ section' = Absent
  BY SMTT(30) DEF DemoteAccelerator, Idle
<1>2. \A d \in Backend :
         /\ d \in {b} => Has(o, d) /\ allocated'[d] = allocated[d] - Len(entries[o].payload)
         /\ d \notin {b} => allocated'[d] = allocated[d]
  BY SMTT(30), <1>1 DEF IInv, Shape, TypeOK
<1>3. Persistent \notin {b} /\ Host \notin {b} /\ \A d \in Backend : d \notin {Host}
  BY SMTT(30), TiersDiffer
<1>4. CASE /\ entries' = [entries EXCEPT ![o].placements = Without(@, b)]
           /\ UNCHANGED <<arena, used>>
  <2>1. Moved(o, {}, {b}) /\ entries'[o].durable = entries[o].durable
    BY ZenonT(40), <1>1, <1>4, TiersDiffer, MovedOut
  <2>2. AllocExact'
    BY SMTT(30), <1>2, <2>1, AllocMoved DEF IInv, Shape, Exact
  <2>3. DeletePending' /\ DurablePlaced'
    BY SMTT(30), <1>1, <1>3, <2>1, NoDelete, DurableMoved DEF Exact
  <2> QED BY SMTT(30), <1>1, <1>3, <1>4, <2>1, <2>2, <2>3, MoveBelow DEF IInv, Shape
<1>5. CASE /\ ~Has(o, Host)
           /\ Acquire(entries[o].payload, NewBytes(entries[o].payload))
           /\ entries' = [entries EXCEPT ![o].placements = Without(Pushed(o, Host), b)]
  <2>1. Moved(o, {Host}, {b}) /\ entries'[o].durable = entries[o].durable
    BY ZenonT(40), <1>1, <1>5, TiersDiffer, MovedOver
  <2>2. AllocExact'
    BY SMTT(30), <1>2, <1>3, <2>1, AllocMoved DEF IInv, Shape, Exact
  <2>3. DeletePending' /\ DurablePlaced'
    BY SMTT(30), <1>1, <1>3, <2>1, NoDelete, DurableMoved DEF Exact
  <2>4. Host \in {Host} \ {b}
    BY SMTT(30), <1>3
  <2> QED BY SMTT(30), <1>1, <1>5, <2>1, <2>2, <2>3, <2>4, MoveUp DEF IInv, Shape
<1> QED
  BY SMTT(30), <1>4, <1>5 DEF DemoteAccelerator

\* Every element of a list but the first is in its tail.
LEMMA TailKeeps ==
  ASSUME NEW s \in Seq(Tier), s # <<>>
  PROVE  Range(s) \subseteq Range(Tail(s)) \cup {Head(s)}
<1> SUFFICES ASSUME NEW i \in DOMAIN s, s[i] # Head(s) PROVE s[i] \in Range(Tail(s))
  BY SMTT(30) DEF Range
<1>1. Len(s) \in Nat /\ DOMAIN s = 1..Len(s) /\ Head(s) = s[1]
  BY SMTT(30)
<1>2. i \in 2..Len(s)
  BY SMTT(30), <1>1
<1>3. i - 1 \in DOMAIN Tail(s) /\ Tail(s)[i - 1] = s[i]
  BY SMTT(30), <1>1, <1>2
<1> QED
  BY SMTT(30), <1>3 DEF Range

\* The removal loop takes a placement out and moves on.
LEMMA LoopExact ==
  ASSUME IInv, DeletePending, NEW o \in Oid, o = section.oid, NEW t, Removing(t),
         Moved(o, {}, {t}), NextTier
  PROVE  DeletePending' /\ \A p \in Oid : Deleting(p)' <=> Deleting(p)
<1>1. /\ section \in Section /\ section # Absent /\ section.todo # <<>>
      /\ Head(section.todo) = t /\ section.todo \in Seq(Tier)
  BY SMTT(30) DEF IInv, Shape, TypeOK, Section, Removing
<1>2. section' = [section EXCEPT !.todo = Tail(section.todo)]
  BY SMTT(30) DEF NextTier
<1>3. /\ section'.op = section.op /\ section'.oid = section.oid
      /\ section'.todo = Tail(section.todo)
  BY ZenonT(40), <1>1, <1>2 DEF Section
<1>4. section' # Absent
  BY SMTT(30), <1>1, NextTierType, AbsentAssumption DEF IInv, Shape
<1>5. Range(section.todo) \subseteq Range(Tail(section.todo)) \cup {t}
  BY SMTT(30), <1>1, TailKeeps
<1>6. ASSUME NEW p \in Oid, Deleting(p)'
      PROVE  entries'[p] # Absent /\ Range(entries'[p].placements) \subseteq Range(section'.todo)
  <2>1. p = o /\ Deleting(o)
    BY SMTT(30), <1>1, <1>3, <1>6 DEF Deleting
  <2>2. Range(entries[o].placements) \subseteq Range(section.todo)
    BY SMTT(30), <2>1 DEF DeletePending
  <2>3. /\ entries'[o] # Absent
        /\ Range(entries'[o].placements) = (Range(entries[o].placements) \cup {}) \ {t}
    BY ZenonT(40) DEF Moved
  <2> QED BY SMTT(30), <1>3, <1>5, <2>1, <2>2, <2>3
<1> QED
  BY SMTT(30), <1>1, <1>3, <1>4, <1>6 DEF DeletePending, Deleting

\* Removing the host placement in a loop never fails and keeps the accounts.
LEMMA RemoveHostExact ==
  ASSUME IInv, IInv', Exact, RemoveHost
  PROVE  Exact' /\ PayloadsKept
<1>0. PICK o \in Oid : o = section.oid
  BY SMTT(30), RemovingObject DEF RemoveHost
<1>1. /\ Has(o, Host) /\ Removing(Host)
      /\ entries' = [entries EXCEPT ![o].placements = Without(@, Host)]
      /\ UNCHANGED <<allocated, objectCount, blockSize>>
  BY SMTT(30), <1>0 DEF RemoveHost
<1>2. Moved(o, {}, {Host}) /\ entries'[o].durable = entries[o].durable
  BY ZenonT(40), <1>1, TiersDiffer, MovedOut
<1>3. PICK n \in 0..Len(HostBlocks(entries[o].payload)), ok \in BOOLEAN :
         /\ Release(entries[o].payload, n, ok)
         /\ ok => NextTier
  BY SMTT(30), <1>0 DEF RemoveHost
<1>4. ok /\ Charged' /\ RefsExact' /\ CountExact' /\ PayloadsKept
  <2>1. Host \in {Host}
    BY SMTT(30)
  <2> QED BY SMTT(30), <1>1, <1>2, <1>3, <2>1, MoveDown DEF IInv, Shape
<1>5. AllocExact'
  <2>1. \A b \in Backend : b \notin {} \cup {Host} /\ allocated'[b] = allocated[b]
    BY SMTT(30), <1>1, TiersDiffer
  <2> QED BY SMTT(30), <1>2, <2>1, AllocMoved DEF IInv, Shape, Exact
<1>6. DeletePending' /\ \A p \in Oid : Deleting(p)' <=> Deleting(p)
  BY SMTT(30), <1>0, <1>1, <1>2, <1>3, <1>4, LoopExact DEF Exact
<1>7. DurablePlaced'
  <2>1. Persistent \notin {Host}
    BY SMTT(30), TiersDiffer
  <2> QED BY SMTT(30), <1>2, <1>6, <2>1, DurableMoved DEF Exact
<1> QED
  BY SMTT(30), <1>4, <1>5, <1>6, <1>7 DEF Exact

\* Freeing a device buffer in a loop keeps the accounts.
LEMMA RemoveAcceleratorExact ==
  ASSUME IInv, IInv', Exact, NEW b \in Backend, RemoveAccelerator(b)
  PROVE  Exact' /\ PayloadsKept
<1>0. PICK o \in Oid : o = section.oid
  BY SMTT(30), RemovingObject DEF RemoveAccelerator
<1>1. /\ Has(o, b) /\ Removing(b) /\ NextTier
      /\ entries' = [entries EXCEPT ![o].placements = Without(@, b)]
      /\ allocated' = [allocated EXCEPT ![b] = @ - Len(entries[o].payload)]
      /\ UNCHANGED <<arena, used, objectCount, blockSize>>
  BY SMTT(30), <1>0 DEF RemoveAccelerator
<1>2. Moved(o, {}, {b}) /\ entries'[o].durable = entries[o].durable
  BY ZenonT(40), <1>1, TiersDiffer, MovedOut
<1>3. AllocExact'
  <2>1. \A d \in Backend :
           /\ d \in {b} => Has(o, d) /\ allocated'[d] = allocated[d] - Len(entries[o].payload)
           /\ d \notin {b} => allocated'[d] = allocated[d]
    BY SMTT(30), <1>1 DEF IInv, Shape, TypeOK
  <2> QED BY SMTT(30), <1>2, <2>1, AllocMoved DEF IInv, Shape, Exact
<1>4. DeletePending' /\ \A p \in Oid : Deleting(p)' <=> Deleting(p)
  BY SMTT(30), <1>0, <1>1, <1>2, LoopExact DEF Exact
<1>5. DurablePlaced'
  <2>1. Persistent \notin {b}
    BY SMTT(30), TiersDiffer
  <2> QED BY SMTT(30), <1>2, <1>4, <2>1, DurableMoved DEF Exact
<1>6. Host \notin {} \cup {b}
  BY SMTT(30), TiersDiffer
<1> QED
  BY SMTT(30), <1>1, <1>2, <1>3, <1>4, <1>5, <1>6, MoveBelow DEF IInv, Shape

\* Removing the persistent placement in delete's loop keeps the accounts.
LEMMA RemovePersistentExact ==
  ASSUME IInv, IInv', Exact, RemovePersistent
  PROVE  Exact' /\ PayloadsKept
<1>0. PICK o \in Oid : o = section.oid
  BY SMTT(30), RemovingObject DEF RemovePersistent
<1>1. /\ Has(o, Persistent) /\ Removing(Persistent) /\ NextTier /\ Deleting(o)
      /\ entries' = [entries EXCEPT ![o].placements = Without(@, Persistent)]
      /\ UNCHANGED <<arena, used, allocated, objectCount, blockSize>>
  BY SMTT(30), <1>0 DEF RemovePersistent, Deleting, Removing
<1>2. Moved(o, {}, {Persistent}) /\ entries'[o].durable = entries[o].durable
  BY ZenonT(40), <1>1, TiersDiffer, MovedOut
<1>3. AllocExact'
  <2>1. \A b \in Backend : b \notin {} \cup {Persistent} /\ allocated'[b] = allocated[b]
    BY SMTT(30), <1>1, TiersDiffer
  <2> QED BY SMTT(30), <1>2, <2>1, AllocMoved DEF IInv, Shape, Exact
<1>4. DeletePending' /\ \A p \in Oid : Deleting(p)' <=> Deleting(p)
  BY SMTT(30), <1>0, <1>1, <1>2, LoopExact DEF Exact
<1>5. DurablePlaced'
  BY SMTT(30), <1>1, <1>2, <1>4, DurableMoved DEF Exact
<1>6. Host \notin {} \cup {Persistent}
  BY SMTT(30), TiersDiffer
<1> QED
  BY SMTT(30), <1>1, <1>2, <1>3, <1>4, <1>5, <1>6, MoveBelow DEF IInv, Shape

\* A registration of a new object keeps the accounts.
LEMMA InsertExact ==
  ASSUME IInv, IInv', Exact, NEW o \in Oid, NEW c \in Content, entries[o] = Absent,
         Insert(o, c, NewBytes(c)), UNCHANGED <<allocated, blockSize>>,
         section = Absent, section' = Absent
  PROVE  Exact' /\ PayloadsKept
<1> DEFINE r == [payload |-> c, chunked |-> blockSize, placements |-> <<Host>>,
                 durable |-> FALSE]
<1>1. /\ Acquire(c, NewBytes(c)) /\ entries' = [entries EXCEPT ![o] = r]
      /\ objectCount' = objectCount + 1
  BY SMTT(30) DEF Insert
<1>2. r \in Entry /\ r.payload = c /\ r.placements = <<Host>> /\ ~r.durable
  <2>1. blockSize \in BlockSizes
    BY ZenonT(40) DEF IInv, Shape, TypeOK
  <2> QED BY ZenonT(40), <2>1, InsertedEntry
<1> HIDE DEF r
<1>3. entries'[o] = r /\ \A p \in Oid : p # o => entries'[p] = entries[p]
  BY SMTT(30), <1>1 DEF IInv, Shape, TypeOK
<1>4. entries'[o] # Absent
  BY SMTT(30), <1>2, <1>3, AbsentAssumption
<1>5. Range(<<Host>>) = {Host}
  BY SMTT(30) DEF Range
<1>6. /\ Holders(Host)' = Holders(Host) \cup {o} /\ o \notin Holders(Host)
      /\ \A b \in Backend : Holders(b)' = Holders(b)
      /\ \A t : \A p \in Holders(t) : entries'[p] = entries[p]
  BY SMTT(30), <1>2, <1>3, <1>4, <1>5, TiersDiffer DEF Holders, Has
<1>7. Charged'
  BY SMTT(30), <1>1, ChargedAcquire DEF IInv, Shape, Exact
<1>8. RefsExact'
  <2> SUFFICES ASSUME NEW h \in Block PROVE arena'[h] = Cardinality(HostUses(h)')
    BY SMTT(30) DEF RefsExact
  <2> DEFINE S == Holders(Host)
             D == UsesOf(entries, blockSize, h)
             E == UsesOf(entries', blockSize, h)
             k == Count(HostBlocks(c), Len(HostBlocks(c)), h)
  <2>1. IsFiniteSet(S)
    BY SMTT(30), RuntimeAssumption, FS_Subset DEF Holders
  <2>2. \A p \in S : E[p] = D[p]
    BY SMTT(30), <1>6 DEF UsesOf, Holders
  <2>3. \A p \in S : IsFiniteSet(D[p])
    BY ZenonT(40), HeldUsesFinite DEF IInv, Shape
  <2>4. IsFiniteSet(E[o]) /\ Cardinality(E[o]) = k
    <3>1. c \in Content /\ blockSize \in BlockSizes
      BY ZenonT(40) DEF IInv, Shape, TypeOK
    <3>2. E[o] = Occurrences(c, blockSize, h)
      BY ZenonT(40), <1>2, <1>3 DEF UsesOf
    <3> QED BY ZenonT(40), <3>1, <3>2, OccurrencesFinite DEF HostBlocks
  <2>5. HostUses(h) = Pairs(S, D) /\ HostUses(h)' = Pairs(S \cup {o}, E)
    BY ZenonT(40), <1>6, UsesAsPairs, NextUsesAsPairs DEF IInv, Shape
  <2>6. o \notin S
    BY SMTT(30), <1>6
  <2> HIDE DEF S, D, E, k
  <2>7. Cardinality(Pairs(S \cup {o}, E)) = Cardinality(Pairs(S, D)) + Cardinality(E[o])
    BY ONLY SMTT(30), <2>1, <2>2, <2>3, <2>4, <2>6, PairsGain
  <2>8. arena'[h] = arena[h] + k /\ arena[h] = Cardinality(HostUses(h))
    BY SMTT(30), <1>1 DEF Acquire, RefsExact, Exact, k
  <2> QED BY ZenonT(40), <2>4, <2>5, <2>7, <2>8
<1>9. AllocExact'
  <2> SUFFICES ASSUME NEW b \in Backend
               PROVE  allocated'[b] = Cardinality(Pairs(Holders(b)', PayloadBytes'))
    BY SMTT(30) DEF AllocExact, Pairs
  <2>1. \A p \in Holders(b) : PayloadBytes'[p] = PayloadBytes[p]
    BY SMTT(30), <1>6 DEF PayloadBytes, Holders
  <2>2. Pairs(Holders(b)', PayloadBytes') = Pairs(Holders(b), PayloadBytes)
    BY SMTT(30), <1>6, <2>1 DEF Pairs
  <2> QED BY SMTT(30), <2>2 DEF AllocExact, Exact
<1>10. CountExact'
  <2>1. Registered' = Registered \cup {o} /\ o \notin Registered /\ IsFiniteSet(Registered)
    BY SMTT(30), <1>3, <1>4, RuntimeAssumption, FS_Subset DEF Registered
  <2>2. Cardinality(Registered \cup {o}) = Cardinality(Registered) + 1
    BY ZenonT(40), <2>1, FS_AddElement
  <2> QED BY SMTT(30), <1>1, <2>1, <2>2 DEF CountExact, Exact
<1>11. DeletePending' /\ DurablePlaced'
  <2>1. DeletePending' /\ \A p \in Oid : ~Deleting(p)
    BY SMTT(30), NoDelete DEF Deleting
  <2>2. DurablePlaced'
    BY SMTT(30), <1>2, <1>3, <2>1 DEF DurablePlaced, Has, Exact
  <2> QED BY SMTT(30), <2>1, <2>2
<1>12. PayloadsKept
  BY SMTT(30), <1>3 DEF PayloadsKept
<1> QED
  BY SMTT(30), <1>7, <1>8, <1>9, <1>10, <1>11, <1>12 DEF Exact

\* The end of delete keeps the accounts: its object is in no tier any more.
LEMMA DeleteDoneExact ==
  ASSUME IInv, IInv', Exact, DeleteDone
  PROVE  Exact' /\ PayloadsKept
<1>0. PICK o \in Oid : o = section.oid
  BY SMTT(30) DEF DeleteDone, InLoop, IInv, Shape, TypeOK, Section
<1>1. /\ Deleting(o) /\ section.todo = <<>> /\ section' = Absent
      /\ entries' = [entries EXCEPT ![o] = Absent]
      /\ objectCount' = IF objectCount > 0 THEN objectCount - 1 ELSE 0
      /\ UNCHANGED <<arena, used, allocated, blockSize>>
  BY SMTT(30), <1>0 DEF DeleteDone, InLoop, Deleting
<1>2. entries[o] # Absent /\ Range(entries[o].placements) \subseteq Range(<<>>)
  BY SMTT(30), <1>1 DEF DeletePending, Exact
<1>3. Range(<<>>) = {}
  BY SMTT(30) DEF Range
<1>4. entries'[o] = Absent /\ \A p \in Oid : p # o => entries'[p] = entries[p]
  BY SMTT(30), <1>1 DEF IInv, Shape, TypeOK
<1>5. \A t : Holders(t)' = Holders(t) /\ \A p \in Holders(t) : entries'[p] = entries[p]
  BY SMTT(30), <1>2, <1>3, <1>4 DEF Holders, Has
<1>6. Charged'
  BY SMTT(30), <1>1 DEF Charged, Held, Bytes, Distinct, Exact
<1>7. RefsExact'
  <2> SUFFICES ASSUME NEW h \in Block PROVE HostUses(h)' = HostUses(h)
    BY SMTT(30), <1>1 DEF RefsExact, Exact
  <2>1. \A p \in Holders(Host) :
           UsesOf(entries', blockSize, h)[p] = UsesOf(entries, blockSize, h)[p]
    BY SMTT(30), <1>5 DEF UsesOf, Holders
  <2>2. Pairs(Holders(Host)', UsesOf(entries', blockSize, h))
          = Pairs(Holders(Host), UsesOf(entries, blockSize, h))
    BY SMTT(30), <1>5, <2>1 DEF Pairs
  <2> QED BY ZenonT(40), <1>1, <2>2, UsesAsPairs, NextUsesAsPairs DEF IInv, Shape
<1>8. AllocExact'
  <2> SUFFICES ASSUME NEW b \in Backend
               PROVE  allocated'[b] = Cardinality(Pairs(Holders(b)', PayloadBytes'))
    BY SMTT(30) DEF AllocExact, Pairs
  <2>1. \A p \in Holders(b) : PayloadBytes'[p] = PayloadBytes[p]
    BY SMTT(30), <1>5 DEF PayloadBytes, Holders
  <2>2. Pairs(Holders(b)', PayloadBytes') = Pairs(Holders(b), PayloadBytes)
    BY SMTT(30), <1>5, <2>1 DEF Pairs
  <2> QED BY SMTT(30), <1>1, <2>2 DEF AllocExact, Exact
<1>9. CountExact'
  <2>1. Registered' = Registered \ {o} /\ o \in Registered /\ IsFiniteSet(Registered)
    BY SMTT(30), <1>2, <1>4, RuntimeAssumption, FS_Subset DEF Registered
  <2>2. Cardinality(Registered \ {o}) = Cardinality(Registered) - 1
    BY ZenonT(40), <2>1, FS_RemoveElement
  <2>3. Cardinality(Registered) \in Nat /\ Cardinality(Registered \ {o}) \in Nat
    BY SMTT(30), <2>1, FS_Subset, FS_CardinalityType
  <2> QED BY SMTT(30), <1>1, <2>1, <2>2, <2>3 DEF CountExact, Exact
<1>10. DeletePending' /\ DurablePlaced'
  <2>1. \A p \in Oid : ~Deleting(p)' /\ (p # o => ~Deleting(p))
    BY SMTT(30), <1>1 DEF Deleting
  <2> QED BY SMTT(30), <1>4, <2>1 DEF DeletePending, DurablePlaced, Has, Exact
<1>11. PayloadsKept
  <2>1. manifest'[o] = Absent
    BY SMTT(30), <1>0 DEF DeleteDone, IInv, Shape, TypeOK
  <2> QED BY SMTT(30), <1>4, <2>1 DEF PayloadsKept
<1> QED
  BY ZenonT(40), <1>6, <1>7, <1>8, <1>9, <1>10, <1>11 DEF Exact

\* An empty runtime has nothing on its books.
LEMMA EmptyExact ==
  ASSUME NEW a, a = [h \in Block |-> 0], NEW D
  PROVE  /\ {h \in Block : a[h] > 0} = {}
         /\ IsFiniteSet(Bytes({})) /\ Cardinality(Bytes({})) = 0
         /\ Cardinality(Pairs({}, D)) = 0
<1>1. {h \in Block : a[h] > 0} = {}
  BY SMTT(30)
<1>2. Bytes({}) = {} /\ Pairs({}, D) = {}
  BY SMTT(30) DEF Bytes, Pairs
<1> QED
  BY SMTT(30), <1>1, <1>2, FS_EmptySet

\* A restart keeps the accounts: it starts with empty memory tiers.
LEMMA RestartExact ==
  ASSUME IInv, IInv', Exact, NEW s \in BlockSizes, Restart(s)
  PROVE  Exact'
<1> USE DEF IInv, Shape
<1>1. \A o \in Oid : entries'[o] = Recovered(manifest[o])
  BY SMTT(30) DEF Restart
<1>2. \A o \in Oid : manifest[o] # Absent =>
        /\ Recovered(manifest[o]) \in Entry
        /\ Recovered(manifest[o]).placements = <<Persistent>>
  <2> SUFFICES ASSUME NEW o \in Oid, manifest[o] # Absent
               PROVE  /\ Recovered(manifest[o]) \in Entry
                      /\ Recovered(manifest[o]).placements = <<Persistent>>
    OBVIOUS
  <2>1. manifest[o] \in Manifest
    BY SMTT(30) DEF TypeOK
  <2> QED BY ZenonT(40), <2>1, RecoveredEntry
<1>3. \A o \in Oid : manifest[o] = Absent => Recovered(manifest[o]) = Absent
  BY ZenonT(40) DEF Recovered
<1>4. \A o \in Oid : /\ entries'[o] # Absent <=> manifest[o] # Absent
                     /\ entries'[o] # Absent => entries'[o].placements = <<Persistent>>
  BY SMTT(30), <1>1, <1>2, <1>3, AbsentAssumption
<1>5. Range(<<Persistent>>) = {Persistent}
  BY SMTT(30) DEF Range
<1>6. Holders(Host)' = {} /\ \A b \in Backend : Holders(b)' = {}
  BY SMTT(30), <1>4, <1>5, TiersDiffer DEF Holders, Has
<1>7. Charged'
  <2>1. Held' = {} /\ used' = 0
    BY SMTT(30), EmptyExact DEF Held, Restart
  <2>2. IsFiniteSet(Bytes({})) /\ Cardinality(Bytes({})) = 0
    BY ZenonT(40), EmptyExact
  <2>3. Bytes(Held)' = Bytes({})
    BY SMTT(30), <2>1 DEF Bytes
  <2> QED BY SMTT(30), <2>1, <2>2, <2>3 DEF Charged
<1>8. RefsExact'
  <2> SUFFICES ASSUME NEW h \in Block PROVE Cardinality(HostUses(h)') = 0
    BY SMTT(30) DEF RefsExact, Restart
  <2>1. HostUses(h)' = Pairs({}, UsesOf(entries', blockSize', h))
    BY SMTT(30), <1>6, NextUsesAsPairs
  <2> QED BY ZenonT(40), <2>1, EmptyExact
<1>9. AllocExact'
  <2> SUFFICES ASSUME NEW b \in Backend
               PROVE  Cardinality(Pairs(Holders(b)', PayloadBytes')) = 0
    BY SMTT(30) DEF AllocExact, Pairs, Restart
  <2> QED BY ZenonT(40), <1>6, EmptyExact
<1>10. CountExact'
  <2>1. Registered' = {o \in Oid : manifest[o] # Absent}
    BY SMTT(30), <1>4 DEF Registered
  <2> QED BY SMTT(30), <2>1 DEF CountExact, Restart
<1>11. DeletePending' /\ DurablePlaced'
  <2>1. \A p \in Oid : ~Deleting(p)'
    BY SMTT(30) DEF Deleting, Restart
  <2> QED BY SMTT(30), <1>4, <1>5, <2>1 DEF DeletePending, DurablePlaced, Has
<1> QED
  BY SMTT(30), <1>7, <1>8, <1>9, <1>10, <1>11 DEF Exact

\* The accounts are exact at the start.
LEMMA InitExact == Init => Exact
<1> SUFFICES ASSUME Init PROVE Exact
  BY SMTT(30)
<1>1. \A o \in Oid : entries[o] = Absent
  BY SMTT(30) DEF Init
<1>2. Registered = {} /\ \A t : Holders(t) = {}
  BY SMTT(30), <1>1 DEF Registered, Holders, Has
<1>3. Charged
  <2>1. Held = {} /\ used = 0
    BY SMTT(30), EmptyExact DEF Held, Init
  <2>2. IsFiniteSet(Bytes({})) /\ Cardinality(Bytes({})) = 0
    BY SMTT(30), EmptyExact DEF Init
  <2> QED BY SMTT(30), <2>1, <2>2 DEF Charged
<1>4. RefsExact
  <2> SUFFICES ASSUME NEW h \in Block PROVE Cardinality(HostUses(h)) = 0
    BY SMTT(30) DEF RefsExact, Init
  <2>1. HostUses(h) = {}
    BY SMTT(30), <1>1 DEF HostUses, Has
  <2> QED BY SMTT(30), <2>1, FS_EmptySet
<1>5. AllocExact
  <2> SUFFICES ASSUME NEW b \in Backend PROVE Cardinality(Pairs(Holders(b), PayloadBytes)) = 0
    BY SMTT(30) DEF AllocExact, Init
  <2> QED BY ZenonT(40), <1>2, EmptyExact DEF Init
<1>6. CountExact
  BY SMTT(30), <1>2, FS_EmptySet DEF CountExact, Init
<1>7. DeletePending /\ DurablePlaced
  BY SMTT(30), <1>1 DEF DeletePending, DurablePlaced, Deleting, Init
<1> QED
  BY SMTT(30), <1>3, <1>4, <1>5, <1>6, <1>7 DEF Exact

\* Steps that only open, advance or close a removal loop keep the accounts.
LEMMA ControlExact ==
  ASSUME Exact, UNCHANGED <<entries, arena, used, allocated, objectCount, blockSize>>,
         DeletePending', \A p \in Oid : Deleting(p) => Deleting(p)'
  PROVE  Exact' /\ PayloadsKept
<1>1. Charged'
  BY SMTT(30) DEF Charged, Held, Bytes, Distinct, Exact
<1>2. RefsExact' /\ CountExact'
  BY SMTT(30) DEF RefsExact, HostUses, Has, HostBlocks, CountExact, Registered, Exact
<1>3. AllocExact'
  BY SMTT(30) DEF AllocExact, Pairs, Holders, Has, PayloadBytes, Exact
<1>4. DurablePlaced'
  BY SMTT(30) DEF DurablePlaced, Has, Exact
<1>5. PayloadsKept
  BY SMTT(30) DEF PayloadsKept
<1> QED
  BY ZenonT(40), <1>1, <1>2, <1>3, <1>4, <1>5 DEF Exact

\* Evict, Delete, SkipPersistent and EvictDone keep the accounts.
LEMMA LoopControlExact ==
  ASSUME IInv, Exact,
         \/ \E t \in Thread, o \in Oid : Evict(t, o) \/ Delete(t, o)
         \/ SkipPersistent
         \/ EvictDone
  PROVE  Exact' /\ PayloadsKept
<1>1. ASSUME NEW t \in Thread, NEW o \in Oid, Evict(t, o) PROVE Exact' /\ PayloadsKept
  <2>1. \A p \in Oid : ~Deleting(p) /\ ~Deleting(p)'
    BY ZenonT(40), <1>1 DEF Evict, Idle, Deleting
  <2>2. DeletePending'
    BY SMTT(30), <2>1 DEF DeletePending
  <2>3. UNCHANGED <<entries, arena, used, allocated, objectCount, blockSize>>
    BY ZenonT(40), <1>1 DEF Evict
  <2> QED BY ZenonT(40), <2>1, <2>2, <2>3, ControlExact
<1>2. ASSUME NEW t \in Thread, NEW o \in Oid, Delete(t, o) PROVE Exact' /\ PayloadsKept
  <2>1. /\ section = Absent /\ entries' = entries /\ entries[o] # Absent
        /\ section'.oid = o /\ section'.todo = entries[o].placements
    BY ZenonT(40), <1>2 DEF Delete, Idle
  <2>2. DeletePending' /\ \A p \in Oid : ~Deleting(p)
    BY SMTT(30), <2>1 DEF DeletePending, Deleting
  <2>3. UNCHANGED <<entries, arena, used, allocated, objectCount, blockSize>>
    BY ZenonT(40), <1>2 DEF Delete
  <2> QED BY ZenonT(40), <2>2, <2>3, ControlExact
<1>3. CASE SkipPersistent
  <2>1. section # Absent /\ section.todo # <<>> /\ NextTier /\ section.op # "delete"
    BY SMTT(30), <1>3 DEF SkipPersistent, Removing
  <2>2. section'.op = section.op
    BY SMTT(30), <2>1, NextTierType DEF IInv, Shape
  <2>3. \A p \in Oid : ~Deleting(p) /\ ~Deleting(p)'
    BY SMTT(30), <2>1, <2>2 DEF Deleting
  <2>4. DeletePending'
    BY SMTT(30), <2>3 DEF DeletePending
  <2>5. UNCHANGED <<entries, arena, used, allocated, objectCount, blockSize>>
    BY ZenonT(40), <1>3 DEF SkipPersistent
  <2> QED BY ZenonT(40), <2>3, <2>4, <2>5, ControlExact
<1>4. CASE EvictDone
  <2>1. \A p \in Oid : ~Deleting(p) /\ ~Deleting(p)'
    BY SMTT(30), <1>4 DEF EvictDone, InLoop, Deleting
  <2>2. DeletePending'
    BY <2>1 DEF DeletePending
  <2> QED BY SMTT(30), <1>4, <2>1, <2>2, ControlExact DEF EvictDone
<1> QED
  BY ZenonT(40), <1>1, <1>2, <1>3, <1>4

-----------------------------------------------------------------------------
(* Every step without pressure, and every step where all blocks fit *)

\* A manifest belongs to a registered object and holds its payload.
ManifestOwned ==
  \A o \in Oid : manifest[o] # Absent =>
    entries[o] # Absent /\ manifest[o].payload = entries[o].payload

\* What one step writes into a manifest.
LEMMA ManifestWritten ==
  ASSUME IInv, Next
  PROVE  \A o \in Oid : manifest'[o] # Absent =>
           \/ manifest'[o] = manifest[o]
           \/ entries[o] # Absent /\ manifest'[o].payload = entries[o].payload
<1> DEFINE Goal == \A o \in Oid : manifest'[o] # Absent =>
                     \/ manifest'[o] = manifest[o]
                     \/ entries[o] # Absent /\ manifest'[o].payload = entries[o].payload
<1>1. ASSUME manifest' = manifest PROVE Goal
  BY SMTT(30), <1>1
<1>2. ASSUME NEW o \in Oid, entries[o] # Absent, WriteManifest(o) PROVE Goal
  BY ZenonT(40), <1>2, WrittenManifest
<1>3. ASSUME NEW o \in Oid, manifest' = [manifest EXCEPT ![o] = Absent] PROVE Goal
  BY SMTT(30), <1>3 DEF IInv, Shape, TypeOK
<1> HIDE DEF Goal
<1>4. ASSUME HolderStep PROVE Goal
  <2>1. CASE RemovePersistent \/ DeleteDone
    <3>1. section.oid \in Oid /\ manifest' = [manifest EXCEPT ![section.oid] = Absent]
      BY SMTT(30), <2>1 DEF RemovePersistent, DeleteDone, Removing, InLoop, IInv, Shape, TypeOK, Section
    <3> QED BY ZenonT(40), <1>3, <3>1
  <2> QED BY ZenonT(40), <1>1, <1>4, <2>1
     DEF HolderStep, ReclaimNext, ReclaimDone, SkipPersistent, RemoveHost, RemoveAccelerator,
         EvictDone
<1>5. ASSUME NEW t \in Thread, ThreadStep(t) PROVE Goal
  <2>1. ASSUME NEW o \in Oid, NEW d, PromotePersistent(t, o, d) PROVE Goal
    BY SMTT(30), <1>2, <2>1 DEF PromotePersistent, Materializable
  <2>2. ASSUME NEW o \in Oid, Persist(t, o) PROVE Goal
    BY ZenonT(40), <1>1, <2>1, <2>2 DEF Persist
  <2>3. ASSUME NEW o \in Oid, DemoteHost(t, o) PROVE Goal
    BY ZenonT(40), <1>1, <1>2, <2>3 DEF DemoteHost, Materializable
  <2> QED BY ZenonT(40), <1>1, <1>5, <2>1, <2>2, <2>3
     DEF ThreadStep, Register, EvictToFree, RegisterRetry, PromoteHost, PromoteAccelerator,
         DemoteAccelerator, Evict, Delete
<1>6. ASSUME NEW s \in BlockSizes, Restart(s) PROVE Goal
  BY SMTT(30), <1>1, <1>6 DEF Restart
<1>7. Goal
  BY ZenonT(40), <1>4, <1>5, <1>6 DEF Next
<1> QED
  BY SMTT(30), <1>7 DEF Goal

\* A restart keeps the payloads, because every manifest is its object's own.
LEMMA RestartKeeps ==
  ASSUME IInv, ManifestOwned, NEW s \in BlockSizes, Restart(s)
  PROVE  PayloadsKept
<1> SUFFICES ASSUME NEW o \in Oid, entries[o] # Absent
             PROVE  \/ entries'[o] # Absent /\ entries'[o].payload = entries[o].payload
                    \/ entries'[o] = Absent /\ manifest'[o] = Absent
  BY ZenonT(40) DEF PayloadsKept
<1>1. entries'[o] = Recovered(manifest[o]) /\ manifest' = manifest
  BY SMTT(30) DEF Restart
<1>2. CASE manifest[o] = Absent
  BY ZenonT(40), <1>1, <1>2 DEF Recovered
<1>3. CASE manifest[o] # Absent
  <2>1. manifest[o] \in Manifest /\ manifest[o].payload = entries[o].payload
    BY SMTT(30), <1>3 DEF ManifestOwned, IInv, Shape, TypeOK
  <2>2. /\ Recovered(manifest[o]) \in Entry
        /\ Recovered(manifest[o]).payload = manifest[o].payload
    BY ZenonT(40), <1>3, <2>1, RecoveredEntry
  <2> QED BY SMTT(30), <1>1, <2>1, <2>2, AbsentAssumption
<1> QED
  BY ZenonT(40), <1>2, <1>3

\* While no registration needs room, every step keeps the accounts exact and
\* every payload it does not delete.
LEMMA NextExact ==
  ASSUME IInv, IInv', NoPressure, NoPressure', Exact, ManifestOwned, Next
  PROVE  Exact' /\ PayloadsKept
<1> DEFINE Goal == Exact' /\ PayloadsKept
<1>1. ASSUME NEW t \in Thread, NEW o \in Oid, NEW c \in Content, Register(t, o, c) PROVE Goal
  <2>1. /\ entries[o] = Absent /\ section = Absent /\ section' = Absent
        /\ UNCHANGED <<allocated, blockSize>>
    BY ZenonT(40), <1>1 DEF Register, Idle
  <2>2. CASE Insert(o, c, NewBytes(c))
    BY ZenonT(40), <2>1, <2>2, InsertExact
  <2>3. CASE pending' = [pending EXCEPT ![t] =
               [stage |-> "evict", oid |-> o, payload |-> c, need |-> NewBytes(c)]]
    <3>1. [stage |-> "evict", oid |-> o, payload |-> c, need |-> NewBytes(c)] \in Pending
      BY SMTT(30), NewBytesType DEF Pending
    <3>2. pending'[t] \in Pending
      BY SMTT(30), <2>3, <3>1 DEF IInv, Shape, TypeOK
    <3> QED BY SMTT(30), <3>2, AbsentAssumption DEF NoPressure
  <2> QED BY ZenonT(40), <1>1, <2>2, <2>3 DEF Register
<1>2. ASSUME NEW t \in Thread, EvictToFree(t) \/ RegisterRetry(t) PROVE FALSE
  BY SMTT(30), <1>2 DEF EvictToFree, RegisterRetry, NoPressure
<1>3. ASSUME \/ \E o \in Oid : ReclaimNext(o)
             \/ ReclaimDone
      PROVE  FALSE
  <2>1. section \in Section /\ section # Absent /\ section.op = "reclaim"
    BY ZenonT(40), <1>3 DEF ReclaimNext, ReclaimDone, InLoop, IInv, Shape, TypeOK
  <2>2. section.thread \in Thread /\ pending[section.thread] # Absent
    BY SMTT(30), <2>1 DEF IInv, Shape, SectionInv, Section
  <2> QED BY ZenonT(40), <2>2 DEF NoPressure
<1>4. ASSUME NEW t \in Thread, NEW o \in Oid, PromotePersistent(t, o, entries[o].durable)
      PROVE  Goal
  <2>1. entries[o].durable \in BOOLEAN
    BY SMTT(30), <1>4 DEF PromotePersistent, Materializable, IInv, Shape, TypeOK, Entry
  <2> QED BY SMTT(30), <1>4, <2>1, PromotePersistentExact
<1>5. ASSUME NEW s \in BlockSizes, Restart(s) PROVE Goal
  BY SMTT(30), <1>5, RestartExact, RestartKeeps
<1>6. CASE HolderStep
  BY ZenonT(40), <1>3, <1>6, LoopControlExact, RemoveHostExact, RemoveAcceleratorExact,
     RemovePersistentExact, DeleteDoneExact DEF HolderStep
<1>7. ASSUME NEW t \in Thread, ThreadStep(t) PROVE Goal
  BY ZenonT(40), <1>1, <1>2, <1>4, <1>7, PromoteHostExact, PromoteAcceleratorExact,
     DemoteAcceleratorExact, PersistExact, DemoteHostExact, LoopControlExact DEF ThreadStep
<1> QED
  BY ZenonT(40), <1>5, <1>6, <1>7 DEF Next

\* Every block fits into the host budget at the same time, and no payload holds
\* a block twice: no registration ever has to make room.
Roomy ==
  /\ Distinct
  /\ IsFiniteSet(Bytes(Block)) /\ Cardinality(Bytes(Block)) <= HostCapacity

\* Where every block fits, what a registration needs is free.
LEMMA RoomLeft ==
  ASSUME TypeOK, Charged, Roomy, NEW c \in Content
  PROVE  NewBytes(c) <= Free
<1> DEFINE N == NewBlocks(c)
<1>1. /\ N \subseteq Block /\ Held \cap N = {} /\ IsFiniteSet(Bytes(N))
      /\ Cardinality(Bytes(N)) = NewBytes(c)
  BY SMTT(30), NewBlocksFacts DEF Roomy
<1> HIDE DEF N
<1>2. Cardinality(Bytes(Held \cup N)) = used + NewBytes(c)
  <2>1. Cardinality(Bytes(Held \cup N)) = Cardinality(Bytes(Held)) + Cardinality(Bytes(N))
    BY SMTT(30), <1>1, BytesSplit DEF Charged
  <2>2. Cardinality(Bytes(Held)) = used
    BY SMTT(30) DEF Charged, Roomy
  <2> QED BY ZenonT(40), <1>1, <2>1, <2>2
<1>3. Bytes(Held \cup N) \subseteq Bytes(Block)
  BY SMTT(30), <1>1 DEF Bytes, Held
<1>4. Cardinality(Bytes(Held \cup N)) <= Cardinality(Bytes(Block))
  BY ZenonT(40), <1>3, FS_Subset DEF Roomy
<1>5. /\ Cardinality(Bytes(Block)) \in Nat /\ HostCapacity \in Nat
      /\ used \in Nat /\ NewBytes(c) \in Nat
  BY SMTT(30), NewBytesType, FS_CardinalityType, RuntimeAssumption DEF Roomy, TypeOK
<1> QED
  BY SMTT(30), <1>2, <1>4, <1>5 DEF Roomy, Free

\* Where every block fits, no step begins to make room.
LEMMA RoomStays ==
  ASSUME IInv, Exact, NoPressure, Roomy, [Next]_vars
  PROVE  NoPressure'
<1>1. CASE pending' = pending
  BY SMTT(30), <1>1 DEF NoPressure
<1>2. ASSUME NEW t \in Thread, NEW o \in Oid, NEW c \in Content, Register(t, o, c)
      PROVE  pending' = pending
  <2>1. NewBytes(c) <= Free /\ NewBytes(c) \in Nat /\ Free \in Int
    BY SMTT(30), RoomLeft, NewBytesType, RuntimeAssumption DEF IInv, Shape, TypeOK, Exact, Free
  <2>2. ~(NewBytes(c) > Free)
    BY SMTT(30), <2>1
  <2> QED BY SMTT(30), <1>2, <2>2 DEF Register
<1>3. ASSUME NEW t \in Thread, EvictToFree(t) \/ RegisterRetry(t) PROVE FALSE
  BY SMTT(30), <1>3 DEF EvictToFree, RegisterRetry, NoPressure
<1>4. ASSUME ReclaimDone PROVE FALSE
  <2>1. section \in Section /\ section # Absent /\ section.op = "reclaim"
    BY SMTT(30), <1>4 DEF ReclaimDone, InLoop, IInv, Shape, TypeOK
  <2>2. section.thread \in Thread /\ pending[section.thread] # Absent
    BY SMTT(30), <2>1 DEF IInv, Shape, SectionInv, Section
  <2> QED BY ZenonT(40), <2>2 DEF NoPressure
<1>5. CASE HolderStep
  <2>1. pending' = pending
    BY ZenonT(40), <1>4, <1>5 DEF HolderStep, ReclaimNext, SkipPersistent, RemoveHost,
       RemoveAccelerator, RemovePersistent, EvictDone, DeleteDone
  <2> QED BY SMTT(30), <1>1, <2>1
<1>6. ASSUME NEW t \in Thread, ThreadStep(t) PROVE NoPressure'
  <2>1. pending' = pending
    BY ZenonT(40), <1>2, <1>3, <1>6 DEF ThreadStep, PromoteHost, PromoteAccelerator,
       DemoteAccelerator, PromotePersistent, Persist, DemoteHost, Evict, Delete
  <2> QED BY SMTT(30), <1>1, <2>1
<1>7. ASSUME NEW s \in BlockSizes, Restart(s) PROVE NoPressure'
  BY SMTT(30), <1>7 DEF Restart, NoPressure
<1>8. CASE UNCHANGED vars
  BY SMTT(30), <1>1, <1>8 DEF vars
<1> QED
  BY SMTT(30), <1>5, <1>6, <1>7, <1>8 DEF Next

-----------------------------------------------------------------------------
(* Theorems *)

CalmInv == IInv /\ Exact /\ ManifestOwned /\ PersistentIsCommitted

\* A step keeps what the accounts say while no registration needs room.
LEMMA CalmStep == CalmInv /\ NoPressure /\ NoPressure' /\ [Next]_vars => CalmInv'
<1> SUFFICES ASSUME CalmInv, NoPressure, NoPressure', [Next]_vars PROVE CalmInv'
  BY SMTT(30)
<1>1. IInv' /\ PersistentIsCommitted'
  BY SMTT(30), NextInv, NextCommitted DEF CalmInv
<1>2. CASE Next
  <2>1. Exact' /\ PayloadsKept
    BY ZenonT(40), <1>1, <1>2, NextExact DEF CalmInv
  <2>2. ManifestOwned'
    BY SMTT(30), <1>2, <2>1, ManifestWritten DEF CalmInv, ManifestOwned, PayloadsKept
  <2> QED BY SMTT(30), <1>1, <2>1, <2>2 DEF CalmInv
<1>3. CASE UNCHANGED vars
  <2>1. UNCHANGED <<entries, arena, used, allocated, objectCount, blockSize, manifest, section>>
    BY SMTT(30), <1>3 DEF vars
  <2>2. DeletePending' /\ \A p \in Oid : Deleting(p) => Deleting(p)'
    BY SMTT(30), <2>1 DEF DeletePending, Deleting, CalmInv, Exact
  <2>3. Exact'
    BY SMTT(30), <2>1, <2>2, ControlExact DEF CalmInv
  <2>4. ManifestOwned'
    BY SMTT(30), <2>1 DEF ManifestOwned, CalmInv
  <2> QED BY SMTT(30), <1>1, <2>3, <2>4 DEF CalmInv
<1> QED
  BY SMTT(30), <1>2, <1>3

\* What the accounts say holds at the start.
LEMMA CalmInit == Init => CalmInv
<1>1. Init => ManifestOwned /\ PersistentIsCommitted
  BY SMTT(30) DEF Init, ManifestOwned, PersistentIsCommitted, Has
<1> QED
  BY SMTT(30), <1>1, InitInv, InitExact DEF CalmInv

\* The invariant of the accounts is what AccountingExact says.
LEMMA ExactMeans ==
  ASSUME Distinct
  PROVE  Exact => AccountingExact
<1> SUFFICES ASSUME Exact PROVE AccountingExact
  BY SMTT(30)
<1>1. used = ArenaBytes
  BY SMTT(30) DEF Exact, Charged, ArenaBytes, Bytes, Held
<1>2. \A b \in Backend :
        allocated[b] = Cardinality(UNION {{o} \X DOMAIN entries[o].payload :
                                            o \in {p \in Oid : Has(p, b)}})
  <2> TAKE b \in Backend
  <2>1. Pairs(Holders(b), PayloadBytes)
          = UNION {{o} \X DOMAIN entries[o].payload : o \in {p \in Oid : Has(p, b)}}
    BY SMTT(30) DEF Pairs, Holders, PayloadBytes
  <2> QED BY SMTT(30), <2>1 DEF Exact, AllocExact
<1> QED
  BY SMTT(30), <1>1, <1>2 DEF AccountingExact, Exact, RefsExact, CountExact

\* Through shared blocks, moves, deletes and restarts the arena's references, the
\* host budget, the backends' bytes and the object count are exact, as long as no
\* registration has to make room and no payload holds a block twice.
THEOREM CalmAccounting ==
  ASSUME Distinct
  PROVE  Spec /\ []NoPressure => []AccountingExact
<1>1. CalmInv => AccountingExact
  BY SMTT(30), ExactMeans DEF CalmInv
<1> QED
  BY ZenonT(40), <1>1, CalmInit, CalmStep, PTL DEF Spec

\* As long as no registration has to make room, a restart brings back every
\* durable object that was not being deleted, with its payload.
THEOREM CalmRestart == Spec /\ []NoPressure => DurableSurvivesRestart
<1>1. CalmInv /\ [Next]_vars =>
        [(\E s \in BlockSizes : Restart(s)) =>
           \A o \in Oid :
             entries[o] # Absent /\ entries[o].durable
             /\ ~(section # Absent /\ section.op = "delete" /\ section.oid = o)
             => entries'[o] # Absent /\ entries'[o].payload = entries[o].payload]_vars
  <2> SUFFICES ASSUME CalmInv, NEW s \in BlockSizes, Restart(s), NEW o \in Oid,
                      entries[o] # Absent, entries[o].durable,
                      ~(section # Absent /\ section.op = "delete" /\ section.oid = o)
               PROVE  entries'[o] # Absent /\ entries'[o].payload = entries[o].payload
    BY ZenonT(40)
  <2>1. Has(o, Persistent)
    BY SMTT(30) DEF CalmInv, Exact, DurablePlaced, Deleting
  <2>2. manifest[o] # Absent
    BY SMTT(30), <2>1 DEF CalmInv, PersistentIsCommitted
  <2>3. PayloadsKept /\ manifest' = manifest
    BY ZenonT(40), RestartKeeps DEF CalmInv, Restart
  <2> QED BY SMTT(30), <2>2, <2>3 DEF PayloadsKept
<1> QED
  BY ZenonT(40), <1>1, CalmInit, CalmStep, PTL DEF Spec, DurableSurvivesRestart

\* As long as no registration has to make room, no registration and no restart
\* replaces a registered object by another payload.
THEOREM CalmRegistration == Spec /\ []NoPressure => NoReplacement
<1>1. CalmInv /\ NoPressure /\ NoPressure' /\ [Next]_vars =>
        [\A o \in Oid :
           entries[o] # Absent /\ entries'[o] # Absent
           => entries'[o].payload = entries[o].payload]_vars
  <2> SUFFICES ASSUME CalmInv, NoPressure, NoPressure', Next
               PROVE  \A o \in Oid : entries[o] # Absent /\ entries'[o] # Absent
                        => entries'[o].payload = entries[o].payload
    BY ZenonT(40)
  <2>1. IInv'
    BY SMTT(30), NextInv DEF CalmInv
  <2>2. PayloadsKept
    BY SMTT(30), <2>1, NextExact DEF CalmInv
  <2> QED BY <2>2 DEF PayloadsKept
<1> QED
  BY ZenonT(40), <1>1, CalmInit, CalmStep, PTL DEF Spec, NoReplacement

\* Where the host budget holds every block at once, no registration ever has to
\* make room.
THEOREM RoomyIsCalm ==
  ASSUME Roomy
  PROVE  Spec => []NoPressure
<1>1. Init => NoPressure
  BY DEF Init, NoPressure
<1>2. CalmInv /\ NoPressure /\ [Next]_vars => NoPressure'
  BY SMTT(30), RoomStays DEF CalmInv
<1> QED
  BY ZenonT(40), <1>1, <1>2, CalmInit, CalmStep, PTL DEF Spec

\* Where the host budget holds every block at once, the accounts are exact.
THEOREM RoomyAccounting ==
  ASSUME Roomy
  PROVE  Spec => []AccountingExact
<1>1. Distinct
  BY SMTT(30) DEF Roomy
<1> QED
  BY ZenonT(40), <1>1, RoomyIsCalm, CalmAccounting, PTL

\* Where the host budget holds every block at once, a restart brings back every
\* durable object that was not being deleted.
THEOREM RoomyRestart ==
  ASSUME Roomy
  PROVE  Spec => DurableSurvivesRestart
BY ZenonT(40), RoomyIsCalm, CalmRestart, PTL
=============================================================================
