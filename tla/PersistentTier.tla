-------------------------- MODULE PersistentTier --------------------------
(***************************************************************************)
(* The persistent tier at the level of its files.  TensorCache takes a call *)
(* on the store as one step; here every file that is written, renamed or    *)
(* removed is a step of its own, and the process may stop, or a file        *)
(* operation may fail, between any two of them.                             *)
(*                                                                          *)
(* A call runs under the runtime's mutex, so at most one (op) is under way. *)
(* Blocks have the same length, so bytes are counted in blocks.             *)
(***************************************************************************)
EXTENDS Budget, Sequences, FiniteSets, Functions

CONSTANTS
  Oid,          \* object ids
  Block,        \* content hashes
  Payload,      \* the block lists objects are stored with
  Capacity,     \* bytes the persistent tier may hold
  IOErrors,     \* whether file operations may fail
  Replaces,     \* whether a racing registration may replace an entry
  MaxRefs,      \* bound on the references to one block
  None

ASSUME StoreAssumption ==
  /\ Payload \subseteq Seq(Block)
  /\ Capacity \in Nat /\ MaxRefs \in Nat
  /\ {IOErrors, Replaces} \subseteq BOOLEAN
  /\ IsFiniteSet(Oid)

VARIABLES
  files,        \* block files under their final names
  manifests,    \* manifest files under their final names
  temps,        \* temporary files left behind or being written
  refs,         \* State::persistent_refs
  storageUsed,  \* State::storage_used
  budget,       \* Accounting::storage
  entries,      \* State::entries, what matters of them to this tier
  op            \* the call that holds the mutex

vars == <<files, manifests, temps, refs, storageUsed, budget, entries, op>>

\* live: the object also has a copy in another tier.
Entry == [payload : Payload, live : BOOLEAN, persistent : BOOLEAN]

\* How far a call is: the next block to write or to release, or the next of
\* the steps that commit or remove the manifest.
Stage == {"put", "name", "temp", "unlink", "rename", "release", "forget"}

Op == [stage : Stage, oid : Oid, next : Nat, need : Nat]

ASSUME NoneAssumption == None \notin Payload \cup Entry \cup Op

TypeOK ==
  /\ files \subseteq Block
  /\ manifests \in [Oid -> Payload \cup {None}]
  /\ temps \subseteq Block \cup Oid
  /\ refs \in [Block -> Nat]
  /\ storageUsed \in Nat
  /\ budget \in Budget
  /\ entries \in [Oid -> Entry \cup {None}]
  /\ op \in Op \cup {None}

-----------------------------------------------------------------------------
(* Helpers *)

Persistent(o) == entries[o] # None /\ entries[o].persistent

BlocksOf(o) == entries[o].payload

\* The file of the block the call is about.
Current == BlocksOf(op.oid)[op.next]

MoreBlocks == op.next <= Len(BlocksOf(op.oid))

At(stage) == op # None /\ op.stage = stage

\* The call moves to a stage and a block.
Goto(stage, next) == [stage |-> stage, oid |-> op.oid, next |-> next, need |-> op.need]

\* new_storage: a block that occurs twice is counted twice.
NewStorage(p) == Cardinality({i \in DOMAIN p : refs[p[i]] = 0})

\* blocks_exist
BlocksExist(p) == Range(p) \subseteq files

\* The occurrences of block b in the manifests m of the objects S.
Occurrences(m, S, b) ==
  UNION {{o} \X {i \in DOMAIN m[o] : m[o][i] = b} : o \in S}

\* The manifests recover keeps out of those it read.
Recoverable(m) == {o \in Oid : m[o] # None /\ BlocksExist(m[o])}

RecoveredEntry(p) == [payload |-> p, live |-> FALSE, persistent |-> TRUE]

-----------------------------------------------------------------------------
(* Entries come and go in the other tiers *)

Register(o, p) ==
  /\ op = None
  /\ entries[o] = None \/ Replaces
  /\ entries' = [entries EXCEPT ![o] = [payload |-> p, live |-> TRUE, persistent |-> FALSE]]
  /\ UNCHANGED <<files, manifests, temps, refs, storageUsed, budget, op>>

\* evict, and the removal a demotion ends with.
DropCopy(o) ==
  /\ op = None
  /\ entries[o] # None
  /\ entries[o].live
  /\ entries' = [entries EXCEPT ![o].live = FALSE]
  /\ UNCHANGED <<files, manifests, temps, refs, storageUsed, budget, op>>

\* promote reads the object back through get_block.
Reload(o) ==
  /\ op = None
  /\ Persistent(o)
  /\ BlocksExist(BlocksOf(o))
  /\ entries' = [entries EXCEPT ![o].live = TRUE]
  /\ UNCHANGED <<files, manifests, temps, refs, storageUsed, budget, op>>

-----------------------------------------------------------------------------
(* add_placement to the persistent tier *)

\* A mutant: the blocks are written without a reservation.
BeginPersistUnreserved(o) ==
  /\ op = None
  /\ entries[o] # None /\ entries[o].live /\ ~entries[o].persistent
  /\ \A i \in DOMAIN BlocksOf(o) : refs[BlocksOf(o)[i]] + Len(BlocksOf(o)) <= MaxRefs
  /\ NewStorage(BlocksOf(o)) <= Free(budget)
  /\ op' = [stage |-> "put", oid |-> o, next |-> 1, need |-> NewStorage(BlocksOf(o))]
  /\ UNCHANGED <<files, manifests, temps, refs, storageUsed, budget, entries>>

BeginPersist(o) ==
  /\ op = None
  /\ entries[o] # None
  /\ entries[o].live
  /\ ~entries[o].persistent
  /\ \A i \in DOMAIN BlocksOf(o) : refs[BlocksOf(o)[i]] + Len(BlocksOf(o)) <= MaxRefs
  /\ NewStorage(BlocksOf(o)) <= Free(budget)
  /\ CanReserve(budget, NewStorage(BlocksOf(o)))
  /\ budget' = Reserve(budget, NewStorage(BlocksOf(o)))
  /\ op' = [stage |-> "put", oid |-> o, next |-> 1, need |-> NewStorage(BlocksOf(o))]
  /\ UNCHANGED <<files, manifests, temps, refs, storageUsed, entries>>

\* A mutant: a block that is already stored gets no further reference.
PutSharedUncounted ==
  /\ At("put") /\ MoreBlocks /\ refs[Current] > 0
  /\ op' = Goto(op.stage, op.next + 1)
  /\ UNCHANGED <<files, manifests, temps, refs, storageUsed, budget, entries>>

\* Entry::Occupied: one more reference, no file.
PutShared ==
  /\ At("put")
  /\ MoreBlocks
  /\ refs[Current] > 0
  /\ refs' = [refs EXCEPT ![Current] = @ + 1]
  /\ op' = Goto(op.stage, op.next + 1)
  /\ UNCHANGED <<files, manifests, temps, storageUsed, budget, entries>>

\* A mutant: a file left by an earlier run is taken over without its bytes.
PutExistingUncharged ==
  /\ At("put") /\ MoreBlocks /\ refs[Current] = 0 /\ Current \in files
  /\ refs' = [refs EXCEPT ![Current] = 1]
  /\ op' = Goto(op.stage, op.next + 1)
  /\ UNCHANGED <<files, manifests, temps, storageUsed, budget, entries>>

\* put_block finds the file of an earlier run and keeps it.
PutExisting ==
  /\ At("put")
  /\ MoreBlocks
  /\ refs[Current] = 0
  /\ Current \in files
  /\ refs' = [refs EXCEPT ![Current] = 1]
  /\ storageUsed' = storageUsed + 1
  /\ op' = Goto(op.stage, op.next + 1)
  /\ UNCHANGED <<files, manifests, temps, budget, entries>>

\* atomic_write of a block: the temporary file, then the rename.
WriteBlockTemp ==
  /\ At("put")
  /\ MoreBlocks
  /\ refs[Current] = 0
  /\ Current \notin files
  /\ temps' = temps \cup {Current}
  /\ op' = Goto("name", op.next)
  /\ UNCHANGED <<files, manifests, refs, storageUsed, budget, entries>>

RenameBlock ==
  /\ At("name")
  /\ temps' = temps \ {Current}
  /\ files' = files \cup {Current}
  /\ refs' = [refs EXCEPT ![Current] = 1]
  /\ storageUsed' = storageUsed + 1
  /\ op' = Goto("put", op.next + 1)
  /\ UNCHANGED <<manifests, budget, entries>>

\* A mutant: the loop over the blocks ends one block early.
CommitBudgetEarly ==
  /\ At("put") /\ op.next >= Len(BlocksOf(op.oid))
  /\ CanCommitReserve(budget, op.need)
  /\ budget' = CommitReserve(budget, op.need)
  /\ op' = Goto("temp", op.next)
  /\ UNCHANGED <<files, manifests, temps, refs, storageUsed, entries>>

\* commit_reserve once every block is there.
CommitBudget ==
  /\ At("put")
  /\ ~MoreBlocks
  /\ CanCommitReserve(budget, op.need)
  /\ budget' = CommitReserve(budget, op.need)
  /\ op' = Goto("temp", op.next)
  /\ UNCHANGED <<files, manifests, temps, refs, storageUsed, entries>>

\* atomic_write of the manifest: the temporary file, ...
WriteManifestTemp ==
  /\ At("temp")
  /\ temps' = temps \cup {op.oid}
  /\ op' = Goto("unlink", op.next)
  /\ UNCHANGED <<files, manifests, refs, storageUsed, budget, entries>>

\* ... the removal of an earlier one (whose failure is ignored), ...
UnlinkManifest ==
  /\ At("unlink")
  /\ \/ manifests' = [manifests EXCEPT ![op.oid] = None]
     \/ IOErrors /\ UNCHANGED manifests
  /\ op' = Goto("rename", op.next)
  /\ UNCHANGED <<files, temps, refs, storageUsed, budget, entries>>

\* ... and the rename that commits the object.
RenameManifest ==
  /\ At("rename")
  /\ temps' = temps \ {op.oid}
  /\ manifests' = [manifests EXCEPT ![op.oid] = BlocksOf(op.oid)]
  /\ entries' = [entries EXCEPT ![op.oid].persistent = TRUE]
  /\ op' = None
  /\ UNCHANGED <<files, refs, storageUsed, budget>>

\* A file operation fails: the call returns with its references, its
\* reservation and its temporary file left as they are.
PersistFails ==
  /\ IOErrors
  /\ \/ At("put") /\ MoreBlocks /\ refs[Current] = 0
     \/ At("name") \/ At("temp") \/ At("rename")
  /\ op' = None
  /\ UNCHANGED <<files, manifests, temps, refs, storageUsed, budget, entries>>

-----------------------------------------------------------------------------
(* delete *)

\* A mutant: the placement stays listed while its blocks are released.
BeginDeleteListed(o) ==
  /\ op = None /\ entries[o] # None
  /\ op' = [stage |-> IF Persistent(o) THEN "release" ELSE "forget",
            oid |-> o, next |-> 1, need |-> 0]
  /\ UNCHANGED <<files, manifests, temps, refs, storageUsed, budget, entries>>

\* remove_placement takes the placement out of the entry before it touches
\* blocks or manifest.
BeginDelete(o) ==
  /\ op = None
  /\ entries[o] # None
  /\ entries' = [entries EXCEPT ![o].persistent = FALSE]
  /\ op' = [stage |-> IF Persistent(o) THEN "release" ELSE "forget",
            oid |-> o, next |-> 1, need |-> 0]
  /\ UNCHANGED <<files, manifests, temps, refs, storageUsed, budget>>

\* A mutant: the file and its bytes go with the first reference given up.
ReleaseFirst ==
  /\ At("release") /\ MoreBlocks
  /\ refs' = [refs EXCEPT ![Current] = IF @ = 0 THEN 0 ELSE @ - 1]
  /\ files' = files \ {Current}
  /\ storageUsed' = storageUsed - 1
  /\ op' = Goto(op.stage, op.next + 1)
  /\ UNCHANGED <<manifests, temps, budget, entries>>

\* The last reference removes the file; a failure to remove it is ignored.  A
\* block without references is passed over.  The budget is not credited.
ReleaseBlock ==
  /\ At("release")
  /\ MoreBlocks
  /\ refs' = [refs EXCEPT ![Current] = IF @ = 0 THEN 0 ELSE @ - 1]
  /\ IF refs[Current] = 1
       THEN /\ \/ files' = files \ {Current}
               \/ IOErrors /\ UNCHANGED files
            /\ storageUsed' = IF storageUsed > 0 THEN storageUsed - 1 ELSE 0
       ELSE UNCHANGED <<files, storageUsed>>
  /\ op' = Goto(op.stage, op.next + 1)
  /\ UNCHANGED <<manifests, temps, budget, entries>>

\* remove_manifest, its error ignored.
EraseManifest ==
  /\ At("release")
  /\ ~MoreBlocks
  /\ \/ manifests' = [manifests EXCEPT ![op.oid] = None]
     \/ IOErrors /\ UNCHANGED manifests
  /\ op' = Goto("forget", op.next)
  /\ UNCHANGED <<files, temps, refs, storageUsed, budget, entries>>

\* delete drops the entry and removes the manifest once more.
Forget ==
  /\ At("forget")
  /\ entries' = [entries EXCEPT ![op.oid] = None]
  /\ \/ manifests' = [manifests EXCEPT ![op.oid] = None]
     \/ IOErrors /\ UNCHANGED manifests
  /\ op' = None
  /\ UNCHANGED <<files, temps, refs, storageUsed, budget>>

\* The removal of a copy in another tier fails: the entry stays.
DeleteStops ==
  /\ At("forget")
  /\ entries[op.oid].live
  /\ entries' = [entries EXCEPT ![op.oid].live = FALSE]
  /\ op' = None
  /\ UNCHANGED <<files, manifests, temps, refs, storageUsed, budget>>

-----------------------------------------------------------------------------
(* Restart and recovery *)

\* The process stops at any point and comes up again: open removes temporary
\* files, recover rebuilds entries and references from the manifests whose
\* blocks are all there.  The recovered bytes are not charged to the budget.
Restart ==
  LET back == Recoverable(manifests)
      uses(b) == Occurrences(manifests, back, b)
  IN  /\ temps' = {}
      /\ entries' = [o \in Oid |->
                       IF o \in back THEN RecoveredEntry(manifests[o]) ELSE None]
      /\ refs' = [b \in Block |-> Cardinality(uses(b))]
      /\ storageUsed' = Cardinality(UNION {Range(manifests[o]) : o \in back})
      /\ budget' = EmptyBudget(Capacity)
      /\ op' = None
      /\ UNCHANGED <<files, manifests>>

-----------------------------------------------------------------------------
(* Specification *)

Init ==
  /\ files = {}
  /\ manifests = [o \in Oid |-> None]
  /\ temps = {}
  /\ refs = [b \in Block |-> 0]
  /\ storageUsed = 0
  /\ budget = EmptyBudget(Capacity)
  /\ entries = [o \in Oid |-> None]
  /\ op = None

\* The steps of the call that holds the mutex.
OpStep ==
  \/ PutShared \/ PutExisting \/ WriteBlockTemp \/ RenameBlock
  \/ CommitBudget \/ WriteManifestTemp \/ UnlinkManifest \/ RenameManifest
  \/ ReleaseBlock \/ EraseManifest \/ Forget \/ DeleteStops

Next ==
  \/ \E o \in Oid, p \in Payload : Register(o, p)
  \/ \E o \in Oid : DropCopy(o) \/ Reload(o) \/ BeginPersist(o) \/ BeginDelete(o)
  \/ OpStep
  \/ PersistFails
  \/ Restart

Spec == Init /\ [][Next]_vars

-----------------------------------------------------------------------------
(* Properties *)

\* The positions of o's block list for which references are held: all of them
\* once it is persistent, a prefix while it is being persisted, what remains
\* while it is being released.
Pinned(o) ==
  IF entries[o] = None THEN {}
  ELSE IF entries[o].persistent THEN DOMAIN BlocksOf(o)
  ELSE IF op = None \/ op.oid # o THEN {}
  ELSE IF op.stage = "release" THEN op.next..Len(BlocksOf(o))
  ELSE IF op.stage = "forget" THEN {}
  ELSE 1..(op.next - 1)

References(b) ==
  UNION {{o} \X {i \in Pinned(o) : BlocksOf(o)[i] = b} : o \in Oid}

\* A block's reference count covers every position that relies on its file,
\* those of a persist or a delete that is half done included, whatever failed
\* or crashed before: remove_placement can never remove a block file that a
\* committed object, or the call under way, still needs.
RefsCover == \A b \in Block : Cardinality(References(b)) <= refs[b]

\* A block the runtime believes to be stored has its file: put_block and
\* remove_block keep persistent_refs and the directory together.
FilesBacked == \A b \in Block : refs[b] > 0 => b \in files

\* Every object listed in the persistent tier can be read back from disk now
\* and after a restart at this very moment: its manifest is there, names its
\* payload, and all its block files exist.
CommittedReadable ==
  \A o \in Oid : Persistent(o) =>
    /\ manifests[o] = BlocksOf(o)
    /\ BlocksExist(BlocksOf(o))

\* storage_used is exactly the number of distinct blocks with references, in
\* every order of writes, releases, failures and restarts: the bytes that
\* resources() reports for the tier.
StorageUsedExact == storageUsed = Cardinality({b \in Block : refs[b] > 0})

\* The storage budget is never overdrawn, and a call that is about to commit
\* its bytes finds its reservation: commit_reserve, which gives the
\* reservation up before it checks the addition, never fails half-way.
BudgetSound ==
  /\ budget.used + budget.reserved <= budget.capacity
  /\ At("put") => op.need <= budget.reserved

\* Recovery adds nothing the store had already lost: an object a running store
\* does not know comes into being only by a registration, not by a restart.
AbsentStaysAbsent ==
  [][\A o \in Oid : op = None /\ entries[o] = None /\ entries'[o] # None
                      => entries'[o].live]_vars

Abstract == INSTANCE DurableStore WITH
  committed <- [o \in Oid |-> IF Persistent(o) THEN BlocksOf(o) ELSE None],
  ghosts <- [o \in Oid |-> IF Persistent(o) THEN None ELSE manifests[o]]

\* The files implement the abstract store: through crashes, failed writes and
\* failed removals at any step, an object becomes committed in one step, stays
\* committed until it is given up, and a restart brings back every committed
\* object and nothing that was never committed.
ImplementsDurableStore == Abstract!Spec

=============================================================================
