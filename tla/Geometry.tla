------------------------------ MODULE Geometry ------------------------------
(***************************************************************************)
(* Shapes, layouts and element types (geometry.rs, dtype.rs), and the block *)
(* lists that cover a tensor (storage.rs).  Products and sums are checked   *)
(* against u64::MAX; None stands for the error.                             *)
(***************************************************************************)
EXTENDS Wire, FiniteSets

CONSTANTS
  MaxRank,  \* 32 in the code
  MaxDim,   \* u32::MAX in the code
  MaxBlocks \* MAX_BLOCKS_PER_TENSOR

ASSUME GeometryAssumption == MaxRank \in Nat /\ MaxDim \in Nat /\ MaxBlocks \in Nat

CheckedMul(a, b) == IF a = None \/ b = None \/ a * b > MaxWide THEN None ELSE a * b

CheckedAdd(a, b) == IF a = None \/ b = None \/ a + b > MaxWide THEN None ELSE a + b

\* Dtype::byte_size, by the code on the wire.
ByteSize ==
  [c \in 1..14 |-> CASE c \in {1, 6, 10}    -> 8
                     [] c \in {2, 7, 11}    -> 4
                     [] c \in {3, 4, 8, 12} -> 2
                     [] c \in {5, 9, 13, 14} -> 1]

\* The codes of the enumerations a compatibility key names.
Endianness == 0..1

Mutability == 0..1

QuantKind == 0..3

\* Shape::new.
ShapeValid(dims) == Len(dims) <= MaxRank /\ \A i \in DOMAIN dims : dims[i] <= MaxDim

\* The products of the first n dimensions, for every n.
CheckedProducts(dims) ==
  LET product[n \in 0..Len(dims)] ==
        IF n = 0 THEN 1 ELSE CheckedMul(product[n - 1], dims[n])
  IN  product

\* Mutant of Numel: the product wraps around.
NumelWraps(dims) == FoldLeft(LAMBDA n, d : (n * d) % (MaxWide + 1), 1, dims)

Numel(dims) == CheckedProducts(dims)[Len(dims)]

ByteLen(dims, elem) ==
  IF elem = 0 \/ elem > MaxWide \div 8 THEN None ELSE CheckedMul(Numel(dims), elem)

\* Layouts: "row", "col" or a vector of strides.
Layout(kind, strides) == [kind |-> kind, strides |-> strides]

\* The largest offset a vector of strides reaches.
MaxOffset(dims, strides) ==
  FoldLeft(CheckedAdd, 0,
           [i \in DOMAIN dims |-> CheckedMul(IF dims[i] = 0 THEN 0 ELSE dims[i] - 1, strides[i])])

LayoutValid(layout, dims) ==
  \/ layout.kind \in {"row", "col"}
  \/ /\ Len(layout.strides) = Len(dims)
     /\ \A i \in DOMAIN dims : layout.strides[i] # 0
     /\ MaxOffset(dims, layout.strides) # None

\* The running products of a loop over dims: strides[i] is the product of the
\* dimensions before i, and the product after the last one is checked as well.
RunningProducts(dims) ==
  LET acc == CheckedProducts(dims)
  IN  IF acc[Len(dims)] = None THEN None ELSE [i \in DOMAIN dims |-> acc[i - 1]]

ColMajorStrides(dims) == RunningProducts(dims)

\* Mutant of RowMajorStrides: the dimensions are taken in the wrong order.
RowMajorForwards(dims) ==
  LET s == RunningProducts(dims) IN IF s = None THEN None ELSE Reverse(s)

RowMajorStrides(dims) ==
  LET s == RunningProducts(Reverse(dims)) IN IF s = None THEN None ELSE Reverse(s)

ContiguousStrides(layout, dims) ==
  CASE layout.kind = "row" -> RowMajorStrides(dims)
    [] layout.kind = "col" -> ColMajorStrides(dims)
    [] OTHER -> IF LayoutValid(layout, dims) THEN layout.strides ELSE None

-----------------------------------------------------------------------------
(* Block lists: where each block of a tensor lies *)

BlockPlace == [offset : Nat, len : Nat]

\* Mutant of ValidateBlockList: only the total is compared.
ValidateTotal(blocks, byteLen) ==
  /\ Len(blocks) <= MaxBlocks
  /\ \A i \in DOMAIN blocks : blocks[i].len # 0
  /\ FoldLeft(LAMBDA n, b : n + b.len, 0, blocks) = byteLen

\* Where block i has to begin: at the end of the block before it.
Expected(blocks, i) == IF i = 1 THEN 0 ELSE blocks[i - 1].offset + blocks[i - 1].len

ValidateBlockList(blocks, byteLen) ==
  /\ Len(blocks) <= MaxBlocks
  /\ \A i \in DOMAIN blocks :
       /\ blocks[i].len # 0
       /\ blocks[i].offset = Expected(blocks, i)
       /\ blocks[i].offset + blocks[i].len <= byteLen
  /\ Expected(blocks, Len(blocks) + 1) = byteLen

\* Mutant of ChunkPlaces: a shorter last block is left out.
ChunkPlacesFull(total, size) ==
  IF size = 0 \/ total > size * MaxBlocks
    THEN None
    ELSE [i \in 1..(total \div size) |-> [offset |-> (i - 1) * size, len |-> size]]

\* chunk: the places of the blocks of a payload.
ChunkPlaces(total, size) ==
  IF size = 0 \/ total > size * MaxBlocks
    THEN None
    ELSE [i \in 1..((total + size - 1) \div size) |->
            [offset |-> (i - 1) * size,
             len |-> IF i * size <= total THEN size ELSE total - (i - 1) * size]]

\* reconstruct: every block is copied to its place, or nothing is returned.
Reconstruct(blocks, byteLen, data) ==
  IF /\ ValidateBlockList(blocks, byteLen)
     /\ \A i \in DOMAIN blocks : Len(data[i]) = blocks[i].len
    THEN [k \in 1..byteLen |->
            LET i == CHOOSE j \in DOMAIN blocks :
                       k - 1 \in blocks[j].offset..(blocks[j].offset + blocks[j].len - 1)
            IN  data[i][k - blocks[i].offset]]
    ELSE None
=============================================================================
