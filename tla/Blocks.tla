------------------------------- MODULE Blocks -------------------------------
(***************************************************************************)
(* Content-addressed blocks (storage.rs).  A payload is a sequence of       *)
(* bytes; `Chunk` cuts it into blocks of a configured size.  A block is     *)
(* identified with its bytes: the SHA-256 digest the code uses as its name  *)
(* is taken to be injective.                                                *)
(***************************************************************************)
EXTENDS Integers, Sequences, FiniteSets

\* The number of blocks of a payload of n bytes: n.div_ceil(size).
BlockCount(n, size) == (n + size - 1) \div size

\* `chunk`: consecutive blocks of `size` bytes, the last one possibly shorter.
Chunk(bytes, size) ==
  [i \in 1..BlockCount(Len(bytes), size) |->
     LET end == i * size
     IN  SubSeq(bytes, (i - 1) * size + 1,
                       IF end < Len(bytes) THEN end ELSE Len(bytes))]

\* The index of the block that holds byte k of a payload.
BlockAt(k, size) == (k - 1) \div size + 1

\* How often block h occurs among the first n blocks of a block list.
Count(blocks, n, h) == Cardinality({i \in 1..n : blocks[i] = h})
=============================================================================
