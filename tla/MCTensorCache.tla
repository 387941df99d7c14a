--------------------------- MODULE MCTensorCache ---------------------------
(* Small instances of TensorCache for TLC. *)
EXTENDS TensorCache, TLC

\* Payloads over a few bytes; with block size 1 a payload is its block list.
Shared == {<<1, 2>>, <<1, 2, 3>>, <<4>>}   \* the first two share blocks 1 and 2
Repeated == {<<1, 2>>, <<1, 2, 3>>, <<1, 1>>, <<4>>}   \* one holds block 1 twice

ThreadSymmetry == Permutations(Thread)
=============================================================================
