------------------------- MODULE MCPersistentTier -------------------------
(***************************************************************************)
(* Instances of PersistentTier for TLC.                                     *)
(***************************************************************************)
EXTENDS PersistentTier

CONSTANTS a, b, o1, o2

\* Two lists that share a block, and one that repeats a block.
Lists == {<<a, b>>, <<b, b>>}

\* Two lists that share a block.
Sharing == {<<a>>, <<a, b>>}

Blocks == {a, b}

Objects == {o1, o2}

=============================================================================
