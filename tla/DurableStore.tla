--------------------------- MODULE DurableStore ---------------------------
(***************************************************************************)
(* What the persistent tier promises.  An object is committed with one      *)
(* payload or it is not; a committed object stays committed, with the same  *)
(* payload, until it is given up.  Giving it up is not atomic: until the    *)
(* last trace is gone the object is a ghost, and a restart may bring a      *)
(* ghost back.  Nothing else ever becomes committed.                        *)
(***************************************************************************)
CONSTANTS Oid, Payload, None

VARIABLES committed, ghosts

vars == <<committed, ghosts>>

Init ==
  /\ committed = [o \in Oid |-> None]
  /\ ghosts = [o \in Oid |-> None]

Commit(o, p) ==
  /\ committed[o] = None
  /\ committed' = [committed EXCEPT ![o] = p]
  /\ ghosts' = [ghosts EXCEPT ![o] = None]

GiveUp(o) ==
  /\ committed' = [committed EXCEPT ![o] = None]
  /\ ghosts' = [ghosts EXCEPT ![o] = committed[o]]

Vanish(o) ==
  /\ ghosts' = [ghosts EXCEPT ![o] = None]
  /\ UNCHANGED committed

\* Committed objects come back, ghosts may.
Restart ==
  \E back \in SUBSET {o \in Oid : ghosts[o] # None} :
    /\ committed' = [o \in Oid |-> IF o \in back THEN ghosts[o] ELSE committed[o]]
    /\ ghosts' = [o \in Oid |-> IF o \in back THEN None ELSE ghosts[o]]

Next ==
  \/ \E o \in Oid, p \in Payload : Commit(o, p)
  \/ \E o \in Oid : GiveUp(o) \/ Vanish(o)
  \/ Restart

Spec == Init /\ [][Next]_vars

=============================================================================
