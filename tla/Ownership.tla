------------------------------ MODULE Ownership ------------------------------
(***************************************************************************)
(* What the coordinator promises: an object is claimed once, with fence 0,  *)
(* and from then on changes hands one owner at a time, each with the next   *)
(* fence.  A restart is no step of this specification.                      *)
(***************************************************************************)
EXTENDS Naturals

CONSTANTS Node, Object, None

VARIABLE own    \* the authoritative owner and fence of each object

Init == own = [o \in Object |-> None]

Claim(o, n) ==
  /\ own[o] = None
  /\ own' = [own EXCEPT ![o] = [owner |-> n, fence |-> 0]]

Transfer(o, n) ==
  /\ own[o] # None
  /\ own' = [own EXCEPT ![o] = [owner |-> n, fence |-> own[o].fence + 1]]

Next == \E o \in Object, n \in Node : Claim(o, n) \/ Transfer(o, n)

Spec == Init /\ [][Next]_own
=============================================================================
