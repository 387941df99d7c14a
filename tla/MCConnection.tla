---------------------------- MODULE MCConnection ----------------------------
(***************************************************************************)
(* A migration as a node drives it: Migrate is answered by the instruction, *)
(* MigrateAck by a CreateAck the node does not read.                        *)
(***************************************************************************)
EXTENDS Connection

Ask == [type |-> "Migrate", body |-> [object_id |-> <<1>>, new_owner |-> <<2>>,
                                      new_owner_addr |-> <<>>, fence |-> 0]]

Instruction == [Ask EXCEPT !.body.fence = 1]

Ack == [type |-> "MigrateAck", body |-> [object_id |-> <<1>>, new_owner |-> <<2>>, fence |-> 1]]

Granted == [type |-> "CreateAck", body |-> [object_id |-> <<1>>, epoch |-> 1, fence |-> 1,
                                            owner |-> <<2>>]]

MCScript == <<Ask, Ack>>

MCUnread == {2}

MCRefusal == [type |-> "Error", body |-> [code |-> <<>>, message |-> <<>>]]

MCHandle == (Ask :> Instruction) @@ (Ack :> Granted)
=============================================================================
