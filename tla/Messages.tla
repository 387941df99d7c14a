------------------------------ MODULE Messages ------------------------------
(***************************************************************************)
(* The messages of the protocol (protocol.rs) and their bodies.  A message  *)
(* is a type and the values of its fields.                                  *)
(***************************************************************************)
EXTENDS Wire

\* MsgType::tag, by position.
MsgType ==
  <<"Register", "Hello", "Lookup", "LookupResult", "Create", "CreateAck", "LeaseRenew",
    "LeaseGrant", "Fetch", "FetchReply", "Store", "StoreAck", "Migrate", "MigrateAck",
    "Heartbeat", "Error">>

Tag(type) == CHOOSE t \in DOMAIN MsgType : MsgType[t] = type

FromTag(t) == IF t \in DOMAIN MsgType THEN MsgType[t] ELSE None

\* What Message::encode writes: requests and answers about nodes and objects.
EncodedAuthority ==
  [Register     |-> << <<"node_id", "str">>, <<"addr", "str">> >>,
   Hello        |-> << <<"epoch", "u64">>, <<"boot_id", "str">>, <<"node_id", "str">>,
                       <<"addr", "str">>, <<"lease_ns", "u64">> >>,
   Lookup       |-> << <<"namespace", "str">>, <<"key", "str">>, <<"generation", "u64">>,
                       <<"compat", "bytes">> >>,
   LookupResult |-> << <<"found", "bool">>, <<"generation", "u64">>, <<"owner", "option">>,
                       <<"owner_addr", "option">> >>,
   Create       |-> << <<"namespace", "str">>, <<"key", "str">>, <<"generation", "u64">>,
                       <<"byte_len", "u64">>, <<"compat", "bytes">>, <<"node_id", "str">> >>,
   CreateAck    |-> << <<"object_id", "str">>, <<"epoch", "u64">>, <<"fence", "u64">>,
                       <<"owner", "str">> >>,
   LeaseRenew   |-> << <<"object_id", "str">>, <<"fence", "u64">> >>,
   LeaseGrant   |-> << <<"object_id", "str">>, <<"epoch", "u64">>, <<"fence", "u64">>,
                       <<"expires_ns", "u64">> >>]

\* What Message::encode writes: transfers between nodes.
EncodedTransfer ==
  [Fetch        |-> << <<"object_id", "str">>, <<"compat", "bytes">> >>,
   FetchReply   |-> << <<"object_id", "str">>, <<"data", "bytes">>, <<"crc", "u32">> >>,
   Store        |-> << <<"namespace", "str">>, <<"key", "str">>, <<"generation", "u64">>,
                       <<"data", "bytes">>, <<"crc", "u32">>, <<"compat", "bytes">>,
                       <<"source", "str">> >>,
   StoreAck     |-> << <<"object_id", "str">> >>,
   Migrate      |-> << <<"object_id", "str">>, <<"new_owner", "str">>,
                       <<"new_owner_addr", "str">>, <<"fence", "u64">> >>,
   MigrateAck   |-> << <<"object_id", "str">>, <<"new_owner", "str">>, <<"fence", "u64">> >>,
   Heartbeat    |-> << <<"node_id", "str">>, <<"epoch", "u64">> >>,
   Error        |-> << <<"code", "str">>, <<"message", "str">> >>]

Encoded == EncodedAuthority @@ EncodedTransfer

\* What Message::decode reads.
Decoded ==
  [Register     |-> << <<"node_id", "str">>, <<"addr", "str">> >>,
   Hello        |-> << <<"epoch", "u64">>, <<"boot_id", "str">>, <<"node_id", "str">>,
                       <<"addr", "str">>, <<"lease_ns", "u64">> >>,
   Lookup       |-> << <<"namespace", "str">>, <<"key", "str">>, <<"generation", "u64">>,
                       <<"compat", "bytes">> >>,
   LookupResult |-> << <<"found", "bool">>, <<"generation", "u64">>, <<"owner", "option">>,
                       <<"owner_addr", "option">> >>,
   Create       |-> << <<"namespace", "str">>, <<"key", "str">>, <<"generation", "u64">>,
                       <<"byte_len", "u64">>, <<"compat", "bytes">>, <<"node_id", "str">> >>,
   CreateAck    |-> << <<"object_id", "str">>, <<"epoch", "u64">>, <<"fence", "u64">>,
                       <<"owner", "str">> >>,
   LeaseRenew   |-> << <<"object_id", "str">>, <<"fence", "u64">> >>,
   LeaseGrant   |-> << <<"object_id", "str">>, <<"epoch", "u64">>, <<"fence", "u64">>,
                       <<"expires_ns", "u64">> >>,
   Fetch        |-> << <<"object_id", "str">>, <<"compat", "bytes">> >>,
   FetchReply   |-> << <<"object_id", "str">>, <<"data", "bytes">>, <<"crc", "u32">> >>,
   Store        |-> << <<"namespace", "str">>, <<"key", "str">>, <<"generation", "u64">>,
                       <<"data", "bytes">>, <<"crc", "u32">>, <<"compat", "bytes">>,
                       <<"source", "str">> >>,
   StoreAck     |-> << <<"object_id", "str">> >>,
   Migrate      |-> << <<"object_id", "str">>, <<"new_owner", "str">>,
                       <<"new_owner_addr", "str">>, <<"fence", "u64">> >>,
   MigrateAck   |-> << <<"object_id", "str">>, <<"new_owner", "str">>, <<"fence", "u64">> >>,
   Heartbeat    |-> << <<"node_id", "str">>, <<"epoch", "u64">> >>,
   Error        |-> << <<"code", "str">>, <<"message", "str">> >>]

Encode(m) == WriteFields(Encoded[m.type], m.body)

Decode(type, b) ==
  LET r == ReadFields(Decoded[type], b)
  IN  IF Whole(r) THEN [type |-> type, body |-> r.value] ELSE None
=============================================================================
