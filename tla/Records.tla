------------------------------ MODULE Records ------------------------------
(***************************************************************************)
(* The canonical encodings of an address, a compatibility key and a         *)
(* manifest (ident.rs, compat.rs, persistence.rs).  Hashes are taken to be  *)
(* injective: an identity is the bytes it is the hash of, and the anchor of *)
(* a manifest is a copy of its body.                                        *)
(***************************************************************************)
EXTENDS Geometry

CONSTANT HashLen    \* bytes of a digest (32 in the code)

ManifestMagic == 2

\* Address::encode, the identity of an object.
EncodeAddress(a) ==
  <<1>> \o WriteFields(<< <<"namespace", "str">>, <<"key", "str">>, <<"generation", "u64">> >>, a)

-----------------------------------------------------------------------------
(* Compatibility keys *)

WriteList(ns) ==
  LittleEndian(Len(ns), Wide) \o FlattenSeq([i \in DOMAIN ns |-> LittleEndian(ns[i], Wide)])

\* A counted list of numbers, refused when it is longer than max.
ReadList(b, max) ==
  LET n == ReadNumber(b, Wide)
  IN  IF n.ok /\ n.value <= max
        THEN FoldLeft(LAMBDA acc, i : LET r == ReadNumber(acc.rest, Wide)
                                      IN  IF acc.ok /\ r.ok
                                            THEN Got(Append(acc.value, r.value), r.rest)
                                            ELSE Failed,
                      Got(<<>>, n.rest), [i \in 1..n.value |-> i])
        ELSE Failed

WriteLayout(layout) ==
  CASE layout.kind = "row" -> <<0>>
    [] layout.kind = "col" -> <<1>>
    [] OTHER -> <<2>> \o WriteList(layout.strides)

ReadLayout(b) ==
  LET c == ReadNumber(b, 1)
      s == ReadList(c.rest, MaxRank)
  IN  CASE ~c.ok       -> Failed
        [] c.value = 0 -> Got(Layout("row", <<>>), c.rest)
        [] c.value = 1 -> Got(Layout("col", <<>>), c.rest)
        [] c.value = 2 -> IF s.ok THEN Got(Layout("strided", s.value), s.rest) ELSE Failed
        [] OTHER       -> Failed

Labels == << <<"model", "option">>, <<"model_revision", "option">>,
             <<"runtime_version", "option">>, <<"operation", "option">>, <<"dtype", "u8">> >>

Traits == << <<"endianness", "u8">>, <<"device", "option">>, <<"precision", "option">>,
             <<"quant", "u8">>, <<"mutability", "u8">> >>

\* Mutant of EncodeCompat: the layout is left out.
EncodeCompatNoLayout(c) ==
  <<1>> \o WriteFields(Labels, c) \o WriteList(c.shape) \o <<0>> \o WriteFields(Traits, c)

EncodeCompat(c) ==
  <<1>> \o WriteFields(Labels, c) \o WriteList(c.shape) \o WriteLayout(c.layout)
        \o WriteFields(Traits, c)

ReadPart(kind, b) ==
  CASE kind = "list"   -> ReadList(b, MaxRank)
    [] kind = "layout" -> ReadLayout(b)
    [] OTHER           -> Read(kind, b)

\* The fields in the order they are read.
CompatTable ==
  << <<"version", "u8">>, <<"model", "option">>, <<"model_revision", "option">>,
     <<"runtime_version", "option">>, <<"operation", "option">>, <<"dtype", "u8">>,
     <<"shape", "list">>, <<"layout", "layout">>, <<"endianness", "u8">>,
     <<"device", "option">>, <<"precision", "option">>, <<"quant", "u8">>,
     <<"mutability", "u8">> >>

CompatValid(k) ==
  /\ k.version = 1
  /\ k.dtype \in DOMAIN ByteSize
  /\ ShapeValid(k.shape) /\ LayoutValid(k.layout, k.shape)
  /\ k.endianness \in Endianness
  /\ k.quant \in QuantKind
  /\ k.mutability \in Mutability

CompatOf(r) ==
  IF Whole(r) /\ CompatValid(r.value) THEN Unframed(r.value, {"version"}) ELSE None

ReadCompatField(acc, field) == Extend(acc, field[1], ReadPart(field[2], acc.rest))

DecodeCompat(b) == CompatOf(FoldLeft(ReadCompatField, Got(<<>>, b), CompatTable))

-----------------------------------------------------------------------------
(* Manifests *)

Prologue == << <<"object_id", "str">>, <<"namespace", "str">>, <<"key", "str">>,
               <<"generation", "u64">> >>

Sizes == << <<"byte_len", "u64">>, <<"numel", "u64">>, <<"created_ns", "u64">> >>

BlockFields == << <<"content_hash", "bytes">>, <<"offset", "u64">>, <<"len", "u64">>,
                  <<"crc", "u32">> >>

EncodeManifest(m) ==
  LET body == LittleEndian(ManifestMagic, Narrow) \o <<1>>
              \o WriteFields(Prologue, m)
              \o WriteBytes(EncodeCompat(m.compat))
              \o WriteFields(Sizes, m)
              \o LittleEndian(Len(m.blocks), Wide)
              \o FlattenSeq([i \in DOMAIN m.blocks |-> WriteFields(BlockFields, m.blocks[i])])
  IN  [body |-> body, anchor |-> body]

\* The count is checked before any block is read.
ReadBlocks(b) ==
  LET n == ReadNumber(b, Wide)
      block(acc, i) ==
        LET r == ReadFields(BlockFields, acc.rest)
        IN  IF acc.ok /\ r.ok /\ Len(r.value.content_hash) = HashLen
              THEN Got(Append(acc.value, r.value), r.rest)
              ELSE Failed
  IN  IF n.ok /\ n.value <= MaxBlocks
        THEN FoldLeft(block, Got(<<>>, n.rest), [i \in 1..n.value |-> i])
        ELSE Failed

ReadCompat(b) ==
  LET t == ReadBytes(b) IN IF t.ok THEN Got(DecodeCompat(t.value), t.rest) ELSE Failed

ReadManifestPart(kind, b) ==
  CASE kind = "compat" -> ReadCompat(b)
    [] kind = "blocks" -> ReadBlocks(b)
    [] OTHER           -> Read(kind, b)

ManifestTable ==
  << <<"magic", "u32">>, <<"version", "u8">>, <<"object_id", "str">>, <<"namespace", "str">>,
     <<"key", "str">>, <<"generation", "u64">>, <<"compat", "compat">>, <<"byte_len", "u64">>,
     <<"numel", "u64">>, <<"created_ns", "u64">>, <<"blocks", "blocks">> >>

\* What the fields must agree on.
ManifestValid(m) ==
  /\ m.magic = ManifestMagic /\ m.version = 1
  /\ m.compat # None
  /\ m.byte_len = ByteLen(m.compat.shape, ByteSize[m.compat.dtype])
  /\ m.numel = Numel(m.compat.shape)
  /\ ValidateBlockList(m.blocks, m.byte_len)

ManifestFrom(r) ==
  IF Whole(r) /\ ManifestValid(r.value) THEN Unframed(r.value, {"magic", "version"}) ELSE None

ReadManifestField(acc, field) == Extend(acc, field[1], ReadManifestPart(field[2], acc.rest))

DecodeBody(b) == ManifestFrom(FoldLeft(ReadManifestField, Got(<<>>, b), ManifestTable))

DecodeManifest(file) == IF file.anchor = file.body THEN DecodeBody(file.body) ELSE None
=============================================================================
