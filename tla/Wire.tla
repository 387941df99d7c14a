-------------------------------- MODULE Wire --------------------------------
(***************************************************************************)
(* The binary codec (wire.rs).  A byte is a number below Base; numbers are  *)
(* written in little-endian order with a fixed width.  Writer and Reader    *)
(* are translated each from its own functions.                              *)
(***************************************************************************)
EXTENDS Naturals, Sequences, Functions, TLC

CONSTANTS
  Base,     \* the number of byte values (256 in the code)
  Wide,     \* the width of a u64 (8 in the code)
  Narrow,   \* the width of a u32 (4 in the code)
  None

ASSUME WireAssumption ==
  /\ {Base, Wide, Narrow} \subseteq Nat /\ Base >= 2 /\ Narrow >= 1 /\ Wide >= Narrow
  /\ None \notin Nat

Byte == 0..(Base - 1)

\* u64::MAX.
MaxWide == Base^Wide - 1

\* What is accumulated from the first element of a list to the last.
FoldLeft(op(_, _), base, s) ==
  LET acc[i \in 0..Len(s)] == IF i = 0 THEN base ELSE op(acc[i - 1], s[i]) IN acc[Len(s)]

Reverse(s) == [i \in 1..Len(s) |-> s[Len(s) - i + 1]]

FlattenSeq(lists) == FoldLeft(LAMBDA all, s : all \o s, <<>>, lists)

\* to_le_bytes and from_le_bytes.
LittleEndian(n, w) == [i \in 1..w |-> (n \div Base^(i - 1)) % Base]

FromLittleEndian(b) == FoldLeft(LAMBDA n, d : d + Base * n, 0, Reverse(b))

\* The largest byte never occurs in UTF-8.
Utf8(b) == \A i \in DOMAIN b : b[i] # Base - 1

-----------------------------------------------------------------------------
(* Writer *)

WriteBytes(b) == LittleEndian(Len(b), Wide) \o b

WriteOption(b) == IF b = None THEN <<0>> ELSE <<1>> \o WriteBytes(b)

Write(kind, v) ==
  CASE kind = "u8"     -> <<v>>
    [] kind = "u32"    -> LittleEndian(v, Narrow)
    [] kind = "u64"    -> LittleEndian(v, Wide)
    [] kind = "bool"   -> IF v THEN <<1>> ELSE <<0>>
    [] kind = "bytes"  -> WriteBytes(v)
    [] kind = "str"    -> WriteBytes(v)
    [] kind = "option" -> WriteOption(v)

-----------------------------------------------------------------------------
(* Reader: a value and the bytes that remain, or a failure *)

Failed == [ok |-> FALSE, value |-> None, rest |-> <<>>]

Got(v, rest) == [ok |-> TRUE, value |-> v, rest |-> rest]

Take(b, n) ==
  IF n > Len(b) THEN Failed ELSE Got(SubSeq(b, 1, n), SubSeq(b, n + 1, Len(b)))

ReadNumber(b, w) ==
  LET t == Take(b, w) IN IF t.ok THEN Got(FromLittleEndian(t.value), t.rest) ELSE t

\* Mutant of ReadBool: every nonzero byte is true.
ReadBoolLax(b) ==
  LET t == Take(b, 1) IN IF t.ok THEN Got(t.value # <<0>>, t.rest) ELSE Failed

ReadBool(b) ==
  LET t == Take(b, 1)
  IN  IF t.ok /\ t.value \in {<<0>>, <<1>>} THEN Got(t.value = <<1>>, t.rest) ELSE Failed

\* The length is compared with what remains before anything is taken.
ReadBytes(b) == LET n == ReadNumber(b, Wide) IN IF n.ok THEN Take(n.rest, n.value) ELSE n

ReadStr(b) == LET t == ReadBytes(b) IN IF t.ok /\ Utf8(t.value) THEN t ELSE Failed

ReadOption(b) ==
  LET p == ReadBool(b)
  IN  CASE ~p.ok   -> p
        [] p.value -> ReadStr(p.rest)
        [] OTHER   -> Got(None, p.rest)

Read(kind, b) ==
  CASE kind = "u8"     -> ReadNumber(b, 1)
    [] kind = "u32"    -> ReadNumber(b, Narrow)
    [] kind = "u64"    -> ReadNumber(b, Wide)
    [] kind = "bool"   -> ReadBool(b)
    [] kind = "bytes"  -> ReadBytes(b)
    [] kind = "str"    -> ReadStr(b)
    [] kind = "option" -> ReadOption(b)

-----------------------------------------------------------------------------
(* Records: fields of a given kind, written and read in the order of a table *)

WriteFields(table, record) ==
  FlattenSeq([i \in DOMAIN table |-> Write(table[i][2], record[table[i][1]])])

\* The next field: r is what its reader made of the bytes that remained.
Extend(acc, name, r) ==
  IF acc.ok /\ r.ok THEN Got(acc.value @@ (name :> r.value), r.rest) ELSE Failed

ReadField(acc, field) == Extend(acc, field[1], Read(field[2], acc.rest))

ReadFields(table, b) == FoldLeft(ReadField, Got(<<>>, b), table)

\* Everything was read and nothing remains.
Whole(r) == r.ok /\ r.rest = <<>>

\* A record without the fields that only frame it.
Unframed(v, frame) == Restrict(v, DOMAIN v \ frame)
=============================================================================
