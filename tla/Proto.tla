------------------------------- MODULE Proto -------------------------------
(***************************************************************************)
(* ProtoEncoder and ProtoDecoder: the bytes of a message and its fields.   *)
(* A byte holds Bits bits of a varint and the flag that another follows.   *)
(* A float is its bit pattern, a bool a varint, a string its bytes.        *)
(***************************************************************************)
EXTENDS Naturals, Sequences

CONSTANTS
  Bits,  \* 7 in the code
  Width  \* 64 in the code: the bits of the quint64 that a varint is read into

ASSUME ProtoAssumption == Bits \in Nat \ {0} /\ Width \in Nat \ {0}

\* 1 << n
Pow2[n \in Nat] == IF n = 0 THEN 1 ELSE 2 * Pow2[n - 1]

Half == Pow2[Bits]     \* 0x80
Base == 2 * Half       \* 0x100

\* A field as ProtoField keeps it, the float left out.
Field(number, wireType, varint, raw) ==
  [field |-> number, wireType |-> wireType, varint |-> varint, raw |-> raw]

\* The fields that the code writes: numbers that fit their width, bytes, and
\* nothing in the members that the wire type does not use.
Encodable ==
  {f \in [field : Nat, wireType : {0, 1, 2, 5}, varint : Nat, raw : Seq(0..(Base - 1))] :
     /\ 8 * f.field + 7 < Pow2[Width]
     /\ f.wireType # 2 => f.raw = <<>>
     /\ f.wireType \in {1, 2} => f.varint = 0
     /\ f.wireType = 0 => f.varint < Pow2[Width]
     /\ f.wireType = 5 => f.varint < Base * (Base * (Base * Base))
     /\ Len(f.raw) < Pow2[Width]}

-----------------------------------------------------------------------------
writeVarint[v \in Nat] ==
  IF v >= Half THEN <<Half + (v % Half)>> \o writeVarint[v \div Half] ELSE <<v>>

writeTag(field, wireType) == writeVarint[8 * field + wireType]

addVarint(data, field, value) == data \o writeTag(field, 0) \o writeVarint[value]

\* Little-endian.
addFixed32(data, field, value) ==
  data \o writeTag(field, 5)
    \o <<value % Base, (value \div Base) % Base, ((value \div Base) \div Base) % Base,
         (((value \div Base) \div Base) \div Base) % Base>>

addBytes(data, field, value) ==
  data \o writeTag(field, 2) \o writeVarint[Len(value)] \o value

\* No message of the service has a 64-bit field; one of a node may.
addFixed64(data, field) == data \o writeTag(field, 1) \o [i \in 1..8 |-> 0]

\* The bytes of a sequence of fields.
encode(fields) ==
  LET data[n \in 0..Len(fields)] ==
        IF n = 0 THEN <<>>
        ELSE LET f == fields[n]
             IN CASE f.wireType = 0 -> addVarint(data[n - 1], f.field, f.varint)
                  [] f.wireType = 1 -> addFixed64(data[n - 1], f.field)
                  [] f.wireType = 2 -> addBytes(data[n - 1], f.field, f.raw)
                  [] f.wireType = 5 -> addFixed32(data[n - 1], f.field, f.varint)
  IN data[Len(fields)]

-----------------------------------------------------------------------------
\* A reader that fails; what it did to m_pos no longer matters.
Failed == [ok |-> FALSE]

FaultyReadVarint(data, pos) ==
  LET last == {p \in pos..Len(data) : (data[p] < Half \/ p = Len(data)) /\ (p - pos) * Bits < Width
                                      /\ \A q \in pos..(p - 1) : data[q] >= Half}
      sum[p \in (pos - 1)..Len(data)] ==
        IF p < pos THEN 0 ELSE sum[p - 1] + (data[p] % Half) * Pow2[(p - pos) * Bits]
  IN IF last = {} THEN Failed
     ELSE LET p == CHOOSE p \in last : TRUE
          IN [ok |-> TRUE, value |-> sum[p] % Pow2[Width], next |-> p + 1]

\* readVarint from the position pos: groups until one without the flag, at most
\* as many as start within the width; what is shifted beyond it is lost.
readVarint(data, pos) ==
  LET last == {p \in pos..Len(data) : data[p] < Half /\ (p - pos) * Bits < Width
                                      /\ \A q \in pos..(p - 1) : data[q] >= Half}
      sum[p \in (pos - 1)..Len(data)] ==
        IF p < pos THEN 0 ELSE sum[p - 1] + (data[p] % Half) * Pow2[(p - pos) * Bits]
  IN IF last = {} THEN Failed
     ELSE LET p == CHOOSE p \in last : TRUE
          IN [ok |-> TRUE, value |-> sum[p] % Pow2[Width], next |-> p + 1]

Fits(data, pos, n) == pos + n <= Len(data) + 1

\* readField.  A length is one that fits an int.
readField(data, pos) ==
  LET tag  == readVarint(data, pos)
      Done(v, raw, next) ==
        [ok |-> TRUE, field |-> Field(tag.value \div 8, tag.value % 8, v, raw), next |-> next]
  IN IF ~tag.ok THEN Failed
     ELSE CASE tag.value % 8 = 0 ->
                 LET v == readVarint(data, tag.next)
                 IN IF v.ok THEN Done(v.value, <<>>, v.next) ELSE Failed
            [] tag.value % 8 = 1 ->
                 IF Fits(data, tag.next, 8) THEN Done(0, <<>>, tag.next + 8) ELSE Failed
            [] tag.value % 8 = 2 ->
                 LET len == readVarint(data, tag.next)
                 IN IF len.ok /\ Fits(data, len.next, len.value)
                      THEN Done(0, SubSeq(data, len.next, len.next + len.value - 1), len.next + len.value)
                      ELSE Failed
            [] tag.value % 8 = 5 ->
                 IF Fits(data, tag.next, 4)
                   THEN Done(data[tag.next] + Base * (data[tag.next + 1] + Base * (data[tag.next + 2]
                             + Base * data[tag.next + 3])), <<>>, tag.next + 4)
                   ELSE Failed
            [] OTHER -> Failed

\* decode: the fields up to the end or to the first that cannot be read.
decode(data) ==
  LET fields[pos \in 1..(Len(data) + 1)] ==
        IF pos > Len(data) \/ ~readField(data, pos).ok THEN <<>>
        ELSE <<readField(data, pos).field>> \o fields[readField(data, pos).next]
  IN fields[1]
=============================================================================
