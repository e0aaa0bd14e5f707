------------------------------- MODULE MCWire -------------------------------
(***************************************************************************)
(* Wire for TLC: bytes of three bits, so that a frame holds at most 63,    *)
(* and varints of seven bits, in up to four groups of two.                 *)
(***************************************************************************)
EXTENDS Wire

Zeros(n) == [i \in 1..n |-> 0]

\* A key and a value, and a value longer than a frame.
MCUp ==
  { [type |-> 9, fields |-> <<Field(1, 5, 7 + 8 * 64, <<>>), Field(2, 0, 1, <<>>)>>],
    [type |-> 54, fields |-> <<Field(1, 5, 1, <<>>), Field(2, 2, 0, Zeros(60))>>] }

\* Every wire type, bytes that look like a frame, no fields.
MCDown ==
  { [type |-> 25, fields |-> <<Field(1, 5, 1, <<>>), Field(2, 0, 127, <<>>), Field(3, 2, 0, <<1, 0, 1>>)>>],
    [type |-> 63, fields |-> <<Field(4, 1, 0, <<>>), Field(15, 2, 0, <<>>), Field(2, 0, 0, <<>>)>>],
    [type |-> 7, fields |-> <<>>] }
=============================================================================
