-------------------------------- MODULE Pipe --------------------------------
(***************************************************************************)
(* What a connection promises about one direction: the messages arrive one *)
(* by one, unchanged and in the order in which they were sent.             *)
(***************************************************************************)
EXTENDS Naturals, Sequences

VARIABLES sent, got

Send == /\ Len(sent') = Len(sent) + 1
        /\ SubSeq(sent', 1, Len(sent)) = sent
        /\ UNCHANGED got

Deliver == /\ Len(got) < Len(sent)
           /\ got' = Append(got, sent[Len(got) + 1])
           /\ UNCHANGED sent

Spec == sent = <<>> /\ got = <<>> /\ [][Send \/ Deliver]_<<sent, got>>
=============================================================================
