---------------------------- MODULE InputChannel ----------------------------
(***************************************************************************)
(* What the reliable stream promises to the two ends, without packets,      *)
(* numbers or acknowledgements: inputs come out in the order they went in,  *)
(* each once, possibly several at a time.                                   *)
(***************************************************************************)
EXTENDS Naturals, Sequences

CONSTANT Input

VARIABLES
    sent,       \* everything put in
    received    \* everything taken out: a prefix of sent

Init == sent \in {<<>>} \cup {<<i>> : i \in Input} /\ received = <<>>

Put == \E i \in Input : sent' = Append(sent, i) /\ UNCHANGED received

TakeOut ==
    \E n \in (Len(received) + 1)..Len(sent) :
        received' = SubSeq(sent, 1, n) /\ UNCHANGED sent

Next == Put \/ TakeOut

Spec == Init /\ [][Next]_<<sent, received>>

=============================================================================
