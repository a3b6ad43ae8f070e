----------------------------- MODULE BoundedFifo -----------------------------
(***************************************************************************)
(* What a kernel queue promises: a bounded sequence that is written at     *)
(* either end and read at its front, one item at a time.                   *)
(***************************************************************************)
EXTENDS Naturals, Sequences

CONSTANTS Item, Length

VARIABLE content

Init == content = <<>>

SendToBack(v)  == Len(content) < Length /\ content' = Append(content, v)
SendToFront(v) == Len(content) < Length /\ content' = <<v>> \o content
Overwrite(v)   == Length = 1 /\ content' = <<v>>
Receive        == content # <<>> /\ content' = Tail(content)
Reset          == content' = <<>>

Next == \/ \E v \in Item : SendToBack(v) \/ SendToFront(v) \/ Overwrite(v)
        \/ Receive
        \/ Reset

Spec == Init /\ [][Next]_content
=============================================================================
