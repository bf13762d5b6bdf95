---------------------------- MODULE BoundedFifo -----------------------------
(***************************************************************************)
(* What the keyboard buffer promises: codes come out in the order in which *)
(* they went in, each once, and one is turned away only when Capacity      *)
(* codes are waiting.                                                      *)
(***************************************************************************)
EXTENDS Naturals, Sequences

CONSTANTS Codes, Capacity

VARIABLES queue, taken

Init == queue = <<>> /\ taken \in Codes

Put(c) ==
    /\ queue' = IF Len(queue) < Capacity THEN Append(queue, c) ELSE queue
    /\ UNCHANGED taken

Get ==
    /\ queue # <<>>
    /\ taken' = Head(queue)
    /\ queue' = Tail(queue)

Next == Get \/ \E c \in Codes : Put(c)

Spec == Init /\ [][Next]_<<queue, taken>>
=============================================================================
