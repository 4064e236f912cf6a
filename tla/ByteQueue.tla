----------------------------- MODULE ByteQueue -----------------------------
(***************************************************************************)
(* What a buffer of a character device promises: a first-in first-out      *)
(* queue of at most Cap bytes for every device.                            *)
(***************************************************************************)
EXTENDS Naturals, Sequences

CONSTANTS Devs, Bytes, Cap

VARIABLE q  \* the bytes of every device, oldest first

Init == q \in [Devs -> {s \in Seq(Bytes) : Len(s) <= Cap}]

Put(d, c) ==
    /\ Len(q[d]) < Cap
    /\ q' = [q EXCEPT ![d] = Append(@, c)]

Get(d) ==
    /\ q[d] # << >>
    /\ q' = [q EXCEPT ![d] = Tail(@)]

Next == \E d \in Devs : Get(d) \/ \E c \in Bytes : Put(d, c)

Spec == Init /\ [][Next]_q
=============================================================================
