------------------------------ MODULE ByteQueue ------------------------------
(***************************************************************************)
(* What net::Buffer promises: the readable bytes are a sequence to whose   *)
(* end append() adds, from whose front retrieve() takes, and to whose      *)
(* front prepend() adds.  Where they lie in memory does not show.          *)
(***************************************************************************)
EXTENDS Integers, Sequences

CONSTANT Chunks    \* the strings that are appended and prepended

VARIABLE bytes

Init == bytes = <<>>

Add(d)     == bytes' = bytes \o d
AddFront(d) == bytes' = d \o bytes
Take(n)    == n <= Len(bytes) /\ bytes' = SubSeq(bytes, n + 1, Len(bytes))

Next ==
    \/ \E d \in Chunks : Add(d) \/ AddFront(d)
    \/ \E n \in 0 .. Len(bytes) : Take(n)

Spec == Init /\ [][Next]_bytes
=============================================================================
