---------------------------- MODULE BoundedFifo ----------------------------
(***************************************************************************)
(* What the key queue promises: keys come out in the order they went in,   *)
(* each once, and the reader goes without one only when none is waiting.   *)
(* At most MaxDataCnt keys wait.  Indices and interrupts do not appear.    *)
(***************************************************************************)
EXTENDS Naturals, Sequences

CONSTANTS Data, MaxDataCnt, None

VARIABLES
  fifo,     \* keys waiting, oldest first
  got       \* what the last call gave the reader, None for FALSE

Init == fifo = <<>> /\ got = None

Put ==
  /\ Len(fifo) < MaxDataCnt
  /\ \E x \in Data : fifo' = Append(fifo, x)
  /\ got' = got

Get ==
  /\ fifo # <<>>
  /\ got' = Head(fifo)
  /\ fifo' = Tail(fifo)

Miss ==
  /\ fifo = <<>>
  /\ got' = None
  /\ fifo' = fifo

Next == Put \/ Get \/ Miss

Spec == Init /\ [][Next]_<<fifo, got>>
=============================================================================
