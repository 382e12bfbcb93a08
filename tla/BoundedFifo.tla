------------------------------- MODULE BoundedFifo -------------------------------
(* A queue of at most Capacity characters: what comes out is what went in, in the  *)
(* order it went in. A character offered to a full queue is dropped.               *)
EXTENDS Integers, Sequences

CONSTANTS Capacity, Char, NUL

VARIABLES
  queue,
  out      \* the last character taken out

Init == queue = << >> /\ out = NUL

Put(c) == Len(queue) < Capacity /\ queue' = Append(queue, c) /\ UNCHANGED out

Take == queue # << >> /\ out' = Head(queue) /\ queue' = Tail(queue)

Next == (\E c \in Char: Put(c)) \/ Take

(* Nothing lost, repeated or overtaken; and everything taken out in the end. *)
Safety == Init /\ [][Next]_<<queue, out>>

Spec == Safety /\ WF_<<queue, out>>(Take)
================================================================================
