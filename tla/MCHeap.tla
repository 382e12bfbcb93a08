--------------------------------- MODULE MCHeap ---------------------------------
(* Small instances of Heap: a header of two alignment units, as on x86_64. *)
EXTENDS Heap

Ordinary == {0, 1, 2, 5, 12}
================================================================================
