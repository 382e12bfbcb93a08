--------------------------------- MODULE Memory ---------------------------------
(* The copying loops of kernel/lib/string.c, byte by byte, over a memory that maps *)
(* addresses to bytes. scroll_one_row and struct assignments go through them.      *)
EXTENDS Integers, Sequences

(* d[i] = s[i] *)
CopyByte(mem, d, s, i) == [mem EXCEPT ![d + i] = mem[s + i]]

(* The memory after the loop has copied the first k bytes of the given order. *)
Copies(mem, d, s, order) ==
  LET after[k \in 0..Len(order)] ==
        IF k = 0 THEN mem ELSE CopyByte(after[k - 1], d, s, order[k])
  IN  after

CopyInOrder(mem, d, s, order) == Copies(mem, d, s, order)[Len(order)]

Upwards(n) == [k \in 1..n |-> k - 1]
Downwards(n) == [k \in 1..n |-> n - k]

Memcpy(mem, d, s, n) == CopyInOrder(mem, d, s, Upwards(n))

(* Mutant: always copies upwards. *)
MemmoveUpwards(mem, d, s, n) ==
  IF d = s \/ n = 0 THEN mem ELSE CopyInOrder(mem, d, s, Upwards(n))

Memmove(mem, d, s, n) ==
  IF d = s \/ n = 0 THEN mem
  ELSE CopyInOrder(mem, d, s, IF d < s THEN Upwards(n) ELSE Downwards(n))
================================================================================
