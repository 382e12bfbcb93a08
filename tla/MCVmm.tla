--------------------------------- MODULE MCVmm ---------------------------------
(* A small instance of Vmm: 27 pages under three levels of three entries. *)
EXTENDS Vmm

E(base, length, type) == [base |-> base, length |-> length, type |-> type]

(* The bootloader's tables lead to the kernel image, just below the dynamic range. *)
Leading(i, f) == [EmptyTable EXCEPT ![i] = Entry(f, {"W", "U"})]

Limine == [f \in {1, 8, 9} |->
             CASE f = 1 -> Leading(2, 8)
               [] f = 8 -> Leading(0, 9)
               [] f = 9 -> Leading(0, 10)]

SmallMap == {<< E(1, 1, "reclaimable"), E(2, 6, "usable"), E(8, 2, "reclaimable"),
                E(10, 1, "kernel") >>}

Heap == [start |-> 1, end |-> 2, flags |-> {"W"}]
Other == [start |-> 1, end |-> 2, flags |-> {"W", "U"}]
LazyRegions == {Heap, Other}
Flags == {{"W", "U"}}
================================================================================
