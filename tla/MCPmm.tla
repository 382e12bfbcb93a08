--------------------------------- MODULE MCPmm ---------------------------------
(* Small instances of Pmm: two-byte pages, so a bitmap of three bytes takes two    *)
(* frames of its region.                                                           *)
EXTENDS Pmm

E(base, length, type) == [base |-> base, length |-> length, type |-> type]

Maps == {
  \* one region behind the kernel, a reserved hole far above RAM
  << E(0, 2, "reserved"), E(2, 3, "kernel"), E(6, 12, "usable"), E(60, 40, "reserved") >>,
  \* page 0 usable but too small for the bitmap, RAM up to frame 18
  << E(0, 2, "usable"), E(2, 8, "usable"), E(20, 6, "usable"), E(30, 7, "reclaimable") >>,
  \* the bitmap goes into the second usable region
  << E(2, 2, "usable"), E(8, 2, "reclaimable"), E(10, 10, "usable"), E(30, 6, "kernel") >>,
  \* the region that would hold the bitmap starts at address 0
  << E(0, 12, "usable") >>,
  \* nothing large enough; nothing usable; no answer
  << E(2, 2, "usable"), E(20, 16, "kernel") >>,
  << E(0, 8, "kernel") >>,
  << >> }
================================================================================
