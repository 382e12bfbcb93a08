--------------------------------- MODULE MCKmain ---------------------------------
(* Small instances of Kmain. *)
EXTENDS Kmain

Complete == [revision |-> TRUE, serial |-> TRUE, fb |-> TRUE, hhdm |-> TRUE,
             memmap |-> TRUE, rsdp |-> "good", madt |-> "good", frames |-> 18]

(* One answer missing or bad, with every combination of outputs. *)
Deficient ==
  {[Complete EXCEPT !.revision = FALSE], [Complete EXCEPT !.hhdm = FALSE],
   [Complete EXCEPT !.memmap = FALSE], [Complete EXCEPT !.rsdp = "none"],
   [Complete EXCEPT !.rsdp = "corrupt"], [Complete EXCEPT !.madt = "corrupt"],
   [Complete EXCEPT !.frames = 0]}

(* Frames run out in each step of the set-up, or of the threads' creation. *)
MCWorlds ==
  {Complete, [Complete EXCEPT !.madt = "none", !.serial = FALSE]}
  \cup {[w EXCEPT !.serial = s, !.fb = f]: w \in Deficient, s, f \in BOOLEAN}
  \cup {[Complete EXCEPT !.frames = f]: f \in 1..9}
================================================================================
