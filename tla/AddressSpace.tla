------------------------------- MODULE AddressSpace -------------------------------
(* What vmm.h promises: the kernel's one address space maps each page to a frame  *)
(* with rights or to nothing; a mapping that was asked for is installed whole or   *)
(* not at all, and no other page ever changes.                                     *)
EXTENDS Integers

CONSTANTS Page, Mapping, Absent

VARIABLES
  space,   \* the mapping of every page
  want     \* the mapping being installed, or Absent

Request == [page: Page, mapping: Mapping]

Init ==
  /\ space \in [Page -> Mapping \cup {Absent}]
  /\ want = Absent

Ask == want = Absent /\ want' \in Request /\ UNCHANGED space

Install ==
  /\ want # Absent
  /\ space' = [space EXCEPT ![want.page] = want.mapping]
  /\ want' = Absent

GiveUp == want # Absent /\ want' = Absent /\ UNCHANGED space

Unmap(v) ==
  /\ want = Absent
  /\ space' = [space EXCEPT ![v] = Absent]
  /\ UNCHANGED want

Next ==
  \/ Ask
  \/ Install
  \/ GiveUp
  \/ \E v \in Page: Unmap(v)

Spec == Init /\ [][Next]_<<space, want>>
================================================================================
