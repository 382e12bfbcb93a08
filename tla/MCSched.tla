-------------------------------- MODULE MCSched --------------------------------
(* Small instances of Sched. *)
EXTENDS Sched

(* Threads that never yield, preempted by the timer. *)
Preemptive == [yielders |-> {}, creators |-> All, outlasts |-> TRUE, halts |-> FALSE]

(* Threads that all yield before their slice is over. *)
Cooperative == [yielders |-> All, creators |-> All, outlasts |-> FALSE, halts |-> FALSE]

(* Threads that yield and that overrun their slice; kmain creates them and may halt. *)
Mixed == [yielders |-> All, creators |-> {Boot}, outlasts |-> TRUE, halts |-> TRUE]

MixedLoads == {Mixed}
AllLoads == {Preemptive, Cooperative, Mixed}
================================================================================
