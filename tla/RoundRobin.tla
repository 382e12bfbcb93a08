------------------------------- MODULE RoundRobin -------------------------------
(* What kernel/sched promises its callers (sched.h): the threads form one ring,  *)
(* a switch passes the turn to the next thread of it, and a new thread enters    *)
(* right behind the one whose turn it is. No locks, interrupts or stacks.        *)
CONSTANTS Thread, Boot

VARIABLES
  current,  \* whose turn it is
  succ      \* the ring, a function on its members

vars == <<current, succ>>

Init ==
  /\ current = Boot
  /\ succ = [t \in {Boot} |-> Boot]

(* sched_add_thread *)
Add(t) ==
  /\ t \notin DOMAIN succ
  /\ succ' = [u \in DOMAIN succ \cup {t} |->
                CASE u = t       -> succ[current]
                  [] u = current -> t
                  [] OTHER       -> succ[u]]
  /\ UNCHANGED current

(* sched_yield, or a time slice that ends in sched_tick *)
Switch ==
  /\ current' = succ[current]
  /\ UNCHANGED succ

Next == Switch \/ \E t \in Thread: Add(t)

Spec == Init /\ [][Next]_vars
=============================================================================
