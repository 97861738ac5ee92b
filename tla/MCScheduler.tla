---------------------------- MODULE MCScheduler ----------------------------
(* Scheduler on a small machine: idle, init and the PCBs of their children. *)
EXTENDS SchedulerProperties

\* The blocks other than idle's and init's are alike.
Symmetry == Permutations(Pcb \ {idle_process, init_process})
=============================================================================
