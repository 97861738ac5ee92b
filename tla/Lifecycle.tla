----------------------------- MODULE Lifecycle -----------------------------
(***************************************************************************)
(* What the process part of the kernel promises a reader who knows nothing *)
(* of its queues, PCB fields and pointers: one CPU, given to one process   *)
(* at a time; a process is created by another one, waits for the CPU,      *)
(* sleeps and is woken, dies once, and leaves the table only when somebody *)
(* collects it.  The module Scheduler implements this one.                 *)
(***************************************************************************)
CONSTANTS Process, Idle, First

VARIABLE
  status   \* "none", "ready", "running", "asleep" or "dead" for each process

Is(s) == {p \in Process : status[p] = s}

Init == status = [p \in Process |-> CASE p = Idle  -> "running"
                                      [] p = First -> "ready"
                                      [] OTHER     -> "none"]

\* The process on the CPU is a program, not the idle loop.
ByProgram(p) == status[p] = "running" /\ p # Idle

\* A program makes a new process.
Create ==
  \E p, new \in Process :
    /\ ByProgram(p)
    /\ status[new] = "none"
    /\ status' = [status EXCEPT ![new] = "ready"]

\* The CPU is taken from a process that could have gone on.
Preempt ==
  \E p, next \in Process :
    /\ status[p] = "running"
    /\ status[next] = "ready"
    /\ status' = [status EXCEPT ![p] = "ready", ![next] = "running"]

\* A program goes to sleep and hands the CPU on.
Sleep ==
  \E p, next \in Process :
    /\ ByProgram(p)
    /\ status[next] = "ready"
    /\ status' = [status EXCEPT ![p] = "asleep", ![next] = "running"]

\* A sleeper may run again.
Wake ==
  \E p \in Process :
    /\ status[p] = "asleep"
    /\ status' = [status EXCEPT ![p] = "ready"]

\* A program dies, which may wake one sleeper, and hands the CPU on.
Die ==
  \E p, next \in Process :
    /\ ByProgram(p)
    /\ status[next] = "ready"
    /\ \/ status' = [status EXCEPT ![p] = "dead", ![next] = "running"]
       \/ \E woken \in Is("asleep") :
            status' = [status EXCEPT ![p] = "dead", ![next] = "running",
                                     ![woken] = "ready"]

\* A program collects a dead process.
Reap ==
  \E p, corpse \in Process :
    /\ ByProgram(p)
    /\ status[corpse] = "dead"
    /\ status' = [status EXCEPT ![corpse] = "none"]

Next == Create \/ Preempt \/ Sleep \/ Wake \/ Die \/ Reap

Spec == Init /\ [][Next]_status
=============================================================================
