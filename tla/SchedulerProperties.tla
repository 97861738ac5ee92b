------------------------ MODULE SchedulerProperties ------------------------
(***************************************************************************)
(* What must hold of the processes and the scheduler of module Scheduler.  *)
(***************************************************************************)
EXTENDS Scheduler

\* Type invariant: the tables, queues and pointers hold values of their types,
\* and current_tick and every wake_tick stay within their unsigned width.
TypeOK ==
  /\ heap \in [Pcb -> {"fresh", "live", "freed"}]
  /\ currState \in [Pcb -> ProcessState]
  /\ wake_tick \in [Pcb -> 0..(TickMod - 1)]
  /\ parent \in [Pcb -> Pcb \cup {NULL}]
  /\ first_child \in [Pcb -> Pcb \cup {NULL}]
  /\ next_sibling \in [Pcb -> Pcb \cup {NULL}]
  /\ kctx \in [Pcb -> Resume]
  /\ current_process \in Pcb \cup {NULL, Wild}
  /\ readyQueue \in Seq(Pcb)
  /\ sleepQueue \in Seq(Pcb)
  /\ current_tick \in 0..(TickMod - 1)
  /\ kmode \in {"user", "wake", "wait", "exit", "wild"}
  /\ node \in Nat
  /\ child \in Pcb \cup {NULL}
-----------------------------------------------------------------------------
(* Safety: where a process is and what its PCB says agree.                 *)

\* A process that is not on the CPU is in exactly the place its state names:
\* READY, or FREE as KernelFork leaves its child, in the ready queue, BLOCKED
\* in the sleep queue, ZOMBIE in neither.
PlacedByState(p) ==
  /\ p \in Members(readyQueue) <=> currState[p] \in {"READY", "FREE"}
  /\ p \in Members(sleepQueue) <=> currState[p] = "BLOCKED"
  /\ currState[p] # "RUNNING"

\* Placement: no handler ever loses a process, queues it twice, leaves it in
\* the sleep queue after waking it, or keeps a freed PCB in a queue.  Exit, the
\* clock and the blocking calls all move PCBs between the queues and change
\* currState separately, each in its own order.
Placement ==
  /\ current_process \in Live
  /\ currState[current_process] = "RUNNING"
     \/ (current_process = idle_process /\ currState[idle_process] = "READY")
  /\ NoDuplicates(readyQueue)
  /\ NoDuplicates(sleepQueue)
  /\ Members(readyQueue) \cup Members(sleepQueue) \subseteq Live \ {current_process}
  /\ \A p \in Live \ {current_process} : PlacedByState(p)
  /\ \A p \in Pcb \ Live : currState[p] = "FREE"

\* No wild jump: get_next_ready_process is never called on an empty queue, the
\* case in which it falls off its end without a return value.
NoWildJump == kmode # "wild"

\* The wake-up loop, which unlinks nodes of the list it walks, does not step
\* over a process that is due: whatever it has passed is not.
NoSleeperSkipped ==
  kmode = "wake" =>
    \A i \in DOMAIN sleepQueue : i < node =>
      wake_tick[sleepQueue[i]] > current_tick

\* Saved contexts: the kernel context a process will resume with fits the state
\* it is in, so that a zombie's exit is never resumed, a sleeper resumes in the
\* call that put it to sleep, and no context is used twice.
ResumesIn(state) == CASE state = "FREE"    -> {"fork"}
                      [] state = "BLOCKED" -> {"delay", "wait"}
                      [] state = "ZOMBIE"  -> {"exit"}
                      [] OTHER -> {"boot", "clock", "delay", "wait"}
SavedContexts ==
  \A p \in Live \ {current_process} : kctx[p] \in ResumesIn(currState[p])
-----------------------------------------------------------------------------
(* The inductive invariant.  Placement is not inductive alone: it needs the *)
(* idle process to stand by, which is also why NoWildJump holds.           *)

\* Whenever idle is not running it waits for the CPU, and it never blocks.
IdleReady ==
  current_process # idle_process => idle_process \in Members(readyQueue)

\* Only programs are inside Wait and Exit, and the cursor of the clock's
\* wake-up loop is a position.
LoopState ==
  /\ kmode \in {"wait", "exit"} => current_process # idle_process
  /\ kmode = "wake" => node # 0

IInv == TypeOK /\ NoWildJump /\ Placement /\ IdleReady /\ LoopState
-----------------------------------------------------------------------------
(* Action properties: what a step may never do.                            *)

\* The dead stay dead: a zombie does not change state but by being reaped by
\* the running process, although Exit, Delay and the clock all write the
\* states of other processes.
DeadStayDead ==
  [][\A p \in Live : currState[p] = "ZOMBIE" =>
       \/ currState'[p] = "ZOMBIE"
       \/ heap'[p] = "freed" /\ kmode = "wait" /\ p # current_process]_vars

\* Sleepers wake for a reason: a process leaves BLOCKED only when its tick has
\* come or when a process whose parent it is has just died.
SleepersWakeForAReason ==
  [][\A p \in Live : currState[p] = "BLOCKED" /\ currState'[p] # "BLOCKED" =>
       \/ wake_tick[p] <= current_tick
       \/ /\ parent[current_process] = p
          /\ currState'[current_process] = "ZOMBIE"]_vars

\* First come, first served: a process that waits for the CPU is overtaken
\* neither by one behind it in the ready queue nor by one that was not yet
\* waiting: it stays in front of them until it gets the CPU.
Precedes(q, a, b) ==
  \E i, j \in DOMAIN q : i < j /\ q[i] = a /\ q[j] = b
Overtakable(q, b) == {a \in Members(q) : b \notin Members(q) \/ Precedes(q, a, b)}
NoOvertaking ==
  [][\A b \in Pcb : \A a \in Overtakable(readyQueue, b) :
       \/ Precedes(readyQueue', a, b)
       \/ current_process' = a
       \/ /\ b \notin Members(readyQueue')
          /\ current_process' = b => UNCHANGED current_process]_vars
-----------------------------------------------------------------------------
(* The family tree.  Wait leaves the links to the PCB it frees, in its own   *)
(* first_child or in a sibling, and malloc may return that block.  What      *)
(* follows holds as long as it does so only when no list leads there any     *)
(* more; the run wait_hangs shows one of the things that happen otherwise.   *)

\* Some list leads to the block.
Linked(q) == \E p \in Pcb : q \in {first_child[p], next_sibling[p]}

\* A step does not make a process of a freed block that is still linked.
UnlinkedReuse ==
  \A q \in Pcb : heap[q] = "freed" /\ heap'[q] = "live" => ~Linked(q)
FamilySpec == Init /\ [][Next /\ UnlinkedReuse]_vars

\* The list of a process holds its own children: the head of the list and two
\* neighbours in it that are still alive have the process for a parent.  While
\* Exit moves the children of a process, its own list is not read.
Family ==
  /\ \A p \in Live :
       LET c == first_child[p]
       IN  c \in Live /\ ~(kmode = "exit" /\ p = current_process) => parent[c] = p
  /\ \A p, q \in Live : next_sibling[p] = q => parent[p] = parent[q]

\* "found zombie child PID %d for parent %d" (KernelWait): Wait reaps only
\* children of the caller.
ReapsOwnChild ==
  [][\A p \in Live : heap'[p] = "freed" => parent[p] = current_process]_vars

(* Family is not inductive alone.  What makes it so is that a PCB is in one *)
(* list, once, and that nobody points to a block that was not handed out.   *)

\* Nobody's list holds init, idle or a fresh block, and no live process but
\* those two is without a parent.
NoWildKin ==
  /\ {init_process, idle_process} \subseteq Live
  /\ \A p \in Live \ {init_process, idle_process} : parent[p] # NULL
  /\ \A q \in Pcb :
       q \in {init_process, idle_process} \/ heap[q] = "fresh" =>
         /\ child # q
         /\ \A p \in Pcb : first_child[p] # q /\ next_sibling[p] # q

\* The processes whose list is to be read: not the one that Exit is emptying,
\* unless that is init, which the children go to.
Heads == {p \in Pcb : kmode = "exit" /\ p = current_process => p = init_process}

\* Who stands in a list has the parent whose list it is, or none, for a block
\* that was freed there; and Wait walks down the list of its caller.
ListOfOwner ==
  /\ \A p \in Heads, c \in Pcb :
       first_child[p] = c /\ parent[c] # NULL => parent[c] = p
  /\ \A p, q \in Pcb :
       next_sibling[p] = q /\ parent[q] # NULL => parent[p] = parent[q]
  /\ kmode = "wait" /\ child # NULL /\ parent[child] # NULL =>
       parent[child] = current_process

\* Exit of init moves the children of init within one list and leaves it in
\* disorder, but nobody will ever walk it again.
InitGone == currState[init_process] = "ZOMBIE"
            \/ (kmode = "exit" /\ current_process = init_process)
Disordered(p) == InitGone /\ parent[p] = init_process

\* Whoever is in a list is in one, once: one pointer at most leads to it, but
\* for those of init's children when init is gone.
OneListEach ==
  \A q \in Pcb :
    /\ \A p, r \in Pcb : next_sibling[p] = q /\ next_sibling[r] = q =>
         p = r \/ (Disordered(p) /\ Disordered(r))
    /\ \A p \in Heads, r \in Pcb : first_child[p] = q /\ next_sibling[r] = q =>
         p = init_process /\ Disordered(r)
    /\ \A p, r \in Heads : first_child[p] = q /\ first_child[r] = q => p = r

\* To the child that Exit moves next no list leads but the one being emptied.
CursorFree ==
  kmode = "exit" /\ child # NULL =>
    /\ \A p \in Pcb : first_child[p] = child => p = current_process
    /\ \A p \in Pcb : next_sibling[p] = child =>
         current_process = init_process /\ parent[p] = init_process
    /\ current_process # init_process => parent[child] # init_process

FamilyInv == NoWildKin /\ ListOfOwner /\ OneListEach /\ CursorFree
-----------------------------------------------------------------------------
(* Liveness, under fairness.  With a block handed out again while a list    *)
(* leads to it Wait need not return: see WaitSearchEnds.                   *)
FairFamilySpec == FamilySpec /\ Fairness

\* A process that waits for the CPU gets it, whatever the others do.
ReadyRuns ==
  \A p \in Pcb : p \in Members(readyQueue) ~> current_process = p

\* A process that sleeps, in Delay or in Wait, is made ready again.
SleeperWakes ==
  \A p \in Pcb : p \in Members(sleepQueue) ~> p \in Members(readyQueue)

\* Every trap returns: the loops over the sleep queue and over the child lists,
\* which the same handlers relink, come to an end.
TrapsReturn == kmode # "user" ~> kmode = "user"
-----------------------------------------------------------------------------
(* What the kernel's comments and traces say and its code does not do.     *)

\* "PID %d sleeping until tick %lu" (KernelDelay), "blocking PID %d until a child
\* exits" (KernelWait): a process is made ready by what it waits for, its tick in
\* Delay and the death of a child in Wait.  The clock wakes who is in Wait at the
\* next tick, since its wake_tick is an old one, and Wait returns without a child;
\* Exit wakes a parent that is BLOCKED for any reason, so also one in Delay.
BlocksUntilItsEvent ==
  [][\A p \in Live : currState[p] = "BLOCKED" /\ currState'[p] # "BLOCKED" =>
       /\ kctx[p] = "delay" => wake_tick[p] <= current_tick
       /\ kctx[p] = "wait" => /\ parent[current_process] = p
                             /\ currState'[current_process] = "ZOMBIE"]_vars

\* "if none are terminated, block" (KernelWait): the search of the child list
\* ends, also when malloc returns the block of a child that has been reaped.
WaitSearchEnds == kmode = "wait" ~> kmode # "wait"
-----------------------------------------------------------------------------
(* The abstract view.                                                      *)

\* Where a process stands, read off the queues and the CPU.
status ==
  [p \in Pcb |-> CASE p \notin Live                -> "none"
                   [] currState[p] = "ZOMBIE"      -> "dead"
                   [] p = current_process          -> "running"
                   [] p \in Members(readyQueue)    -> "ready"
                   [] p \in Members(sleepQueue)    -> "asleep"
                   [] OTHER                        -> "lost"]

Abstract == INSTANCE Lifecycle
              WITH Process <- Pcb, Idle <- idle_process, First <- init_process

\* Every step of the kernel is one of the life cycle's steps or leaves it alone.
RefinesLifecycle == Abstract!Spec
=============================================================================
