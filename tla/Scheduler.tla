----------------------------- MODULE Scheduler -----------------------------
(***************************************************************************)
(* Processes and the scheduler of the kernel: the PCB table, the ready and *)
(* sleep queues, the clock trap, and the system calls that change who may  *)
(* run (Fork, Exit, Wait, Delay), with the family tree Exit and Wait walk. *)
(*                                                                         *)
(* The machine has one CPU and the kernel is not interrupted, so a trap    *)
(* handler runs alone until it returns or switches context.  The handlers  *)
(* that loop over a linked structure take one step per iteration: kmode    *)
(* names the loop and, while it is not "user", no other action is enabled. *)
(* A PCB is named by the heap block it lives in, so a pointer that is kept *)
(* after free() is the name of a block that may be handed out again.       *)
(***************************************************************************)
EXTENDS Queue

CONSTANTS
  Pcb,            \* heap blocks that malloc(sizeof(PCB)) can return
  idle_process,   \* the block of the idle process
  init_process,   \* the block of the process KernelStart loads
  NULL,
  Wild,           \* a return value nobody set
  TickMod,        \* current_tick and wake_tick are unsigned: 2^32 in the code
  Delays,         \* positive arguments of Delay
  ReuseFreed      \* may malloc return a block that was freed before?

ASSUME SchedulerAssumption ==
  /\ idle_process \in Pcb
  /\ init_process \in Pcb
  /\ idle_process # init_process
  /\ NULL \notin Pcb
  /\ Wild \notin Pcb \cup {NULL}
  /\ TickMod \in Nat \ {0}
  /\ Delays \subseteq Nat \ {0}
  /\ ReuseFreed \in BOOLEAN

VARIABLES
  heap,             \* "fresh" until malloc returns the block, "live", "freed"
  currState,        \* the fields of each PCB ...
  wake_tick,
  parent,
  first_child,
  next_sibling,
  kctx,             \* ... where its saved kernel context will resume
  current_process,
  readyQueue,
  sleepQueue,
  current_tick,
  kmode,            \* the loop the kernel is in, "user" outside the kernel
  node,             \* that loop's position in sleepQueue (clock trap)
  child             \* that loop's pointer into the family tree (Exit, Wait)

family    == <<parent, first_child, next_sibling>>
queues    == <<readyQueue, sleepQueue>>
cpu       == <<current_process, kctx>>
loop      == <<kmode, node, child>>
vars      == <<heap, currState, wake_tick, family, cpu, queues, current_tick,
               loop>>

\* ProcessState of process.h, the values the code assigns.
ProcessState == {"FREE", "READY", "BLOCKED", "RUNNING", "ZOMBIE"}

\* The call a suspended process is inside of.  "boot" is KernelStart itself.
Resume == {"none", "boot", "clock", "fork", "delay", "wait", "exit"}

Live == {p \in Pcb : heap[p] = "live"}
-----------------------------------------------------------------------------
\* KernelStart with a program to run: the CPU is in idle, whose state is still
\* the READY that idle_proc_create gave it, and KCCopy has queued init.
Init ==
  /\ heap = [p \in Pcb |-> IF p \in {idle_process, init_process}
                           THEN "live" ELSE "fresh"]
  /\ currState = [p \in Pcb |-> IF p \in {idle_process, init_process}
                                THEN "READY" ELSE "FREE"]
  /\ wake_tick = [p \in Pcb |-> 0]
  /\ parent = [p \in Pcb |-> NULL]
  /\ first_child = [p \in Pcb |-> NULL]
  /\ next_sibling = [p \in Pcb |-> NULL]
  /\ kctx = [p \in Pcb |-> IF p = init_process THEN "boot" ELSE "none"]
  /\ current_process = idle_process
  /\ readyQueue = <<init_process>>
  /\ sleepQueue = <<>>
  /\ current_tick = 0
  /\ kmode = "user"
  /\ node = 0
  /\ child = NULL
-----------------------------------------------------------------------------
\* get_next_ready_process has no return statement for the empty queue: the
\* caller gets whatever the register holds, NULL if it is lucky.
get_next_ready_process(q) == IF isEmpty(q) THEN {NULL, Wild} ELSE {Head(q)}

\* The saved contexts after a switch to next: the CPU's is kept in the PCB of
\* the process that leaves it, to resume inside the call resume, and the one
\* next was saved with is used up.
SwitchContext_SavesIntoNext(next, resume) == [kctx EXCEPT ![next] = resume]
SwitchContext(next, resume) ==
  IF next # current_process
  THEN [kctx EXCEPT ![current_process] = resume, ![next] = "none"]
  ELSE kctx

\* KCSwitch, called in the states st.  If next is already running nothing is
\* switched, but the clock handler and KernelDelay have marked it RUNNING
\* before they came here.
KCSwitch(st, next, resume) ==
  /\ current_process' = next
  /\ kmode' = IF next \in Pcb THEN "user" ELSE "wild"
  /\ kctx' = SwitchContext(next, resume)
  /\ currState' = IF next # current_process \/ resume \in {"clock", "delay"}
                  THEN [st EXCEPT ![next] = "RUNNING"]
                  ELSE st

\* The end of the calls that give up the CPU: take the head of the ready queue
\* q, or idle when there is none, and switch to it.
YieldCpu(q, st, resume) ==
  \E found \in get_next_ready_process(q) :
    LET next == IF found = NULL THEN idle_process ELSE found
    IN  /\ readyQueue' = Dequeue(q)
        /\ KCSwitch(st, next, resume)

\* Idle only pauses; every other process may make system calls.
InUserProgram == kmode = "user" /\ current_process # idle_process
-----------------------------------------------------------------------------
\* HandleClockTrap counts the tick and starts down the sleep queue.
HandleClockTrap ==
  /\ kmode = "user"
  /\ current_tick' = (current_tick + 1) % TickMod
  /\ kmode' = "wake"
  /\ node' = 1
  /\ UNCHANGED <<heap, currState, wake_tick, family, cpu, queues, child>>

\* The test of the wake-up loop.
Due_OneTickEarly(p) == wake_tick[p] <= current_tick + 1
Due_OneTickLate(p) == wake_tick[p] < current_tick
Due(p) == wake_tick[p] <= current_tick

\* The loop's position for its next iteration: unlinking a node brings its
\* successor to the same position.
PositionAfter_AlwaysAdvances(unlinked) == node + 1
PositionAfter(unlinked) == IF unlinked THEN node ELSE node + 1

\* One iteration of the loop: a process that is due is unlinked in place and
\* made ready.
WakeSleeper ==
  /\ kmode = "wake"
  /\ node <= Len(sleepQueue)
  /\ LET p == sleepQueue[node]
     IN  /\ node' = PositionAfter(Due(p))
         /\ \/ /\ Due(p)
               /\ sleepQueue' = UnlinkAt(sleepQueue, node)
               /\ currState' = [currState EXCEPT ![p] = "READY"]
               /\ readyQueue' = Enqueue(readyQueue, p)
            \/ /\ ~Due(p)
               /\ UNCHANGED <<currState, queues>>
  /\ UNCHANGED <<heap, wake_tick, family, cpu, current_tick, kmode, child>>

\* The first tick finds idle READY but not queued, and queues it.
ReadyAtDispatch_WithoutIdle == readyQueue
ReadyAtDispatch ==
  IF current_process = idle_process /\ currState[idle_process] = "READY"
  THEN Enqueue(readyQueue, idle_process)
  ELSE readyQueue

\* The rest of HandleClockTrap: a RUNNING process that is alone goes on;
\* otherwise the head of the ready queue runs next, and the process it
\* preempts goes to the end of the queue.
ClockDispatch ==
  /\ kmode = "wake"
  /\ node > Len(sleepQueue)
  /\ LET old       == current_process
         preempted == currState[old] = "RUNNING"
         rest      == Dequeue(ReadyAtDispatch)
         st        == IF preempted THEN [currState EXCEPT ![old] = "READY"]
                                   ELSE currState
     IN  IF isEmpty(ReadyAtDispatch) /\ preempted
         THEN kmode' = "user" /\ UNCHANGED <<currState, readyQueue, cpu>>
         ELSE \E next \in get_next_ready_process(ReadyAtDispatch) :
                /\ readyQueue' = IF preempted THEN Enqueue(rest, old) ELSE rest
                /\ KCSwitch(st, next, "clock")
  /\ node' = 0
  /\ UNCHANGED <<heap, wake_tick, family, sleepQueue, current_tick, child>>
-----------------------------------------------------------------------------
\* Blocks malloc may return: what was freed comes back only under ReuseFreed.
Allocatable ==
  {p \in Pcb : heap[p] = "fresh" \/ (ReuseFreed /\ heap[p] = "freed")}

\* spawn_proc clears the new PCB: its state is the FREE that memset leaves, and
\* nothing but the first switch to it changes that.
spawn_proc(new) ==
  /\ heap' = [heap EXCEPT ![new] = "live"]
  /\ currState' = [currState EXCEPT ![new] = "FREE"]
  /\ wake_tick' = [wake_tick EXCEPT ![new] = 0]

\* KCCopy gives it a copy of the caller's context, and queues it.
KCCopy(new) ==
  /\ kctx' = [kctx EXCEPT ![new] = "fork"]
  /\ readyQueue' = Enqueue(readyQueue, new)

\* KernelFork puts the child in front of the caller's children.
KernelFork ==
  /\ InUserProgram
  /\ \E new \in Allocatable :
       /\ spawn_proc(new)
       /\ parent' = [parent EXCEPT ![new] = current_process]
       /\ next_sibling' = [next_sibling EXCEPT ![new] = first_child[current_process]]
       /\ first_child' = [first_child EXCEPT ![current_process] = new, ![new] = NULL]
       /\ KCCopy(new)
  /\ UNCHANGED <<current_process, sleepQueue, current_tick, loop>>

\* free_proc with its flag set: the PCB is cleared by memset and freed.
free_proc(p) ==
  /\ heap' = [heap EXCEPT ![p] = "freed"]
  /\ currState' = [currState EXCEPT ![p] = "FREE"]
  /\ wake_tick' = [wake_tick EXCEPT ![p] = 0]
  /\ parent' = [parent EXCEPT ![p] = NULL]
  /\ first_child' = [first_child EXCEPT ![p] = NULL]
  /\ next_sibling' = [next_sibling EXCEPT ![p] = NULL]
  /\ kctx' = [kctx EXCEPT ![p] = "none"]

\* KernelFork without frames for the child's kernel stack or its pages: the
\* new PCB is cleared and freed again, and Fork returns ERROR.
KernelForkNoFrames ==
  /\ InUserProgram
  /\ \E new \in Allocatable : free_proc(new)
  /\ UNCHANGED <<current_process, queues, current_tick, loop>>

\* Unsigned arithmetic: the sum wraps.
WakeTime_Unbounded(clock_ticks) == current_tick + clock_ticks
WakeTime(clock_ticks) == (current_tick + clock_ticks) % TickMod

\* KernelDelay for a positive number of ticks (0 and less return at once).
KernelDelay ==
  /\ InUserProgram
  /\ \E clock_ticks \in Delays :
       wake_tick' = [wake_tick EXCEPT ![current_process] = WakeTime(clock_ticks)]
  /\ sleepQueue' = Enqueue(sleepQueue, current_process)
  /\ YieldCpu(readyQueue,
              [currState EXCEPT ![current_process] = "BLOCKED"],
              "delay")
  /\ UNCHANGED <<heap, family, current_tick, node, child>>
-----------------------------------------------------------------------------
\* KernelWait with at least one child (without any it returns ERROR): start
\* the search of the child list.
KernelWait ==
  /\ InUserProgram
  /\ first_child[current_process] # NULL
  /\ kmode' = "wait"
  /\ child' = first_child[current_process]
  /\ UNCHANGED <<heap, currState, wake_tick, family, cpu, queues, current_tick,
                 node>>

\* The search passes a child that has not exited.
WaitSkip ==
  /\ kmode = "wait"
  /\ child # NULL
  /\ currState[child] # "ZOMBIE"
  /\ child' = next_sibling[child]
  /\ UNCHANGED <<heap, currState, wake_tick, family, cpu, queues, current_tick,
                 kmode, node>>

\* It finds a zombie: free_proc clears the PCB and gives it back to the heap.
\* The pointers to it, in first_child or in a sibling, are left as they are.
WaitReap ==
  /\ kmode = "wait"
  /\ child # NULL
  /\ currState[child] = "ZOMBIE"
  /\ free_proc(child)
  /\ kmode' = "user"
  /\ child' = NULL
  /\ UNCHANGED <<current_process, queues, current_tick, node>>

\* No zombie: block in the sleep queue, with whatever wake_tick the last Delay
\* left.  When the process runs again KernelWait returns SUCCESS (0).
WaitBlock ==
  /\ kmode = "wait"
  /\ child = NULL
  /\ sleepQueue' = Enqueue(sleepQueue, current_process)
  /\ YieldCpu(readyQueue,
              [currState EXCEPT ![current_process] = "BLOCKED"],
              "wait")
  /\ UNCHANGED <<heap, wake_tick, family, current_tick, node, child>>
-----------------------------------------------------------------------------
\* KernelExit starts with the children.
KernelExit ==
  /\ InUserProgram
  /\ kmode' = "exit"
  /\ child' = first_child[current_process]
  /\ UNCHANGED <<heap, currState, wake_tick, family, cpu, queues, current_tick,
                 node>>

\* The child's parent pointer is turned to init.
Reparented_Forgotten == parent
Reparented == [parent EXCEPT ![child] = init_process]

\* The next child is read before the link to it is overwritten.
NextChild_ReadLate == first_child[init_process]
NextChild == next_sibling[child]

\* One child is moved to the front of init's list.
ExitAdopt ==
  /\ kmode = "exit"
  /\ child # NULL
  /\ parent' = Reparented
  /\ next_sibling' = [next_sibling EXCEPT ![child] = first_child[init_process]]
  /\ first_child' = [first_child EXCEPT ![init_process] = child]
  /\ child' = NextChild
  /\ UNCHANGED <<heap, currState, wake_tick, cpu, queues, current_tick, kmode,
                 node>>

\* The parent is woken if it is BLOCKED, in Wait or for any other reason.
WakesParent_InAnyState(up) == up # NULL /\ currState[up] # "READY"
WakesParent(up) == up # NULL /\ currState[up] = "BLOCKED"

\* Once the children are gone, the parent is woken, and the process becomes a
\* ZOMBIE and gives up the CPU for good.
ExitFinish ==
  /\ kmode = "exit"
  /\ child = NULL
  /\ first_child' = [first_child EXCEPT ![current_process] = NULL]
  /\ LET up    == parent[current_process]
         wakes == WakesParent(up)
         st    == IF wakes THEN [currState EXCEPT ![up] = "READY"] ELSE currState
     IN  /\ sleepQueue' = IF wakes THEN remove_data(sleepQueue, up) ELSE sleepQueue
         /\ YieldCpu(IF wakes THEN Enqueue(readyQueue, up) ELSE readyQueue,
                     [st EXCEPT ![current_process] = "ZOMBIE"],
                     "exit")
  /\ UNCHANGED <<heap, wake_tick, parent, next_sibling, current_tick, node, child>>
-----------------------------------------------------------------------------
ClockStep == WakeSleeper \/ ClockDispatch
WaitStep  == WaitSkip \/ WaitReap \/ WaitBlock
ExitStep  == ExitAdopt \/ ExitFinish
Syscall   == \/ KernelFork \/ KernelForkNoFrames \/ KernelDelay
             \/ KernelWait \/ KernelExit

Next == HandleClockTrap \/ ClockStep \/ WaitStep \/ ExitStep \/ Syscall

\* The CPU runs kernel code to its end, and a clock interrupt that is pending
\* is taken whenever the kernel has returned to the user program, however many
\* system calls the program makes.  Programs owe nothing.
Fairness ==
  /\ WF_vars(ClockStep \/ WaitStep \/ ExitStep)
  /\ SF_vars(HandleClockTrap)

Spec     == Init /\ [][Next]_vars
FairSpec == Spec /\ Fairness
=============================================================================
