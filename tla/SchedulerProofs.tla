-------------------------- MODULE SchedulerProofs --------------------------
(***************************************************************************)
(* Proofs about module Scheduler, for any number of PCBs, any tick width   *)
(* and any delays, and whether or not malloc reuses freed blocks.          *)
(***************************************************************************)
EXTENDS SchedulerProperties, QueueFacts, TLAPS

USE SchedulerAssumption
-----------------------------------------------------------------------------
(* The initial state.                                                      *)

\* What KernelStart leaves behind satisfies the inductive invariant.
LEMMA InitIInv == Init => IInv
<1> SUFFICES ASSUME Init PROVE IInv
  OBVIOUS
<1>1. readyQueue \in Seq(Pcb) /\ sleepQueue \in Seq(Pcb)
  BY DEF Init
<1>2. Members(readyQueue) = {init_process} /\ NoDuplicates(readyQueue)
  <2>1. readyQueue = <<init_process>> /\ Len(readyQueue) = 1 /\ readyQueue[1] = init_process
    BY DEF Init
  <2>2. /\ Members(readyQueue) = {readyQueue[i] : i \in 1..Len(readyQueue)}
        /\ NoDuplicates(readyQueue) <=>
             \A i, j \in 1..Len(readyQueue) : readyQueue[i] = readyQueue[j] => i = j
    BY <1>1, MembersDef
  <2>3. 1..Len(readyQueue) = {1}
    BY <2>1
  <2> QED
    BY <2>1, <2>2, <2>3
<1>3. Members(sleepQueue) = {} /\ NoDuplicates(sleepQueue)
  BY EmptyQueue DEF Init
<1>4. TypeOK
  BY <1>1 DEF Init, TypeOK, ProcessState, Resume
<1>5. Placement
  BY <1>2, <1>3 DEF Init, Placement, PlacedByState, Live
<1> QED
  BY <1>4, <1>5 DEF Init, IInv, NoWildJump, IdleReady, LoopState
-----------------------------------------------------------------------------
(* Switching context.                                                      *)

\* If the states st, in which nobody runs, agree with the sleep queue and with
\* a set of waiting processes, and one of them is given the CPU and the others
\* make up the ready queue, then states and queues agree afterwards.
LEMMA SwitchPlacement ==
  ASSUME NEW W \in SUBSET Live, NEW next \in W, NEW st \in [Pcb -> ProcessState],
         UNCHANGED heap,
         idle_process \in W,
         readyQueue' \in Seq(Pcb), NoDuplicates(readyQueue'),
         Members(readyQueue') = W \ {next},
         NoDuplicates(sleepQueue'), Members(sleepQueue') \subseteq Live,
         current_process' = next,
         currState' = [st EXCEPT ![next] = "RUNNING"],
         \A p \in Live : /\ p \in W <=> st[p] \in {"READY", "FREE"}
                         /\ p \in Members(sleepQueue') <=> st[p] = "BLOCKED"
                         /\ st[p] # "RUNNING",
         \A p \in Pcb \ Live : st[p] = "FREE"
  PROVE  Placement' /\ IdleReady'
<1>1. Live \subseteq Pcb /\ Live' = Live /\ next \in Pcb
  BY DEF Live
<1>2. currState'[next] = "RUNNING" /\ \A p \in Pcb \ {next} : currState'[p] = st[p]
  BY <1>1
<1>3. next \notin Members(sleepQueue')
  OBVIOUS
<1>4. \A p \in Live' \ {current_process'} : PlacedByState(p)'
  <2> TAKE p \in Live' \ {current_process'}
  <2>1. p \in Live /\ p # next /\ p \in Pcb
    BY <1>1
  <2>2. currState'[p] = st[p] /\ (p \in Members(readyQueue') <=> p \in W)
    BY <1>2, <2>1
  <2> QED
    BY <2>1, <2>2 DEF PlacedByState, Members
<1>5. /\ current_process' \in Live'
      /\ currState'[current_process'] = "RUNNING"
  BY <1>1, <1>2
<1>6. Members(readyQueue') \cup Members(sleepQueue') \subseteq Live' \ {current_process'}
  BY <1>1, <1>3
<1>7. \A p \in Pcb \ Live' : currState'[p] = "FREE"
  BY <1>1, <1>2
<1>8. Placement'
  BY <1>4, <1>5, <1>6, <1>7 DEF Placement, NoDuplicates, Members, Live
<1>9. IdleReady'
  BY DEF IdleReady, Members
<1> QED
  BY <1>8, <1>9

\* Enqueue of a PCB that is not in the queue.
LEMMA EnqueuePcb ==
  ASSUME NEW q \in Seq(Pcb), NoDuplicates(q), NEW d \in Pcb, d \notin Members(q)
  PROVE  /\ Enqueue(q, d) \in Seq(Pcb) /\ NoDuplicates(Enqueue(q, d))
         /\ Members(Enqueue(q, d)) = Members(q) \cup {d}
BY EnqueueFacts

\* The head of q has got the CPU, from a process that will resume in that call.
Yielded(q, st, resume) ==
  \E next \in Members(q) :
    /\ next \in Pcb /\ next = Head(q)
    /\ readyQueue' \in Seq(Pcb)
    /\ NoDuplicates(readyQueue')
    /\ Members(readyQueue') = Members(q) \ {next}
    /\ current_process' = next
    /\ kmode' = "user"
    /\ kctx' = [kctx EXCEPT ![current_process] = resume, ![next] = "none"]
    /\ currState' = [st EXCEPT ![next] = "RUNNING"]

\* A process that gives up the CPU in favour of a queue that holds idle hands
\* it to the head of that queue, never to a pointer nobody set.
LEMMA YieldFacts ==
  ASSUME IInv,
         NEW q \in Seq(Pcb), NoDuplicates(q), idle_process \in Members(q),
         current_process \notin Members(q),
         NEW st \in [Pcb -> ProcessState], NEW resume \in Resume,
         YieldCpu(q, st, resume)
  PROVE  Yielded(q, st, resume)
<1>1. ~isEmpty(q)
  BY MemberNotEmpty
<1>2. /\ Head(q) \in Pcb
      /\ Head(q) \in Members(q)
      /\ Dequeue(q) \in Seq(Pcb)
      /\ Members(Dequeue(q)) = Members(q) \ {Head(q)}
      /\ NoDuplicates(Dequeue(q))
  BY <1>1, DequeueFacts
<1>3. get_next_ready_process(q) = {Head(q)}
  BY <1>1 DEF get_next_ready_process
<1>4. readyQueue' = Dequeue(q) /\ KCSwitch(st, Head(q), resume)
  BY <1>2, <1>3 DEF YieldCpu
<1>5. Head(q) # current_process
  BY <1>2
<1> QED
  BY <1>2, <1>4, <1>5 DEF KCSwitch, SwitchContext, Yielded

\* If the queues agree with the states st in which the running process gives
\* up the CPU, the inductive invariant holds after it has.
LEMMA YieldIInv ==
  ASSUME IInv,
         NEW q \in Seq(Pcb), NoDuplicates(q), idle_process \in Members(q),
         NEW st \in [Pcb -> ProcessState], NEW resume \in Resume,
         YieldCpu(q, st, resume),
         UNCHANGED heap,
         sleepQueue' \in Seq(Pcb), NoDuplicates(sleepQueue'),
         Members(q) \cup Members(sleepQueue') \subseteq Live,
         st[current_process] \in {"BLOCKED", "ZOMBIE"},
         \A p \in Live : /\ p \in Members(q) <=> st[p] \in {"READY", "FREE"}
                         /\ p \in Members(sleepQueue') <=> st[p] = "BLOCKED"
                         /\ st[p] # "RUNNING",
         \A p \in Pcb \ Live : st[p] = "FREE",
         wake_tick' \in [Pcb -> 0..(TickMod - 1)],
         first_child' \in [Pcb -> Pcb \cup {NULL}],
         UNCHANGED <<parent, next_sibling, current_tick, node, child>>
  PROVE  IInv'
<1>1. current_process \in Live /\ current_process \notin Members(q)
  BY DEF IInv, Placement
<1>2. PICK next \in Members(q) :
        /\ next \in Pcb
        /\ readyQueue' \in Seq(Pcb)
        /\ NoDuplicates(readyQueue')
        /\ Members(readyQueue') = Members(q) \ {next}
        /\ current_process' = next
        /\ kmode' = "user"
        /\ kctx' = [kctx EXCEPT ![current_process] = resume, ![next] = "none"]
        /\ currState' = [st EXCEPT ![next] = "RUNNING"]
  <2>1. Yielded(q, st, resume)
    BY <1>1, YieldFacts
  <2> QED
    BY <2>1 DEF Yielded
<1>3. Placement' /\ IdleReady'
  BY <1>2, SwitchPlacement
<1>4. NoWildJump' /\ LoopState'
  BY <1>2 DEF NoWildJump, LoopState
<1>5. currState' \in [Pcb -> ProcessState] /\ kctx' \in [Pcb -> Resume]
  BY <1>2 DEF IInv, TypeOK, ProcessState, Resume
<1>6. TypeOK'
  BY <1>2, <1>5 DEF IInv, TypeOK
<1> QED
  BY <1>3, <1>4, <1>6 DEF IInv
-----------------------------------------------------------------------------
(* The calls and the loops: each keeps the inductive invariant.            *)

\* The tick, and the actions that only move a cursor or relink the family,
\* leave every process where it is.
LEMMA NothingMoves ==
  ASSUME IInv, TypeOK', LoopState', kmode' # "wild",
         UNCHANGED <<heap, currState, current_process, queues>>
  PROVE  IInv'
<1>1. Placement'
  BY DEF IInv, Placement, PlacedByState, Live, queues, Members, NoDuplicates
<1>2. IdleReady'
  BY DEF IInv, IdleReady, queues, Members
<1> QED
  BY <1>1, <1>2 DEF IInv, NoWildJump

LEMMA HandleClockTrapIInv == IInv /\ HandleClockTrap => IInv'
<1> SUFFICES ASSUME IInv, HandleClockTrap PROVE IInv'
  OBVIOUS
<1>1. TypeOK' /\ LoopState' /\ kmode' # "wild"
  <2>1. current_tick' \in 0..(TickMod - 1)
    BY DEF IInv, TypeOK, HandleClockTrap
  <2> QED
    BY <2>1 DEF IInv, TypeOK, LoopState, HandleClockTrap, family, cpu, queues
<1> QED
  BY <1>1, NothingMoves DEF HandleClockTrap, cpu, queues

LEMMA KernelWaitIInv == IInv /\ KernelWait => IInv'
<1> SUFFICES ASSUME IInv, KernelWait PROVE IInv'
  OBVIOUS
<1>1. TypeOK' /\ LoopState' /\ kmode' # "wild"
  BY DEF IInv, TypeOK, Placement, Live, LoopState, KernelWait, InUserProgram, family, cpu,
         queues
<1> QED
  BY <1>1, NothingMoves DEF KernelWait, cpu, queues

LEMMA WaitSkipIInv == IInv /\ WaitSkip => IInv'
<1> SUFFICES ASSUME IInv, WaitSkip PROVE IInv'
  OBVIOUS
<1>1. TypeOK' /\ LoopState' /\ kmode' # "wild"
  BY DEF IInv, TypeOK, LoopState, WaitSkip, family, cpu, queues
<1> QED
  BY <1>1, NothingMoves DEF WaitSkip, cpu, queues

LEMMA KernelExitIInv == IInv /\ KernelExit => IInv'
<1> SUFFICES ASSUME IInv, KernelExit PROVE IInv'
  OBVIOUS
<1>1. TypeOK' /\ LoopState' /\ kmode' # "wild"
  BY DEF IInv, TypeOK, Placement, Live, LoopState, KernelExit, InUserProgram, family, cpu,
         queues
<1> QED
  BY <1>1, NothingMoves DEF KernelExit, cpu, queues

LEMMA ExitAdoptIInv == IInv /\ ExitAdopt => IInv'
<1> SUFFICES ASSUME IInv, ExitAdopt PROVE IInv'
  OBVIOUS
<1>1. TypeOK' /\ LoopState' /\ kmode' # "wild"
  BY DEF IInv, TypeOK, LoopState, ExitAdopt, Reparented, NextChild, cpu, queues
<1> QED
  BY <1>1, NothingMoves DEF ExitAdopt, cpu, queues

\* A sleeper that is due goes from the one queue to the other.
LEMMA WakeSleeperIInv == IInv /\ WakeSleeper => IInv'
<1> SUFFICES ASSUME IInv, WakeSleeper PROVE IInv'
  OBVIOUS
<1> DEFINE p == sleepQueue[node]
<1>1. /\ node \in 1..Len(sleepQueue)
      /\ sleepQueue \in Seq(Pcb) /\ readyQueue \in Seq(Pcb)
  BY LenProperties DEF IInv, TypeOK, LoopState, WakeSleeper
<1>2. p \in Pcb /\ p \in Members(sleepQueue)
  BY <1>1, ElementOfSeq, MembersDef
<1>3. node' \in Nat \ {0} /\ kmode' = "wake"
  BY <1>1 DEF WakeSleeper, PositionAfter, Due, LoopState, TypeOK, IInv
<1> HIDE DEF p
<1>4. CASE ~Due(p)
  <2>1. UNCHANGED <<currState, queues>>
    BY <1>4 DEF WakeSleeper, p
  <2>2. TypeOK' /\ LoopState' /\ kmode' # "wild"
    BY <1>3, <2>1 DEF IInv, TypeOK, LoopState, WakeSleeper, family, cpu, queues
  <2> QED
    BY <2>1, <2>2, NothingMoves DEF WakeSleeper, cpu, queues
<1>5. CASE Due(p)
  <2>1. /\ sleepQueue' = UnlinkAt(sleepQueue, node)
        /\ currState' = [currState EXCEPT ![p] = "READY"]
        /\ readyQueue' = Enqueue(readyQueue, p)
    BY <1>5 DEF WakeSleeper, p
  <2>2. p \in Live /\ p # current_process /\ p \notin Members(readyQueue)
    BY <1>2 DEF IInv, Placement, PlacedByState
  <2>3. /\ sleepQueue' \in Seq(Pcb) /\ NoDuplicates(sleepQueue')
        /\ Members(sleepQueue') = Members(sleepQueue) \ {p}
    BY <1>1, <2>1, UnlinkAtFacts DEF IInv, Placement, p
  <2>4. /\ readyQueue' \in Seq(Pcb) /\ NoDuplicates(readyQueue')
        /\ Members(readyQueue') = Members(readyQueue) \cup {p}
    <3>1. readyQueue \in Seq(Pcb) /\ NoDuplicates(readyQueue)
      BY <1>1 DEF IInv, Placement
    <3> QED
      BY <1>2, <2>1, <2>2, <3>1, EnqueuePcb
  <2>5. TypeOK' /\ LoopState'
    <3>1. currState' \in [Pcb -> ProcessState]
      BY <2>1 DEF IInv, TypeOK, ProcessState
    <3>2. UNCHANGED <<heap, wake_tick, family, cpu, current_tick, child>>
      BY DEF WakeSleeper
    <3>3. LoopState'
      BY <1>3 DEF LoopState
    <3> QED
      BY <1>3, <2>3, <2>4, <3>1, <3>2, <3>3 DEF IInv, TypeOK, family, cpu
  <2>6. UNCHANGED <<heap, current_process>>
    BY DEF WakeSleeper, cpu
  <2>7. \A r \in Live' \ {current_process'} : PlacedByState(r)'
    <3> TAKE r \in Live' \ {current_process'}
    <3>1. r \in Live \ {current_process} /\ r \in Pcb /\ PlacedByState(r)
      BY <2>6 DEF IInv, Placement, Live
    <3>2. r # p => currState'[r] = currState[r]
      BY <2>1
    <3>3. currState'[p] = "READY"
      BY <1>2, <2>1 DEF IInv, TypeOK
    <3> QED
      BY <2>3, <2>4, <3>1, <3>2, <3>3 DEF PlacedByState, Members
  <2>8. Placement'
    <3>1. \A r \in Pcb \ Live' : currState'[r] = "FREE"
      BY <2>1, <2>2, <2>6 DEF IInv, Placement, Live
    <3>2. /\ current_process' \in Live'
          /\ currState'[current_process'] = currState[current_process]
          /\ currState'[idle_process] = currState[idle_process] \/ current_process' # idle_process
      BY <2>1, <2>2, <2>6 DEF IInv, Placement, Live
    <3>3. Members(readyQueue') \cup Members(sleepQueue') \subseteq Live' \ {current_process'}
      BY <2>2, <2>3, <2>4, <2>6 DEF IInv, Placement, Live
    <3> QED
      BY <2>3, <2>4, <2>6, <2>7, <3>1, <3>2, <3>3
         DEF IInv, Placement, Live, Members, NoDuplicates
  <2>9. IdleReady'
    BY <2>4, <2>6 DEF IInv, IdleReady, Members
  <2> QED
    BY <1>3, <2>5, <2>8, <2>9 DEF IInv, NoWildJump
<1> QED
  BY <1>4, <1>5

\* The dispatch never meets an empty queue without idle being RUNNING, and the
\* process it preempts goes back to the queue.
LEMMA ClockDispatchIInv == IInv /\ ClockDispatch => IInv'
<1> SUFFICES ASSUME IInv, ClockDispatch PROVE IInv'
  OBVIOUS
<1> DEFINE old == current_process
           rq == ReadyAtDispatch
           preempted == currState[old] = "RUNNING"
           W == Members(readyQueue) \cup {old}
           st == IF preempted THEN [currState EXCEPT ![old] = "READY"] ELSE currState
<1>1. /\ old \in Live /\ old \in Pcb /\ idle_process \in Pcb
      /\ readyQueue \in Seq(Pcb) /\ NoDuplicates(readyQueue)
      /\ old \notin Members(readyQueue)
      /\ Members(readyQueue) \subseteq Live /\ Live \subseteq Pcb
  BY DEF IInv, TypeOK, Placement, Live
<1>2. ~preempted => old = idle_process /\ currState[old] = "READY"
  BY DEF IInv, Placement
<1>3. rq = IF preempted THEN readyQueue ELSE Enqueue(readyQueue, old)
  BY <1>2 DEF ReadyAtDispatch
<1>4. /\ rq \in Seq(Pcb) /\ NoDuplicates(rq)
      /\ Members(rq) = IF preempted THEN Members(readyQueue) ELSE W
  BY <1>1, <1>3, EnqueueFacts
<1>5. UNCHANGED <<heap, wake_tick, parent, first_child, next_sibling, sleepQueue,
                  current_tick, child>> /\ node' = 0
  BY DEF ClockDispatch, family
<1>6. CASE isEmpty(rq) /\ preempted
  <2>1. UNCHANGED <<currState, readyQueue, cpu>> /\ kmode' = "user"
    BY <1>6 DEF ClockDispatch
  <2>2. TypeOK' /\ LoopState'
    BY <1>5, <2>1 DEF IInv, TypeOK, LoopState, cpu
  <2> QED
    BY <1>5, <2>1, <2>2, NothingMoves DEF cpu, queues
<1>7. CASE ~(isEmpty(rq) /\ preempted)
  <2>1. ~isEmpty(rq)
    <3>1. ~preempted => old \in Members(rq)
      BY <1>4
    <3> QED
      BY <1>7, <3>1, MemberNotEmpty
  <2> DEFINE next == Head(rq)
             rest == Dequeue(rq)
  <2>2. /\ next \in Pcb /\ next \in Members(rq)
        /\ rest \in Seq(Pcb) /\ NoDuplicates(rest)
        /\ Members(rest) = Members(rq) \ {next}
    BY <1>4, <2>1, DequeueFacts
  <2>3. get_next_ready_process(rq) = {next}
    BY <2>1 DEF get_next_ready_process
  <2>4. /\ readyQueue' = IF preempted THEN Enqueue(rest, old) ELSE rest
        /\ KCSwitch(st, next, "clock")
    BY <1>7, <2>3 DEF ClockDispatch
  <2> HIDE DEF rq, next, rest
  <2>5. /\ current_process' = next
        /\ kmode' = "user"
        /\ currState' = [st EXCEPT ![next] = "RUNNING"]
        /\ kctx' \in [Pcb -> Resume]
    BY <1>1, <2>2, <2>4 DEF KCSwitch, SwitchContext, IInv, TypeOK, Resume
  <2>6. /\ readyQueue' \in Seq(Pcb) /\ NoDuplicates(readyQueue')
        /\ Members(readyQueue') = W \ {next}
    <3>1. CASE preempted
      <4>1. old \notin Members(rest) /\ old # next
        BY <1>1, <1>4, <2>2, <3>1
      <4>2. /\ Enqueue(rest, old) \in Seq(Pcb) /\ NoDuplicates(Enqueue(rest, old))
            /\ Members(Enqueue(rest, old)) = Members(rest) \cup {old}
        BY <1>1, <2>2, <4>1, EnqueuePcb
      <4>3. readyQueue' = Enqueue(rest, old) /\ Members(rest) = Members(readyQueue) \ {next}
        BY <1>4, <2>2, <2>4, <3>1
      <4> QED
        BY <4>1, <4>2, <4>3
    <3>2. CASE ~preempted
      BY <1>4, <2>2, <2>4, <3>2
    <3> QED
      BY <3>1, <3>2
  <2>7. st \in [Pcb -> ProcessState] /\ st[old] = "READY"
        /\ \A p \in Pcb \ {old} : st[p] = currState[p]
    BY <1>1, <1>2 DEF IInv, TypeOK, ProcessState
  <2>8. W \in SUBSET Live /\ next \in W /\ idle_process \in W
    BY <1>1, <1>4, <2>2 DEF IInv, IdleReady
  <2>9. \A p \in Live : /\ p \in W <=> st[p] \in {"READY", "FREE"}
                        /\ p \in Members(sleepQueue) <=> st[p] = "BLOCKED"
                        /\ st[p] # "RUNNING"
    <3> TAKE p \in Live
    <3>1. CASE p = old
      BY <2>7, <3>1 DEF IInv, Placement
    <3>2. CASE p # old
      BY <1>1, <2>7, <3>2 DEF IInv, Placement, PlacedByState
    <3> QED
      BY <3>1, <3>2
  <2>10. \A p \in Pcb \ Live : st[p] = "FREE"
    BY <1>1, <2>7 DEF IInv, Placement
  <2>11. NoDuplicates(sleepQueue) /\ Members(sleepQueue) \subseteq Live
    BY DEF IInv, Placement
  <2> HIDE DEF W, st
  <2>12. Placement' /\ IdleReady'
    BY <1>5, <2>5, <2>6, <2>7, <2>8, <2>9, <2>10, <2>11, SwitchPlacement
  <2>13. TypeOK'
    <3>1. currState' \in [Pcb -> ProcessState]
      BY <2>2, <2>5, <2>7 DEF ProcessState
    <3> QED
      BY <1>5, <2>2, <2>5, <2>6, <3>1 DEF IInv, TypeOK
  <2> QED
    BY <1>5, <2>5, <2>12, <2>13 DEF IInv, NoWildJump, LoopState
<1> QED
  BY <1>6, <1>7

\* The child is in no queue before Fork puts it in the ready queue.
LEMMA KernelForkIInv == IInv /\ KernelFork => IInv'
<1> SUFFICES ASSUME IInv, KernelFork PROVE IInv'
  OBVIOUS
<1>1. PICK new \in Allocatable :
        /\ heap' = [heap EXCEPT ![new] = "live"]
        /\ currState' = [currState EXCEPT ![new] = "FREE"]
        /\ wake_tick' = [wake_tick EXCEPT ![new] = 0]
        /\ parent' = [parent EXCEPT ![new] = current_process]
        /\ next_sibling' = [next_sibling EXCEPT ![new] = first_child[current_process]]
        /\ first_child' = [first_child EXCEPT ![current_process] = new, ![new] = NULL]
        /\ kctx' = [kctx EXCEPT ![new] = "fork"]
        /\ readyQueue' = Enqueue(readyQueue, new)
  BY DEF KernelFork, spawn_proc, KCCopy
<1>2. /\ UNCHANGED <<current_process, sleepQueue, current_tick, kmode, node, child>>
      /\ kmode = "user" /\ current_process # idle_process
  BY DEF KernelFork, InUserProgram, loop
<1>3. /\ new \in Pcb \ Live /\ current_process \in Live /\ new # current_process
      /\ Live \subseteq Pcb /\ new \notin Members(readyQueue) \cup Members(sleepQueue)
  BY DEF Allocatable, Live, IInv, Placement
<1>4. Live' = Live \cup {new}
  BY <1>1, <1>3 DEF Live, IInv, TypeOK
<1>5. /\ readyQueue' \in Seq(Pcb) /\ NoDuplicates(readyQueue')
      /\ Members(readyQueue') = Members(readyQueue) \cup {new}
  <2>1. /\ readyQueue \in Seq(Pcb) /\ NoDuplicates(readyQueue)
        /\ new \in Pcb /\ new \notin Members(readyQueue)
    BY <1>3 DEF IInv, TypeOK, Placement
  <2> QED
    <3>1. /\ Enqueue(readyQueue, new) \in Seq(Pcb)
          /\ NoDuplicates(Enqueue(readyQueue, new))
          /\ Members(Enqueue(readyQueue, new)) = Members(readyQueue) \cup {new}
      BY <2>1, EnqueueFacts
    <3>2. readyQueue' = Enqueue(readyQueue, new)
      BY <1>1
    <3> QED
      BY <3>1, <3>2
<1>6. TypeOK'
  <2>1. current_process \in Pcb /\ new \in Pcb /\ 0 \in 0..(TickMod - 1)
    BY <1>3
  <2> QED
    BY <1>1, <1>2, <1>5, <2>1 DEF IInv, TypeOK, ProcessState, Resume
<1>7. currState'[new] = "FREE" /\ \A p \in Pcb \ {new} : currState'[p] = currState[p]
  BY <1>1, <1>3 DEF IInv, TypeOK
<1>8. \A p \in Live' \ {current_process'} : PlacedByState(p)'
  <2> TAKE p \in Live' \ {current_process'}
  <2>1. CASE p = new
    BY <1>2, <1>3, <1>5, <1>7, <2>1 DEF PlacedByState, Members
  <2>2. CASE p # new
    <3>1. p \in Live \ {current_process} /\ p \in Pcb /\ PlacedByState(p)
      BY <1>2, <1>3, <1>4, <2>2 DEF IInv, Placement
    <3> QED
      BY <1>2, <1>5, <1>7, <2>2, <3>1 DEF PlacedByState, Members
  <2> QED
    BY <2>1, <2>2
<1>9. Placement'
  <2>1. /\ current_process' \in Live'
        /\ currState'[current_process'] = currState[current_process]
    BY <1>2, <1>3, <1>4, <1>7
  <2>2. Members(readyQueue') \cup Members(sleepQueue') \subseteq Live' \ {current_process'}
    BY <1>2, <1>3, <1>4, <1>5 DEF IInv, Placement
  <2>3. \A p \in Pcb \ Live' : currState'[p] = "FREE"
    BY <1>4, <1>7 DEF IInv, Placement
  <2> QED
    BY <1>2, <1>5, <1>8, <2>1, <2>2, <2>3
       DEF IInv, Placement, Live, Members, NoDuplicates
<1> QED
  BY <1>2, <1>5, <1>6, <1>9 DEF IInv, NoWildJump, IdleReady, LoopState, Members

\* Freeing a PCB that neither runs nor is queued disturbs nobody.
LEMMA FreePcbIInv ==
  ASSUME IInv, NEW p \in Pcb, free_proc(p), p # current_process,
         p \notin Members(readyQueue) \cup Members(sleepQueue),
         UNCHANGED <<current_process, queues, current_tick, node>>,
         kmode' = "user", child' \in Pcb \cup {NULL}
  PROVE  IInv'
<1>1. Live' = Live \ {p}
  BY DEF free_proc, Live, IInv, TypeOK
<1>2. currState'[p] = "FREE" /\ \A r \in Pcb \ {p} : currState'[r] = currState[r]
  BY DEF free_proc, IInv, TypeOK
<1>3. TypeOK'
  BY DEF free_proc, IInv, TypeOK, ProcessState, Resume, queues
<1>4. \A r \in Live' \ {current_process'} : PlacedByState(r)'
  <2> TAKE r \in Live' \ {current_process'}
  <2>1. r \in Live \ {current_process} /\ r # p /\ r \in Pcb /\ PlacedByState(r)
    BY <1>1 DEF IInv, Placement, Live
  <2> QED
    BY <1>2, <2>1 DEF PlacedByState, Members, queues
<1>5. Placement'
  <2>1. /\ current_process' \in Live'
        /\ currState'[current_process'] = currState[current_process]
        /\ Members(readyQueue) \cup Members(sleepQueue) \subseteq Live' \ {current_process}
        /\ \A r \in Pcb \ Live' : currState'[r] = "FREE"
    BY <1>1, <1>2 DEF IInv, Placement, Live
  <2>2. current_process = idle_process => currState'[idle_process] = currState[idle_process]
    BY <1>2 DEF IInv, Placement, Live
  <2> QED
    BY <1>4, <2>1, <2>2 DEF IInv, Placement, Live, Members, NoDuplicates, queues
<1> QED
  BY <1>3, <1>5 DEF IInv, NoWildJump, IdleReady, LoopState, Members, queues

LEMMA KernelForkNoFramesIInv == IInv /\ KernelForkNoFrames => IInv'
<1> SUFFICES ASSUME IInv, KernelForkNoFrames PROVE IInv'
  OBVIOUS
<1>1. PICK new \in Allocatable : free_proc(new)
  BY DEF KernelForkNoFrames
<1>2. /\ new \in Pcb \ Live /\ new # current_process
      /\ new \notin Members(readyQueue) \cup Members(sleepQueue)
  BY DEF Allocatable, Live, IInv, Placement
<1> QED
  BY <1>1, <1>2, FreePcbIInv
     DEF KernelForkNoFrames, InUserProgram, loop, IInv, TypeOK

LEMMA WaitReapIInv == IInv /\ WaitReap => IInv'
<1> SUFFICES ASSUME IInv, WaitReap PROVE IInv'
  OBVIOUS
<1>1. child \in Pcb /\ currState[child] = "ZOMBIE" /\ free_proc(child)
  BY DEF WaitReap, IInv, TypeOK
<1>2. child \in Live \ {current_process}
  BY <1>1 DEF IInv, Placement
<1>3. child \notin Members(readyQueue) \cup Members(sleepQueue)
  BY <1>1, <1>2 DEF IInv, Placement, PlacedByState
<1>4. /\ UNCHANGED <<current_process, queues, current_tick, node>>
      /\ kmode' = "user" /\ child' \in Pcb \cup {NULL} /\ child # current_process
  BY <1>2 DEF WaitReap
<1> QED
  BY <1>1, <1>3, <1>4, FreePcbIInv

\* Delay and Wait put the caller to sleep in the same way.
LEMMA FallAsleep ==
  ASSUME IInv, current_process # idle_process, NEW resume \in Resume,
         currState[current_process] = "RUNNING",
         sleepQueue' = Enqueue(sleepQueue, current_process),
         YieldCpu(readyQueue, [currState EXCEPT ![current_process] = "BLOCKED"], resume),
         wake_tick' \in [Pcb -> 0..(TickMod - 1)],
         UNCHANGED <<heap, family, current_tick, node, child>>
  PROVE  IInv'
<1> DEFINE st == [currState EXCEPT ![current_process] = "BLOCKED"]
<1>1. /\ current_process \in Live /\ current_process \in Pcb /\ Live \subseteq Pcb
      /\ current_process \notin Members(readyQueue) \cup Members(sleepQueue)
  BY DEF IInv, Placement, Live
<1>2. /\ sleepQueue' \in Seq(Pcb) /\ NoDuplicates(sleepQueue')
      /\ Members(sleepQueue') = Members(sleepQueue) \cup {current_process}
  <2>1. /\ sleepQueue \in Seq(Pcb) /\ NoDuplicates(sleepQueue)
        /\ current_process \in Pcb /\ current_process \notin Members(sleepQueue)
    BY <1>1 DEF IInv, TypeOK, Placement
  <2> QED
    BY <2>1, EnqueuePcb
<1>3. /\ st \in [Pcb -> ProcessState] /\ st[current_process] = "BLOCKED"
      /\ \A p \in Pcb \ {current_process} : st[p] = currState[p]
  BY <1>1 DEF IInv, TypeOK, ProcessState
<1>4. \A p \in Live : /\ p \in Members(readyQueue) <=> st[p] \in {"READY", "FREE"}
                      /\ p \in Members(sleepQueue') <=> st[p] = "BLOCKED"
                      /\ st[p] # "RUNNING"
  <2> TAKE p \in Live
  <2>1. CASE p = current_process
    BY <1>1, <1>2, <1>3, <2>1
  <2>2. CASE p # current_process
    BY <1>1, <1>2, <1>3, <2>2 DEF IInv, Placement, PlacedByState
  <2> QED
    BY <2>1, <2>2
<1>5. \A p \in Pcb \ Live : st[p] = "FREE"
  BY <1>1, <1>3 DEF IInv, Placement
<1>6. /\ readyQueue \in Seq(Pcb) /\ NoDuplicates(readyQueue)
      /\ idle_process \in Members(readyQueue)
      /\ Members(readyQueue) \cup Members(sleepQueue') \subseteq Live
  BY <1>1, <1>2 DEF IInv, TypeOK, Placement, IdleReady
<1>7. first_child' \in [Pcb -> Pcb \cup {NULL}] /\ UNCHANGED <<parent, next_sibling>>
  BY DEF IInv, TypeOK, family
<1>8. YieldCpu(readyQueue, st, resume)
  OBVIOUS
<1> HIDE DEF st
<1> QED
  BY <1>2, <1>3, <1>4, <1>5, <1>6, <1>7, <1>8, YieldIInv

LEMMA KernelDelayIInv == IInv /\ KernelDelay => IInv'
<1> SUFFICES ASSUME IInv, KernelDelay PROVE IInv'
  OBVIOUS
<1>1. PICK clock_ticks \in Delays :
        wake_tick' = [wake_tick EXCEPT ![current_process] = WakeTime(clock_ticks)]
  BY DEF KernelDelay
<1>2. WakeTime(clock_ticks) \in 0..(TickMod - 1)
  <2>1. current_tick + clock_ticks \in Nat /\ TickMod \in Nat \ {0}
    BY DEF IInv, TypeOK
  <2> QED
    BY <2>1 DEF WakeTime
<1>3. wake_tick' \in [Pcb -> 0..(TickMod - 1)]
  BY <1>1, <1>2 DEF IInv, TypeOK
<1>4. current_process # idle_process /\ currState[current_process] = "RUNNING"
  BY DEF KernelDelay, InUserProgram, IInv, Placement
<1>5. "delay" \in Resume
  BY DEF Resume
<1> QED
  BY <1>3, <1>4, <1>5, FallAsleep DEF KernelDelay

LEMMA WaitBlockIInv == IInv /\ WaitBlock => IInv'
<1> SUFFICES ASSUME IInv, WaitBlock PROVE IInv'
  OBVIOUS
<1>1. current_process # idle_process /\ currState[current_process] = "RUNNING"
  BY DEF WaitBlock, LoopState, IInv, Placement
<1>2. "wait" \in Resume /\ wake_tick' \in [Pcb -> 0..(TickMod - 1)]
  BY DEF Resume, WaitBlock, IInv, TypeOK
<1> QED
  BY <1>1, <1>2, FallAsleep DEF WaitBlock

\* A parent that Exit wakes leaves the sleep queue, and the zombie is in none.
LEMMA ExitFinishIInv == IInv /\ ExitFinish => IInv'
<1> SUFFICES ASSUME IInv, ExitFinish PROVE IInv'
  OBVIOUS
<1> DEFINE me == current_process
           up == parent[me]
           wakes == WakesParent(up)
           st0 == IF wakes THEN [currState EXCEPT ![up] = "READY"] ELSE currState
           st == [st0 EXCEPT ![me] = "ZOMBIE"]
           q == IF wakes THEN Enqueue(readyQueue, up) ELSE readyQueue
<1>1. /\ me \in Live /\ me \in Pcb /\ Live \subseteq Pcb
      /\ me # idle_process /\ currState[me] = "RUNNING"
      /\ me \notin Members(readyQueue) \cup Members(sleepQueue)
  BY DEF ExitFinish, IInv, Placement, Live, LoopState
<1>2. wakes => /\ up \in Live /\ up # me /\ currState[up] = "BLOCKED"
               /\ up \in Members(sleepQueue) /\ up \notin Members(readyQueue)
  <2> SUFFICES ASSUME wakes
               PROVE  /\ up \in Live /\ up # me /\ currState[up] = "BLOCKED"
                      /\ up \in Members(sleepQueue) /\ up \notin Members(readyQueue)
    OBVIOUS
  <2>1. up \in Pcb /\ currState[up] = "BLOCKED"
    BY <1>1 DEF WakesParent, IInv, TypeOK
  <2>2. up \in Live \ {me}
    BY <1>1, <2>1 DEF IInv, Placement
  <2> QED
    BY <2>1, <2>2 DEF IInv, Placement, PlacedByState
<1>3. /\ sleepQueue' = IF wakes THEN remove_data(sleepQueue, up) ELSE sleepQueue
      /\ YieldCpu(q, st, "exit")
      /\ first_child' = [first_child EXCEPT ![me] = NULL]
      /\ UNCHANGED <<heap, wake_tick, parent, next_sibling, current_tick, node, child>>
  BY DEF ExitFinish
<1>4. /\ sleepQueue' \in Seq(Pcb) /\ NoDuplicates(sleepQueue')
      /\ Members(sleepQueue') = IF wakes THEN Members(sleepQueue) \ {up} ELSE Members(sleepQueue)
  <2>1. sleepQueue \in Seq(Pcb) /\ NoDuplicates(sleepQueue)
    BY DEF IInv, TypeOK, Placement
  <2>2. /\ remove_data(sleepQueue, up) \in Seq(Pcb)
        /\ NoDuplicates(remove_data(sleepQueue, up))
        /\ Members(remove_data(sleepQueue, up)) = Members(sleepQueue) \ {up}
    BY <2>1, RemoveDataFacts
  <2> HIDE DEF wakes, up
  <2> QED
    BY <1>3, <2>1, <2>2
<1>5. /\ q \in Seq(Pcb) /\ NoDuplicates(q)
      /\ Members(q) = IF wakes THEN Members(readyQueue) \cup {up} ELSE Members(readyQueue)
  <2>1. readyQueue \in Seq(Pcb) /\ NoDuplicates(readyQueue)
    BY DEF IInv, TypeOK, Placement
  <2>2. CASE wakes
    <3>1. /\ Enqueue(readyQueue, up) \in Seq(Pcb)
          /\ NoDuplicates(Enqueue(readyQueue, up))
          /\ Members(Enqueue(readyQueue, up)) = Members(readyQueue) \cup {up}
      <4>1. up \in Pcb /\ up \notin Members(readyQueue)
        BY <1>1, <1>2, <2>2
      <4> HIDE DEF up
      <4> QED
        BY <2>1, <4>1, EnqueueFacts
    <3> QED
      BY <2>2, <3>1
  <2>3. CASE ~wakes
    BY <2>1, <2>3
  <2> QED
    BY <2>2, <2>3
<1>6. /\ st \in [Pcb -> ProcessState] /\ st[me] = "ZOMBIE"
      /\ \A p \in Pcb \ {me} : st[p] = IF wakes /\ p = up THEN "READY" ELSE currState[p]
  BY <1>1, <1>2 DEF IInv, TypeOK, ProcessState
<1> HIDE DEF q, st, st0, wakes, up
<1>7. \A p \in Live : /\ p \in Members(q) <=> st[p] \in {"READY", "FREE"}
                      /\ p \in Members(sleepQueue') <=> st[p] = "BLOCKED"
                      /\ st[p] # "RUNNING"
  <2> TAKE p \in Live
  <2>1. CASE p = me
    BY <1>1, <1>2, <1>4, <1>5, <1>6, <2>1
  <2>2. CASE p # me /\ wakes /\ p = up
    BY <1>1, <1>2, <1>4, <1>5, <1>6, <2>2
  <2>3. CASE p # me /\ ~(wakes /\ p = up)
    <3>1. PlacedByState(p) /\ st[p] = currState[p]
      BY <1>1, <1>6, <2>3 DEF IInv, Placement
    <3> QED
      BY <1>4, <1>5, <2>3, <3>1 DEF PlacedByState
  <2> QED
    BY <2>1, <2>2, <2>3
<1>8. \A p \in Pcb \ Live : st[p] = "FREE"
  BY <1>1, <1>2, <1>6 DEF IInv, Placement
<1>9. /\ idle_process \in Members(q)
      /\ Members(q) \cup Members(sleepQueue') \subseteq Live
  BY <1>1, <1>2, <1>4, <1>5 DEF IInv, Placement, IdleReady
<1>10. /\ wake_tick' \in [Pcb -> 0..(TickMod - 1)]
       /\ first_child' \in [Pcb -> Pcb \cup {NULL}]
       /\ "exit" \in Resume
  BY <1>3 DEF IInv, TypeOK, Resume
<1> QED
  BY <1>3, <1>4, <1>5, <1>6, <1>7, <1>8, <1>9, <1>10, YieldIInv
-----------------------------------------------------------------------------
(* The theorems.                                                           *)

LEMMA NextIInv == IInv /\ [Next]_vars => IInv'
<1> SUFFICES ASSUME IInv, [Next]_vars PROVE IInv'
  OBVIOUS
<1>1. CASE UNCHANGED vars
  <2>1. TypeOK' /\ LoopState' /\ kmode' # "wild"
    BY <1>1 DEF IInv, TypeOK, LoopState, NoWildJump, vars, family, cpu, queues, loop
  <2> QED
    BY <1>1, <2>1, NothingMoves DEF vars, cpu, queues
<1>2. CASE Next
  BY <1>2, HandleClockTrapIInv, WakeSleeperIInv, ClockDispatchIInv, KernelForkIInv,
     KernelForkNoFramesIInv, KernelDelayIInv, KernelWaitIInv, WaitSkipIInv,
     WaitReapIInv, WaitBlockIInv, KernelExitIInv, ExitAdoptIInv, ExitFinishIInv
     DEF Next, ClockStep, WaitStep, ExitStep, Syscall
<1> QED
  BY <1>1, <1>2

\* The inductive invariant holds throughout: queues, states and the idle
\* process agree in every reachable state of the kernel.
THEOREM Invariance == Spec => []IInv
<1>1. QED
  BY InitIInv, NextIInv, PTL DEF Spec

\* Every table and pointer keeps its type, and the ticks their width.
THEOREM TypeCorrect == Spec => []TypeOK
<1>1. IInv => TypeOK
  BY DEF IInv
<1> QED
  BY <1>1, Invariance, PTL

\* No handler loses a process, queues it twice or leaves it in a queue its
\* state does not name.
THEOREM PlacementInvariant == Spec => []Placement
<1>1. IInv => Placement
  BY DEF IInv
<1> QED
  BY <1>1, Invariance, PTL

\* The missing return of get_next_ready_process is never reached.
THEOREM NoWildJumpEver == Spec => []NoWildJump
<1>1. IInv => NoWildJump
  BY DEF IInv
<1> QED
  BY <1>1, Invariance, PTL
=============================================================================
