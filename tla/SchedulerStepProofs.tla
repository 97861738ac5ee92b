------------------------ MODULE SchedulerStepProofs ------------------------
(***************************************************************************)
(* More about module Scheduler, on top of the inductive invariant of       *)
(* SchedulerProofs: whom a step may wake, bury or resume, who runs next,   *)
(* the life cycle that the kernel implements, and the family tree.         *)
(***************************************************************************)
EXTENDS SchedulerProofs

USE SchedulerAssumption
-----------------------------------------------------------------------------
(* What the handlers that switch context do to states and saved contexts.  *)

\* The clock handler goes on with the running process, or with one from the
\* ready queue, and resumes whom it preempts in the clock handler.
LEMMA ClockDispatchFacts ==
  ASSUME IInv, ClockDispatch
  PROVE  /\ UNCHANGED heap
         /\ \/ UNCHANGED <<currState, kctx, current_process>>
            \/ \E next \in Members(readyQueue) \cup {current_process} :
                 /\ next \in Pcb
                 /\ current_process' = next
                 /\ currState'[next] = "RUNNING"
                 /\ \A p \in Pcb \ {next} :
                      /\ p # current_process =>
                           currState'[p] = currState[p] /\ kctx'[p] = kctx[p]
                      /\ p = current_process =>
                           currState'[p] = "READY" /\ kctx'[p] = "clock"
<1> DEFINE old == current_process
           rq == ReadyAtDispatch
           preempted == currState[old] = "RUNNING"
           st == IF preempted THEN [currState EXCEPT ![old] = "READY"] ELSE currState
<1>1. /\ old \in Pcb /\ readyQueue \in Seq(Pcb)
      /\ currState \in [Pcb -> ProcessState] /\ kctx \in [Pcb -> Resume]
      /\ ~preempted => old = idle_process /\ currState[old] = "READY"
  BY DEF IInv, TypeOK, Placement, Live
<1>2. rq = IF preempted THEN readyQueue ELSE Enqueue(readyQueue, old)
  BY <1>1 DEF ReadyAtDispatch
<1>3. /\ rq \in Seq(Pcb)
      /\ Members(rq) \subseteq Members(readyQueue) \cup {old}
      /\ ~preempted => old \in Members(rq)
  <2> HIDE DEF preempted, rq
  <2>1. CASE preempted
    BY <1>1, <1>2, <2>1
  <2>2. CASE ~preempted
    <3>1. /\ Enqueue(readyQueue, old) \in Seq(Pcb)
          /\ Members(Enqueue(readyQueue, old)) = Members(readyQueue) \cup {old}
      BY <1>1, EnqueueFacts
    <3> QED
      BY <1>2, <2>2, <3>1
  <2> QED
    BY <2>1, <2>2
<1>4. UNCHANGED heap
  BY DEF ClockDispatch
<1>5. CASE isEmpty(rq) /\ preempted
  BY <1>4, <1>5 DEF ClockDispatch, cpu
<1>6. CASE ~(isEmpty(rq) /\ preempted)
  <2>1. ~isEmpty(rq)
    BY <1>3, <1>6, MemberNotEmpty
  <2> DEFINE next == Head(rq)
  <2>2. next \in Pcb /\ next \in Members(rq)
    BY <1>3, <2>1, DequeueFacts
  <2>3. get_next_ready_process(rq) = {next}
    BY <2>1 DEF get_next_ready_process
  <2>4. KCSwitch(st, next, "clock")
    BY <1>6, <2>3 DEF ClockDispatch
  <2>5. st \in [Pcb -> ProcessState] /\ st[old] = "READY"
        /\ \A p \in Pcb \ {old} : st[p] = currState[p]
    BY <1>1 DEF ProcessState
  <2> HIDE DEF rq, next, st
  <2>6. /\ current_process' = next
        /\ currState' = [st EXCEPT ![next] = "RUNNING"]
        /\ kctx' = IF next # old THEN [kctx EXCEPT ![old] = "clock", ![next] = "none"]
                                 ELSE kctx
    BY <2>4 DEF KCSwitch, SwitchContext
  <2>7. currState'[next] = "RUNNING"
    BY <2>2, <2>5, <2>6
  <2>8. ASSUME NEW p \in Pcb \ {next}
        PROVE  /\ p # old => currState'[p] = currState[p] /\ kctx'[p] = kctx[p]
               /\ p = old => currState'[p] = "READY" /\ kctx'[p] = "clock"
    BY <1>1, <2>2, <2>5, <2>6
  <2>9. next \in Members(readyQueue) \cup {old}
    BY <1>3, <2>2
  <2> QED
    BY <1>4, <2>2, <2>6, <2>7, <2>8, <2>9
<1> QED
  BY <1>5, <1>6

\* The head of the queue q gets the CPU, and the caller will resume inside the
\* call that it is in.
LEMMA BlockFacts ==
  ASSUME IInv, NEW q \in Seq(Pcb), NoDuplicates(q), idle_process \in Members(q),
         current_process \notin Members(q),
         NEW st \in [Pcb -> ProcessState], NEW resume \in Resume,
         YieldCpu(q, st, resume)
  PROVE  \E next \in Pcb \ {current_process} :
           /\ next \in Members(q) /\ next = Head(q)
           /\ current_process' = next
           /\ currState'[next] = "RUNNING"
           /\ \A p \in Pcb \ {next} : currState'[p] = st[p]
           /\ kctx'[current_process] = resume
           /\ \A p \in Pcb \ {next, current_process} : kctx'[p] = kctx[p]
<1>1. current_process \in Pcb /\ kctx \in [Pcb -> Resume]
  BY DEF IInv, TypeOK, Placement, Live
<1>2. PICK next \in Members(q) :
        /\ next \in Pcb /\ next = Head(q)
        /\ current_process' = next
        /\ kctx' = [kctx EXCEPT ![current_process] = resume, ![next] = "none"]
        /\ currState' = [st EXCEPT ![next] = "RUNNING"]
  <2>1. Yielded(q, st, resume)
    BY YieldFacts
  <2> QED
    BY <2>1 DEF Yielded
<1> QED
  BY <1>1, <1>2

\* Delay and Wait.
LEMMA SleepFacts ==
  ASSUME IInv, KernelDelay \/ WaitBlock
  PROVE  /\ UNCHANGED heap
         /\ currState[current_process] = "RUNNING"
         /\ \E next \in Pcb \ {current_process} :
              /\ next \in Members(readyQueue)
              /\ current_process' = next
              /\ currState'[next] = "RUNNING"
              /\ currState'[current_process] = "BLOCKED"
              /\ kctx'[current_process] \in {"delay", "wait"}
              /\ \A p \in Pcb \ {next, current_process} :
                   currState'[p] = currState[p] /\ kctx'[p] = kctx[p]
<1> DEFINE st == [currState EXCEPT ![current_process] = "BLOCKED"]
<1>1. /\ current_process # idle_process /\ current_process \in Pcb
      /\ currState[current_process] = "RUNNING"
      /\ currState \in [Pcb -> ProcessState]
  BY DEF KernelDelay, WaitBlock, InUserProgram, LoopState, IInv, Placement, TypeOK, Live
<1>2. PICK resume \in {"delay", "wait"} : YieldCpu(readyQueue, st, resume)
  BY DEF KernelDelay, WaitBlock
<1>3. st \in [Pcb -> ProcessState] /\ resume \in Resume
      /\ st[current_process] = "BLOCKED"
      /\ \A p \in Pcb \ {current_process} : st[p] = currState[p]
  BY <1>1 DEF ProcessState, Resume
<1> HIDE DEF st
<1>4. PICK next \in Pcb \ {current_process} :
           /\ next \in Members(readyQueue)
           /\ current_process' = next
           /\ currState'[next] = "RUNNING"
           /\ \A p \in Pcb \ {next} : currState'[p] = st[p]
           /\ kctx'[current_process] = resume
           /\ \A p \in Pcb \ {next, current_process} : kctx'[p] = kctx[p]
  <2>1. /\ readyQueue \in Seq(Pcb) /\ NoDuplicates(readyQueue)
        /\ idle_process \in Members(readyQueue)
        /\ current_process \notin Members(readyQueue)
    BY <1>1 DEF IInv, TypeOK, Placement, IdleReady
  <2> QED
    BY <1>2, <1>3, <2>1, BlockFacts
<1>5. UNCHANGED heap
  BY DEF KernelDelay, WaitBlock
<1> QED
  BY <1>1, <1>3, <1>4, <1>5

\* Exit wakes at most the parent, if it is BLOCKED.
LEMMA ExitFacts ==
  ASSUME IInv, ExitFinish
  PROVE  /\ UNCHANGED heap
         /\ currState[current_process] = "RUNNING"
         /\ \E next \in Pcb \ {current_process} :
              /\ current_process' = next
              /\ next \in Members(readyQueue)
              /\ currState'[next] = "RUNNING"
              /\ currState'[current_process] = "ZOMBIE"
              /\ kctx'[current_process] = "exit"
              /\ \A p \in Pcb \ {next, current_process} :
                   /\ kctx'[p] = kctx[p]
                   /\ \/ currState'[p] = currState[p]
                      \/ /\ p = parent[current_process]
                         /\ currState[p] = "BLOCKED" /\ currState'[p] = "READY"
<1> DEFINE me == current_process
           up == parent[me]
           wakes == WakesParent(up)
           st0 == IF wakes THEN [currState EXCEPT ![up] = "READY"] ELSE currState
           st == [st0 EXCEPT ![me] = "ZOMBIE"]
           q == IF wakes THEN Enqueue(readyQueue, up) ELSE readyQueue
<1>1. /\ me \in Pcb /\ me # idle_process /\ currState[me] = "RUNNING"
      /\ currState \in [Pcb -> ProcessState]
      /\ readyQueue \in Seq(Pcb) /\ NoDuplicates(readyQueue)
      /\ idle_process \in Members(readyQueue) /\ me \notin Members(readyQueue)
  BY DEF ExitFinish, IInv, TypeOK, Placement, Live, LoopState, IdleReady
<1>2. ASSUME wakes
      PROVE  up \in Pcb \ {me} /\ currState[up] = "BLOCKED" /\ up \notin Members(readyQueue)
  <2>1. up \in Pcb \ {me} /\ currState[up] = "BLOCKED"
    BY <1>1, <1>2 DEF WakesParent, IInv, TypeOK
  <2> QED
    BY <2>1 DEF IInv, Placement, PlacedByState
<1>3. UNCHANGED heap /\ YieldCpu(q, st, "exit")
  BY DEF ExitFinish
<1>4. /\ st \in [Pcb -> ProcessState] /\ st[me] = "ZOMBIE"
      /\ \A p \in Pcb \ {me} : st[p] = IF wakes /\ p = up THEN "READY" ELSE currState[p]
  BY <1>1, <1>2 DEF ProcessState
<1>5. /\ q \in Seq(Pcb) /\ NoDuplicates(q)
      /\ Members(q) = IF wakes THEN Members(readyQueue) \cup {up} ELSE Members(readyQueue)
  <2>1. CASE wakes
    <3> HIDE DEF up
    <3>1. /\ Enqueue(readyQueue, up) \in Seq(Pcb)
          /\ NoDuplicates(Enqueue(readyQueue, up))
          /\ Members(Enqueue(readyQueue, up)) = Members(readyQueue) \cup {up}
      BY <1>1, <1>2, <2>1, EnqueueFacts
    <3> QED
      BY <2>1, <3>1
  <2>2. CASE ~wakes
    BY <1>1, <2>2
  <2> QED
    BY <2>1, <2>2
<1> HIDE DEF q, st, st0, wakes
<1>6. PICK next \in Pcb \ {current_process} :
           /\ next = Head(q)
           /\ current_process' = next
           /\ currState'[next] = "RUNNING"
           /\ \A p \in Pcb \ {next} : currState'[p] = st[p]
           /\ kctx'[current_process] = "exit"
           /\ \A p \in Pcb \ {next, current_process} : kctx'[p] = kctx[p]
  <2>1. idle_process \in Members(q) /\ me \notin Members(q) /\ "exit" \in Resume
    BY <1>1, <1>2, <1>5 DEF Resume
  <2> QED
    BY <1>3, <1>4, <1>5, <2>1, BlockFacts
<1>7. next \in Members(readyQueue)
  <2>1. ~isEmpty(readyQueue) /\ Head(readyQueue) \in Members(readyQueue)
    BY <1>1, MemberNotEmpty, DequeueFacts
  <2>2. CASE wakes
    <3> HIDE DEF up
    <3>1. Head(Enqueue(readyQueue, up)) = Head(readyQueue)
      BY <1>1, <1>2, <2>1, <2>2, EnqueueHead
    <3> QED
      BY <1>6, <2>1, <2>2, <3>1 DEF q
  <2>3. CASE ~wakes
    BY <1>6, <2>1, <2>3 DEF q
  <2> QED
    BY <2>2, <2>3
<1>8. \A p \in Pcb \ {next, me} :
        \/ currState'[p] = currState[p]
        \/ p = up /\ currState[p] = "BLOCKED" /\ currState'[p] = "READY"
  BY <1>2, <1>4, <1>6
<1> QED
  BY <1>1, <1>3, <1>4, <1>6, <1>7, <1>8
-----------------------------------------------------------------------------
(* Saved contexts.                                                         *)

\* Whoever does not run, and is not just freed, made, or switched away from,
\* keeps a context that fits its state; a sleeper that is woken keeps one that
\* fits a READY process.
LEMMA ContextsKept ==
  ASSUME IInv, SavedContexts,
         NEW p \in Live \ {current_process}, kctx'[p] = kctx[p],
         currState'[p] = currState[p] \/ (currState[p] = "BLOCKED" /\ currState'[p] = "READY")
  PROVE  kctx'[p] \in ResumesIn(currState'[p])
<1>1. kctx[p] \in ResumesIn(currState[p])
  BY DEF SavedContexts
<1> QED
  BY <1>1 DEF ResumesIn

LEMMA InitContexts == Init => SavedContexts
<1> SUFFICES ASSUME Init, NEW p \in Live, p # current_process
             PROVE  kctx[p] \in ResumesIn(currState[p])
  BY DEF SavedContexts
<1>1. p = init_process
  BY DEF Init, Live
<1> QED
  BY <1>1 DEF Init, ResumesIn

LEMMA NextContexts == IInv /\ SavedContexts /\ [Next]_vars => SavedContexts'
<1> SUFFICES ASSUME IInv, SavedContexts, [Next]_vars,
                    NEW p \in Live', p # current_process'
             PROVE  kctx'[p] \in ResumesIn(currState'[p])
  BY DEF SavedContexts, Live
<1>1. p \in Pcb /\ current_process \in Pcb
      /\ currState \in [Pcb -> ProcessState] /\ kctx \in [Pcb -> Resume]
  BY DEF Live, IInv, TypeOK, Placement
<1>2. CASE UNCHANGED <<heap, currState, current_process, kctx>>
  <2>1. p \in Live \ {current_process} /\ kctx'[p] = kctx[p] /\ currState'[p] = currState[p]
    BY <1>2 DEF Live
  <2> QED
    BY <2>1, ContextsKept
<1>3. CASE WakeSleeper
  <2>1. UNCHANGED <<heap, current_process, kctx>> /\ p \in Live \ {current_process}
    BY <1>3 DEF WakeSleeper, cpu, Live
  <2>2. CASE UNCHANGED currState
    BY <1>2, <2>1, <2>2
  <2>3. CASE currState' = [currState EXCEPT ![sleepQueue[node]] = "READY"]
    <3>1. sleepQueue[node] \in Members(sleepQueue)
      <4>1. sleepQueue \in Seq(Pcb) /\ node \in 1..Len(sleepQueue)
        BY <1>3, LenProperties DEF IInv, TypeOK, LoopState, WakeSleeper
      <4> QED
        BY <4>1, MembersDef
    <3>2. currState[sleepQueue[node]] = "BLOCKED"
      BY <3>1 DEF IInv, Placement, PlacedByState
    <3>3. currState'[p] = currState[p] \/ (currState[p] = "BLOCKED" /\ currState'[p] = "READY")
      BY <1>1, <2>3, <3>2
    <3> QED
      BY <2>1, <3>3, ContextsKept
  <2> QED
    BY <1>3, <2>2, <2>3 DEF WakeSleeper
<1>4. CASE ClockDispatch
  <2>1. p \in Live
    BY <1>4, ClockDispatchFacts DEF Live
  <2>2. CASE p = current_process
    BY <1>1, <1>4, <2>2, ClockDispatchFacts DEF ResumesIn
  <2>3. CASE p # current_process
    <3>1. kctx'[p] = kctx[p] /\ currState'[p] = currState[p]
      BY <1>1, <1>4, <2>3, ClockDispatchFacts
    <3> QED
      BY <2>1, <2>3, <3>1, ContextsKept
  <2> QED
    BY <2>2, <2>3
<1>5. CASE KernelDelay \/ WaitBlock
  <2>1. p \in Live
    BY <1>5, SleepFacts DEF Live
  <2>2. CASE p = current_process
    BY <1>1, <1>5, <2>2, SleepFacts DEF ResumesIn
  <2>3. CASE p # current_process
    <3>1. kctx'[p] = kctx[p] /\ currState'[p] = currState[p]
      BY <1>1, <1>5, <2>3, SleepFacts
    <3> QED
      BY <2>1, <2>3, <3>1, ContextsKept
  <2> QED
    BY <2>2, <2>3
<1>6. CASE ExitFinish
  <2>1. p \in Live
    BY <1>6, ExitFacts DEF Live
  <2>2. CASE p = current_process
    BY <1>1, <1>6, <2>2, ExitFacts DEF ResumesIn
  <2>3. CASE p # current_process
    <3>1. /\ kctx'[p] = kctx[p]
          /\ currState'[p] = currState[p] \/ (currState[p] = "BLOCKED" /\ currState'[p] = "READY")
      BY <1>1, <1>6, <2>3, ExitFacts
    <3> QED
      BY <2>1, <2>3, <3>1, ContextsKept
  <2> QED
    BY <2>2, <2>3
<1>7. CASE KernelFork
  <2>1. PICK new \in Pcb :
          /\ heap' = [heap EXCEPT ![new] = "live"]
          /\ currState' = [currState EXCEPT ![new] = "FREE"]
          /\ kctx' = [kctx EXCEPT ![new] = "fork"]
    BY <1>7 DEF KernelFork, spawn_proc, KCCopy, Allocatable
  <2>2. UNCHANGED current_process
    BY <1>7 DEF KernelFork
  <2>3. CASE p = new
    BY <1>1, <2>1, <2>3 DEF ResumesIn
  <2>4. CASE p # new
    <3>1. /\ p \in Live \ {current_process}
          /\ kctx'[p] = kctx[p] /\ currState'[p] = currState[p]
      BY <1>1, <2>1, <2>2, <2>4 DEF Live, IInv, TypeOK
    <3> QED
      BY <3>1, ContextsKept
  <2> QED
    BY <2>3, <2>4
<1>8. CASE KernelForkNoFrames \/ WaitReap
  <2>1. PICK gone \in Pcb : free_proc(gone)
    BY <1>8 DEF KernelForkNoFrames, WaitReap, Allocatable, IInv, TypeOK
  <2>2. UNCHANGED current_process
    BY <1>8 DEF KernelForkNoFrames, WaitReap
  <2>3. p # gone
    BY <2>1 DEF free_proc, Live, IInv, TypeOK
  <2>4. /\ p \in Live \ {current_process}
        /\ kctx'[p] = kctx[p] /\ currState'[p] = currState[p]
    BY <1>1, <2>1, <2>2, <2>3 DEF free_proc, Live, IInv, TypeOK
  <2> QED
    BY <2>4, ContextsKept
<1>9. CASE HandleClockTrap \/ KernelWait \/ WaitSkip \/ KernelExit \/ ExitAdopt
           \/ UNCHANGED vars
  BY <1>2, <1>9 DEF HandleClockTrap, KernelWait, WaitSkip, KernelExit, ExitAdopt, vars, cpu
<1> QED
  BY <1>3, <1>4, <1>5, <1>6, <1>7, <1>8, <1>9
     DEF Next, ClockStep, WaitStep, ExitStep, Syscall

\* A process that gets the CPU resumes in the call that its state says it is
\* in: a zombie never leaves Exit, no context is used twice.
THEOREM ContextsInvariant == Spec => []SavedContexts
<1>1. Init => IInv /\ SavedContexts
  BY InitIInv, InitContexts
<1>2. (IInv /\ SavedContexts) /\ [Next]_vars => (IInv /\ SavedContexts)'
  BY NextIInv, NextContexts
<1> QED
  BY <1>1, <1>2, PTL DEF Spec
-----------------------------------------------------------------------------
(* Who changes state.                                                      *)

\* A live process whose state a step changes was waiting for the CPU or had
\* it, or was asleep and has a reason to wake, or is a zombie that is reaped.
LEMMA StateChanges ==
  ASSUME IInv, [Next]_vars, NEW p \in Live, currState'[p] # currState[p]
  PROVE  \/ currState[p] \in {"READY", "FREE", "RUNNING"}
         \/ /\ currState[p] = "BLOCKED"
            /\ \/ wake_tick[p] <= current_tick
               \/ /\ parent[current_process] = p
                  /\ currState'[current_process] = "ZOMBIE"
         \/ /\ currState[p] = "ZOMBIE"
            /\ heap'[p] = "freed" /\ kmode = "wait" /\ p # current_process
<1>1. /\ p \in Pcb /\ currState \in [Pcb -> ProcessState] /\ heap \in [Pcb -> {"fresh", "live", "freed"}]
      /\ current_process \in Pcb
      /\ currState[current_process] \in {"RUNNING", "READY"}
  BY DEF Live, IInv, TypeOK, Placement
<1>2. \A r \in Members(readyQueue) : currState[r] \in {"READY", "FREE"}
  BY DEF IInv, Placement, PlacedByState
<1>3. CASE WakeSleeper
  <2>1. PICK r : Due(r) /\ currState' = [currState EXCEPT ![r] = "READY"]
               /\ r = sleepQueue[node]
    BY <1>3 DEF WakeSleeper
  <2>2. r \in Members(sleepQueue)
    <3>1. sleepQueue \in Seq(Pcb) /\ node \in 1..Len(sleepQueue)
      BY <1>3, LenProperties DEF IInv, TypeOK, LoopState, WakeSleeper
    <3> QED
      BY <2>1, <3>1, MembersDef
  <2>3. p = r
    BY <1>1, <2>1
  <2> QED
    BY <2>1, <2>2, <2>3 DEF IInv, Placement, PlacedByState, Due
<1>4. CASE ClockDispatch
  <2>1. p = current_process \/ p \in Members(readyQueue)
    BY <1>1, <1>4, ClockDispatchFacts
  <2> QED
    BY <1>1, <1>2, <2>1
<1>5. CASE KernelDelay \/ WaitBlock
  <2>1. p = current_process \/ p \in Members(readyQueue)
    BY <1>1, <1>5, SleepFacts
  <2> QED
    BY <1>1, <1>2, <2>1
<1>6. CASE ExitFinish
  <2>1. /\ currState'[current_process] = "ZOMBIE"
        /\ \/ p = current_process \/ p \in Members(readyQueue)
           \/ p = parent[current_process] /\ currState[p] = "BLOCKED"
    BY <1>1, <1>6, ExitFacts
  <2> QED
    BY <1>1, <1>2, <2>1
<1>7. CASE KernelFork \/ KernelForkNoFrames
  <2>1. PICK new \in Allocatable : currState' = [currState EXCEPT ![new] = "FREE"]
    BY <1>7 DEF KernelFork, KernelForkNoFrames, spawn_proc, free_proc
  <2>2. p # new
    BY <2>1 DEF Allocatable, Live
  <2> QED
    BY <1>1, <2>1, <2>2
<1>8. CASE WaitReap
  <2>1. /\ child \in Pcb /\ currState[child] = "ZOMBIE" /\ kmode = "wait"
        /\ currState' = [currState EXCEPT ![child] = "FREE"]
        /\ heap' = [heap EXCEPT ![child] = "freed"]
    BY <1>8 DEF WaitReap, free_proc, IInv, TypeOK
  <2>2. p = child
    BY <1>1, <2>1
  <2> QED
    BY <1>1, <2>1, <2>2
<1>9. CASE HandleClockTrap \/ KernelWait \/ WaitSkip \/ KernelExit \/ ExitAdopt
           \/ UNCHANGED vars
  BY <1>9 DEF HandleClockTrap, KernelWait, WaitSkip, KernelExit, ExitAdopt, vars
<1> QED
  BY <1>3, <1>4, <1>5, <1>6, <1>7, <1>8, <1>9
     DEF Next, ClockStep, WaitStep, ExitStep, Syscall

\* A zombie is touched by nothing but the Wait that reaps it.
THEOREM DeadStayDeadAlways == Spec => DeadStayDead
<1> DEFINE Step ==
      \A p \in Live : currState[p] = "ZOMBIE" =>
        \/ currState'[p] = "ZOMBIE"
        \/ heap'[p] = "freed" /\ kmode = "wait" /\ p # current_process
<1>1. IInv /\ [Next]_vars => Step
  BY StateChanges
<1> QED
  BY <1>1, Invariance, PTL DEF Spec, DeadStayDead

\* Nobody is woken but by the clock at its tick or by the death of a child.
THEOREM SleepersWakeForAReasonAlways == Spec => SleepersWakeForAReason
<1> DEFINE Step ==
      \A p \in Live : currState[p] = "BLOCKED" /\ currState'[p] # "BLOCKED" =>
        \/ wake_tick[p] <= current_tick
        \/ /\ parent[current_process] = p
           /\ currState'[current_process] = "ZOMBIE"
<1>1. IInv /\ [Next]_vars => Step
  BY StateChanges
<1> QED
  BY <1>1, Invariance, PTL DEF Spec, SleepersWakeForAReason
-----------------------------------------------------------------------------
(* The wake-up loop.                                                       *)

LEMMA NextNoSleeperSkipped ==
  IInv /\ NoSleeperSkipped /\ [Next]_vars => NoSleeperSkipped'
<1> SUFFICES ASSUME IInv, NoSleeperSkipped, [Next]_vars, kmode' = "wake",
                    NEW i \in DOMAIN sleepQueue', i < node'
             PROVE  wake_tick'[sleepQueue'[i]] > current_tick'
  BY DEF NoSleeperSkipped
<1>1. /\ sleepQueue \in Seq(Pcb) /\ wake_tick \in [Pcb -> 0..(TickMod - 1)]
      /\ current_tick \in 0..(TickMod - 1) /\ DOMAIN sleepQueue = 1..Len(sleepQueue)
      /\ Len(sleepQueue) \in Nat
  BY LenProperties DEF IInv, TypeOK
<1>2. CASE HandleClockTrap
  <2>1. node' = 1 /\ i \in 1..Len(sleepQueue)
    BY <1>1, <1>2 DEF HandleClockTrap, queues
  <2> QED
    BY <2>1
<1>3. CASE WakeSleeper
  <2>1. /\ kmode = "wake" /\ node \in 1..Len(sleepQueue)
        /\ UNCHANGED <<wake_tick, current_tick>>
    BY <1>1, <1>3 DEF IInv, TypeOK, LoopState, WakeSleeper
  <2>2. sleepQueue[node] \in Pcb
    BY <1>1, <2>1, ElementOfSeq
  <2>3. CASE Due(sleepQueue[node])
    <3>1. node' = node /\ sleepQueue' = UnlinkAt(sleepQueue, node)
      BY <1>3, <2>3 DEF WakeSleeper, PositionAfter
    <3>2. UnlinkAt(sleepQueue, node) \in Seq(Pcb)
      BY <1>1, <2>1, UnlinkAtFacts
    <3>3. i \in 1..(node - 1)
      <4>1. i \in Nat \ {0}
        BY <3>1, <3>2, LenProperties
      <4> QED
        BY <2>1, <3>1, <4>1
    <3>4. sleepQueue'[i] = sleepQueue[i] /\ i \in DOMAIN sleepQueue
      BY <1>1, <2>1, <3>1, <3>3, UnlinkAtFront
    <3> QED
      BY <2>1, <3>1, <3>4 DEF NoSleeperSkipped
  <2>4. CASE ~Due(sleepQueue[node])
    <3>1. node' = node + 1 /\ UNCHANGED sleepQueue
      BY <1>3, <2>4 DEF WakeSleeper, PositionAfter, queues
    <3>2. i < node \/ i = node
      BY <1>1, <2>1, <3>1
    <3>3. CASE i < node
      BY <2>1, <3>1, <3>3 DEF NoSleeperSkipped
    <3>4. CASE i = node
      <4>1. ~(wake_tick[sleepQueue[node]] <= current_tick)
        BY <2>4 DEF Due
      <4>2. wake_tick[sleepQueue[node]] \in Int /\ current_tick \in Int
        BY <1>1, <2>2
      <4> QED
        BY <2>1, <3>1, <3>4, <4>1, <4>2
    <3> QED
      BY <3>2, <3>3, <3>4
  <2> QED
    BY <2>3, <2>4
<1>4. CASE UNCHANGED vars
  BY <1>4 DEF vars, queues, loop, NoSleeperSkipped
<1>5. kmode' # "wake" \/ HandleClockTrap \/ WakeSleeper \/ UNCHANGED vars
  <2>1. CASE Next
    <3>1. CASE ClockDispatch \/ KernelDelay \/ WaitBlock \/ ExitFinish
      <4>1. kmode' \in {"user", "wild"}
        BY <3>1 DEF ClockDispatch, KernelDelay, WaitBlock, ExitFinish, YieldCpu, KCSwitch
      <4> QED
        BY <4>1
    <3>2. CASE KernelFork \/ KernelForkNoFrames \/ KernelWait \/ WaitSkip \/ WaitReap
               \/ KernelExit \/ ExitAdopt
      BY <3>2 DEF KernelFork, KernelForkNoFrames, KernelWait, WaitSkip, WaitReap,
                  KernelExit, ExitAdopt, InUserProgram, loop
    <3> QED
      BY <2>1, <3>1, <3>2 DEF Next, ClockStep, WaitStep, ExitStep, Syscall
  <2> QED
    BY <2>1
<1> QED
  BY <1>2, <1>3, <1>4, <1>5

\* Whatever the wake-up loop has passed is not due, although it unlinks nodes
\* from the list that it walks.
THEOREM NoSleeperSkippedEver == Spec => []NoSleeperSkipped
<1>1. Init => IInv /\ NoSleeperSkipped
  BY InitIInv DEF Init, NoSleeperSkipped
<1>2. (IInv /\ NoSleeperSkipped) /\ [Next]_vars => (IInv /\ NoSleeperSkipped)'
  BY NextIInv, NextNoSleeperSkipped
<1> QED
  BY <1>1, <1>2, PTL DEF Spec
-----------------------------------------------------------------------------
(* The life cycle.                                                         *)

Standing == {"none", "ready", "running", "asleep", "dead"}

\* Where a process stands is what its state says, but for the process that runs.
LEMMA StatusFacts ==
  IInv => /\ status \in [Pcb -> Standing]
          /\ current_process \in Live
          /\ \A p \in Pcb :
               status[p] = IF p \notin Live THEN "none"
                           ELSE IF p = current_process THEN "running"
                           ELSE IF currState[p] = "ZOMBIE" THEN "dead"
                           ELSE IF currState[p] = "BLOCKED" THEN "asleep"
                           ELSE "ready"
<1> SUFFICES ASSUME IInv
             PROVE  /\ current_process \in Live
                    /\ \A p \in Pcb :
                         status[p] = IF p \notin Live THEN "none"
                                     ELSE IF p = current_process THEN "running"
                                     ELSE IF currState[p] = "ZOMBIE" THEN "dead"
                                     ELSE IF currState[p] = "BLOCKED" THEN "asleep"
                                     ELSE "ready"
  BY DEF status, Standing
<1>1. /\ current_process \in Live
      /\ currState[current_process] \in {"RUNNING", "READY"}
      /\ \A p \in Pcb : currState[p] \in ProcessState
      /\ \A p \in Live \ {current_process} : PlacedByState(p)
      /\ Members(readyQueue) \cup Members(sleepQueue) \subseteq Live \ {current_process}
      /\ \A p \in Pcb \ Live : currState[p] = "FREE"
  BY DEF IInv, TypeOK, Placement
<1>2. ASSUME NEW p \in Live \ {current_process}
      PROVE  status[p] = IF currState[p] = "ZOMBIE" THEN "dead"
                         ELSE IF currState[p] = "BLOCKED" THEN "asleep" ELSE "ready"
  BY <1>1 DEF status, PlacedByState, ProcessState, Live
<1>3. status[current_process] = "running"
  BY <1>1 DEF status, Live
<1>4. ASSUME NEW p \in Pcb, p \notin Live PROVE status[p] = "none"
  BY <1>1, <1>4 DEF status
<1> QED
  BY <1>1, <1>2, <1>3, <1>4

\* Two statuses that agree everywhere are one.
LEMMA SameStatus ==
  ASSUME NEW f \in [Pcb -> Standing], NEW g \in [Pcb -> Standing], \A p \in Pcb : f[p] = g[p]
  PROVE  f = g
OBVIOUS

\* Whatever becomes of the family tree, the loops and the clock, only a change
\* of state, of the heap or of the process that runs is a step of the life cycle.
LEMMA NextLifecycle == IInv /\ IInv' /\ [Next]_vars => Abstract!Next \/ UNCHANGED status
<1> SUFFICES ASSUME IInv, IInv', [Next]_vars PROVE Abstract!Next \/ UNCHANGED status
  OBVIOUS
<1> DEFINE me == current_process
<1>1. /\ status \in [Pcb -> Standing] /\ me \in Live /\ me \in Pcb
      /\ \A p \in Pcb :
           status[p] = IF p \notin Live THEN "none"
                       ELSE IF p = me THEN "running"
                       ELSE IF currState[p] = "ZOMBIE" THEN "dead"
                       ELSE IF currState[p] = "BLOCKED" THEN "asleep"
                       ELSE "ready"
  BY StatusFacts DEF Live
<1>2. /\ status' \in [Pcb -> Standing]
      /\ \A p \in Pcb :
           status'[p] = IF heap'[p] # "live" THEN "none"
                        ELSE IF p = current_process' THEN "running"
                        ELSE IF currState'[p] = "ZOMBIE" THEN "dead"
                        ELSE IF currState'[p] = "BLOCKED" THEN "asleep"
                        ELSE "ready"
  <2>1. (IInv => /\ status \in [Pcb -> Standing]
                 /\ current_process \in Live
                 /\ \A p \in Pcb :
                      status[p] = IF p \notin Live THEN "none"
                                  ELSE IF p = current_process THEN "running"
                                  ELSE IF currState[p] = "ZOMBIE" THEN "dead"
                                  ELSE IF currState[p] = "BLOCKED" THEN "asleep"
                                  ELSE "ready")'
    BY StatusFacts, PTL
  <2> QED
    BY <2>1 DEF Live
<1>3. /\ heap \in [Pcb -> {"fresh", "live", "freed"}] /\ currState \in [Pcb -> ProcessState]
      /\ \A p \in Pcb : p \in Live <=> heap[p] = "live"
      /\ \A p \in Pcb \ Live : currState[p] = "FREE"
      /\ \A p \in Members(readyQueue) : p \in Pcb /\ status[p] = "ready"
      /\ \A p \in Pcb : currState[p] = "BLOCKED" => status[p] = "asleep"
  <2>1. \A p \in Members(readyQueue) :
          p \in Live \ {me} /\ p \in Pcb /\ currState[p] \in {"READY", "FREE"}
    BY DEF IInv, Placement, PlacedByState, Live
  <2>2. currState[me] \in {"RUNNING", "READY"} /\ \A p \in Pcb \ Live : currState[p] = "FREE"
    BY DEF IInv, Placement
  <2> QED
    BY <1>1, <2>1, <2>2 DEF IInv, TypeOK, Live
<1>4. CASE UNCHANGED <<heap, currState, current_process>>
  <2>1. \A p \in Pcb : status'[p] = status[p]
    BY <1>1, <1>2, <1>3, <1>4
  <2> QED
    BY <1>1, <1>2, <2>1, SameStatus
<1>5. CASE WakeSleeper
  <2>1. UNCHANGED <<heap, current_process>>
    BY <1>5 DEF WakeSleeper, cpu
  <2>2. CASE UNCHANGED currState
    BY <1>4, <2>1, <2>2
  <2>3. CASE currState' = [currState EXCEPT ![sleepQueue[node]] = "READY"]
    <3> DEFINE p == sleepQueue[node]
    <3>1. p \in Members(sleepQueue)
      <4>1. sleepQueue \in Seq(Pcb) /\ node \in 1..Len(sleepQueue)
        BY <1>5, LenProperties DEF IInv, TypeOK, LoopState, WakeSleeper
      <4> QED
        BY <4>1, MembersDef
    <3>2. currState[p] = "BLOCKED" /\ p \in Pcb /\ p \in Live /\ p # me
      BY <3>1 DEF IInv, Placement, PlacedByState, Live
    <3> HIDE DEF p
    <3>3. currState' = [currState EXCEPT ![p] = "READY"]
      BY <2>3 DEF p
    <3>4. status' = [status EXCEPT ![p] = "ready"]
      <4>1. [status EXCEPT ![p] = "ready"] \in [Pcb -> Standing]
        BY <1>1 DEF Standing
      <4>2. \A q \in Pcb : status'[q] = [status EXCEPT ![p] = "ready"][q]
        BY <1>1, <1>2, <1>3, <2>1, <3>2, <3>3
      <4> QED
        BY <1>2, <4>1, <4>2, SameStatus
    <3> QED
      BY <1>3, <3>2, <3>4 DEF Abstract!Next, Abstract!Wake
  <2> QED
    BY <1>5, <2>2, <2>3 DEF WakeSleeper
<1>6. CASE ClockDispatch
  <2>1. UNCHANGED heap
    BY <1>6, ClockDispatchFacts
  <2>2. CASE UNCHANGED <<currState, kctx, current_process>>
    BY <1>4, <2>1, <2>2
  <2>3. ASSUME NEW next \in Members(readyQueue) \cup {me}, next \in Pcb,
               current_process' = next, currState'[next] = "RUNNING",
               \A p \in Pcb \ {next} :
                 /\ p # me => currState'[p] = currState[p]
                 /\ p = me => currState'[p] = "READY"
        PROVE  Abstract!Next \/ UNCHANGED status
    <3>1. CASE next = me
      <4>1. \A p \in Pcb : status'[p] = status[p]
        BY <1>1, <1>2, <1>3, <2>1, <2>3, <3>1
      <4> QED
        BY <1>1, <1>2, <4>1, SameStatus
    <3>2. CASE next # me
      <4>1. status[me] = "running" /\ status[next] = "ready"
        BY <1>1, <1>3, <2>3, <3>2
      <4> DEFINE s == [status EXCEPT ![me] = "ready", ![next] = "running"]
      <4>2. s \in [Pcb -> Standing]
        BY <1>1 DEF Standing
      <4>3. \A p \in Pcb : status'[p] = s[p]
        BY <1>1, <1>2, <1>3, <2>1, <2>3, <3>2, <4>1
      <4>4. status' = s
        <5> HIDE DEF s
        <5> QED
          BY <1>2, <4>2, <4>3, SameStatus
      <4> QED
        BY <1>1, <2>3, <4>1, <4>4 DEF Abstract!Next, Abstract!Preempt
    <3> QED
      BY <3>1, <3>2
  <2> QED
    BY <1>6, <2>2, <2>3, ClockDispatchFacts
<1>7. CASE KernelDelay \/ WaitBlock
  <2>1. UNCHANGED heap /\ me # idle_process
    BY <1>7, SleepFacts DEF KernelDelay, WaitBlock, InUserProgram, IInv, LoopState
  <2>2. PICK next \in Pcb \ {me} :
          /\ next \in Members(readyQueue)
          /\ current_process' = next
          /\ currState'[next] = "RUNNING"
          /\ currState'[me] = "BLOCKED"
          /\ \A p \in Pcb \ {next, me} : currState'[p] = currState[p]
    BY <1>7, SleepFacts
  <2>3. status[me] = "running" /\ status[next] = "ready"
    BY <1>1, <1>3, <2>2
  <2> DEFINE s == [status EXCEPT ![me] = "asleep", ![next] = "running"]
  <2>4. s \in [Pcb -> Standing]
    BY <1>1 DEF Standing
  <2>5. \A p \in Pcb : status'[p] = s[p]
    BY <1>1, <1>2, <1>3, <2>1, <2>2, <2>3
  <2>6. status' = s
    <3> HIDE DEF s
    <3> QED
      BY <1>2, <2>4, <2>5, SameStatus
  <2> QED
    BY <1>1, <2>1, <2>3, <2>6 DEF Abstract!Next, Abstract!Sleep, Abstract!ByProgram
<1>8. CASE ExitFinish
  <2>1. UNCHANGED heap /\ me # idle_process
    BY <1>8, ExitFacts DEF ExitFinish, IInv, LoopState
  <2>2. PICK next \in Pcb \ {me} :
          /\ next \in Members(readyQueue)
          /\ current_process' = next
          /\ currState'[next] = "RUNNING"
          /\ currState'[me] = "ZOMBIE"
          /\ \A p \in Pcb \ {next, me} :
               \/ currState'[p] = currState[p]
               \/ /\ p = parent[me]
                  /\ currState[p] = "BLOCKED" /\ currState'[p] = "READY"
    BY <1>8, ExitFacts
  <2>3. status[me] = "running" /\ status[next] = "ready"
    BY <1>1, <1>3, <2>2
  <2> DEFINE s == [status EXCEPT ![me] = "dead", ![next] = "running"]
             w(p) == [status EXCEPT ![me] = "dead", ![next] = "running", ![p] = "ready"]
  <2>4. s \in [Pcb -> Standing] /\ \A p \in Pcb : w(p) \in [Pcb -> Standing]
    BY <1>1 DEF Standing
  <2>5. CASE \A p \in Pcb \ {next, me} : currState'[p] = currState[p]
    <3>1. \A p \in Pcb : status'[p] = s[p]
      BY <1>1, <1>2, <1>3, <2>1, <2>2, <2>3, <2>5
    <3>2. status' = s
      <4> HIDE DEF s
      <4> QED
        BY <1>2, <2>4, <3>1, SameStatus
    <3> QED
      BY <1>1, <2>1, <2>3, <3>2 DEF Abstract!Next, Abstract!Die, Abstract!ByProgram
  <2>6. ASSUME NEW woken \in Pcb \ {next, me}, currState[woken] = "BLOCKED",
               currState'[woken] = "READY", woken = parent[me]
        PROVE  Abstract!Next
    <3>1. \A p \in Pcb \ {next, me, woken} : currState'[p] = currState[p]
      BY <2>2, <2>6
    <3>2. status[woken] = "asleep" /\ woken \in Live
      BY <1>3, <2>6
    <3>3. \A p \in Pcb : status'[p] = w(woken)[p]
      BY <1>1, <1>2, <1>3, <2>1, <2>2, <2>3, <2>6, <3>1, <3>2
    <3>4. status' = w(woken)
      BY <1>2, <2>4, <3>3, SameStatus
    <3> QED
      BY <1>1, <2>1, <2>3, <3>2, <3>4
         DEF Abstract!Next, Abstract!Die, Abstract!ByProgram, Abstract!Is
  <2> QED
    BY <2>2, <2>5, <2>6
<1>9. CASE KernelFork
  <2>1. PICK new \in Allocatable :
          /\ heap' = [heap EXCEPT ![new] = "live"]
          /\ currState' = [currState EXCEPT ![new] = "FREE"]
    BY <1>9 DEF KernelFork, spawn_proc
  <2>2. UNCHANGED current_process /\ me # idle_process
    BY <1>9 DEF KernelFork, InUserProgram
  <2>3. new \in Pcb /\ new \notin Live /\ new # me
    BY <1>1, <2>1 DEF Allocatable, Live
  <2>4. status[me] = "running" /\ status[new] = "none"
    BY <1>1, <2>3
  <2> DEFINE s == [status EXCEPT ![new] = "ready"]
  <2>5. s \in [Pcb -> Standing]
    BY <1>1 DEF Standing
  <2>6. \A p \in Pcb : status'[p] = s[p]
    BY <1>1, <1>2, <1>3, <2>1, <2>2, <2>3
  <2>7. status' = s
    <3> HIDE DEF s
    <3> QED
      BY <1>2, <2>5, <2>6, SameStatus
  <2> QED
    BY <1>1, <2>2, <2>3, <2>4, <2>7 DEF Abstract!Next, Abstract!Create, Abstract!ByProgram
<1>10. CASE KernelForkNoFrames
  <2>1. PICK new \in Allocatable : free_proc(new)
    BY <1>10 DEF KernelForkNoFrames
  <2>2. UNCHANGED current_process /\ new \in Pcb /\ new \notin Live
    BY <1>10, <2>1 DEF KernelForkNoFrames, Allocatable, Live
  <2>3. \A p \in Pcb : status'[p] = status[p]
    BY <1>1, <1>2, <1>3, <2>1, <2>2 DEF free_proc
  <2> QED
    BY <1>1, <1>2, <2>3, SameStatus
<1>11. CASE WaitReap
  <2>1. /\ child \in Pcb /\ currState[child] = "ZOMBIE" /\ me # idle_process
        /\ heap' = [heap EXCEPT ![child] = "freed"]
        /\ currState' = [currState EXCEPT ![child] = "FREE"]
        /\ UNCHANGED current_process
    BY <1>11 DEF WaitReap, free_proc, IInv, TypeOK, LoopState
  <2>2. child \in Live /\ child # me
    BY <1>3, <2>1 DEF IInv, Placement
  <2>3. status[me] = "running" /\ status[child] = "dead"
    BY <1>1, <2>1, <2>2
  <2> DEFINE s == [status EXCEPT ![child] = "none"]
  <2>4. s \in [Pcb -> Standing]
    BY <1>1 DEF Standing
  <2>5. \A p \in Pcb : status'[p] = s[p]
    BY <1>1, <1>2, <1>3, <2>1, <2>2
  <2>6. status' = s
    <3> HIDE DEF s
    <3> QED
      BY <1>2, <2>4, <2>5, SameStatus
  <2> QED
    BY <1>1, <2>1, <2>3, <2>6 DEF Abstract!Next, Abstract!Reap, Abstract!ByProgram
<1>12. CASE HandleClockTrap \/ KernelWait \/ WaitSkip \/ KernelExit \/ ExitAdopt
            \/ UNCHANGED vars
  BY <1>4, <1>12 DEF HandleClockTrap, KernelWait, WaitSkip, KernelExit, ExitAdopt, vars, cpu
<1> QED
  BY <1>5, <1>6, <1>7, <1>8, <1>9, <1>10, <1>11, <1>12
     DEF Next, ClockStep, WaitStep, ExitStep, Syscall

LEMMA InitLifecycle == Init => Abstract!Init
<1> SUFFICES ASSUME Init PROVE Abstract!Init
  OBVIOUS
<1> DEFINE s == [p \in Pcb |-> CASE p = idle_process -> "running"
                                 [] p = init_process -> "ready"
                                 [] OTHER            -> "none"]
<1>1. /\ \A p \in Pcb : s[p] = IF p = idle_process THEN "running"
                               ELSE IF p = init_process THEN "ready" ELSE "none"
      /\ s \in [Pcb -> Standing]
  BY DEF Standing
<1>2. /\ status \in [Pcb -> Standing]
      /\ \A p \in Pcb :
           status[p] = IF p \notin Live THEN "none"
                       ELSE IF p = current_process THEN "running"
                       ELSE IF currState[p] = "ZOMBIE" THEN "dead"
                       ELSE IF currState[p] = "BLOCKED" THEN "asleep"
                       ELSE "ready"
  BY InitIInv, StatusFacts
<1>3. /\ current_process = idle_process
      /\ \A p \in Pcb : p \in Live <=> p \in {idle_process, init_process}
      /\ \A p \in Pcb : currState[p] \in {"READY", "FREE"}
  BY DEF Init, Live
<1> HIDE DEF s
<1>4. \A p \in Pcb : status[p] = s[p]
  BY <1>1, <1>2, <1>3
<1>5. status = s
  BY <1>1, <1>2, <1>4, SameStatus
<1> QED
  BY <1>5 DEF Abstract!Init, s

\* The kernel implements the life cycle: one process has the CPU, and a process
\* is created by a program, waits, sleeps, dies once and is collected, for any
\* number of PCBs and also when malloc returns blocks that were freed.
THEOREM ImplementsLifecycle == Spec => RefinesLifecycle
<1>1. Init => Abstract!Init
  BY InitLifecycle
<1>2. IInv /\ IInv' /\ [Next]_vars => [Abstract!Next]_status
  BY NextLifecycle
<1> QED
  BY <1>1, <1>2, Invariance, PTL DEF Spec, RefinesLifecycle, Abstract!Spec
-----------------------------------------------------------------------------
(* First come, first served.                                               *)

\* Who is in front of b, or in a queue that b is not in, stays so when somebody
\* joins the queue, be it b, ...
LEMMA EnqueueKeepsOrder ==
  ASSUME NEW S, NEW q \in Seq(S), NEW d \in S \ Members(q), NEW b, NEW a \in Overtakable(q, b)
  PROVE  a \in Overtakable(Enqueue(q, d), b)
<1> DEFINE r == Append(q, d)
           n == Len(q)
<1>1. /\ r \in Seq(S) /\ Len(r) = n + 1
      /\ \A i \in 1..n : r[i] = q[i]
      /\ r[n + 1] = d
  BY AppendProperties
<1>2. n \in Nat /\ DOMAIN q = 1..n /\ DOMAIN r = 1..(n + 1)
  BY <1>1, LenProperties
<1>3. Members(q) = {q[i] : i \in 1..n} /\ Members(r) = Members(q) \cup {d}
  BY MembersDef, EnqueueFacts DEF Enqueue
<1> HIDE DEF r, n
<1>4. a \in Members(q) /\ (b \notin Members(q) \/ Precedes(q, a, b))
  BY DEF Overtakable
<1>5. CASE b = d
  <2>1. PICK i \in 1..n : q[i] = a
    BY <1>3, <1>4
  <2>2. i \in DOMAIN r /\ n + 1 \in DOMAIN r /\ i < n + 1 /\ r[i] = a /\ r[n + 1] = b
    BY <1>1, <1>2, <1>5, <2>1
  <2>3. Precedes(r, a, b)
    BY <2>2 DEF Precedes
  <2> QED
    BY <1>3, <1>4, <2>3 DEF Overtakable, Enqueue, r
<1>6. CASE b # d
  <2>1. ASSUME Precedes(q, a, b) PROVE Precedes(r, a, b)
    <3>1. PICK i, j \in 1..n : i < j /\ q[i] = a /\ q[j] = b
      BY <1>2, <2>1 DEF Precedes
    <3>2. i \in DOMAIN r /\ j \in DOMAIN r /\ r[i] = a /\ r[j] = b
      BY <1>1, <1>2, <3>1
    <3> QED
      BY <3>1, <3>2 DEF Precedes
  <2>2. b \notin Members(q) => b \notin Members(r)
    BY <1>3, <1>6
  <2> QED
    BY <1>3, <1>4, <2>1, <2>2 DEF Overtakable, Enqueue, r
<1> QED
  BY <1>5, <1>6

\* ... and when the first leaves it, who is not b then.
LEMMA DequeueKeepsOrder ==
  ASSUME NEW S, NEW q \in Seq(S), NoDuplicates(q), NEW b, NEW a \in Overtakable(q, b),
         a # Head(q)
  PROVE  a \in Overtakable(Dequeue(q), b) /\ Head(q) # b
<1> DEFINE r == Dequeue(q)
           n == Len(q)
<1>1. a \in Members(q) /\ (b \notin Members(q) \/ Precedes(q, a, b)) /\ ~isEmpty(q)
  BY MemberNotEmpty DEF Overtakable
<1>2. /\ Head(q) \in Members(q) /\ r \in Seq(S) /\ Members(r) = Members(q) \ {Head(q)}
  BY <1>1, DequeueFacts
<1>3. CASE b \notin Members(q)
  BY <1>1, <1>2, <1>3 DEF Overtakable
<1>4. CASE Precedes(q, a, b)
  <2>1. r = Tail(q) /\ Len(r) = n - 1 /\ \A i \in 1..Len(r) : r[i] = q[i + 1]
    BY <1>1, HeadTailProperties DEF Dequeue, isEmpty
  <2>2. n \in Nat /\ DOMAIN q = 1..n /\ DOMAIN r = 1..(n - 1) /\ Head(q) = q[1]
    BY <1>2, <2>1, LenProperties
  <2> HIDE DEF r, n
  <2>3. PICK i, j \in 1..n : i < j /\ q[i] = a /\ q[j] = b
    BY <1>4, <2>2 DEF Precedes
  <2>4. i # 1
    BY <2>2, <2>3
  <2>5. i - 1 \in 1..(n - 1) /\ j - 1 \in 1..(n - 1) /\ i - 1 < j - 1
        /\ (i - 1) + 1 = i /\ (j - 1) + 1 = j /\ 1 \in 1..n /\ j # 1
    BY <2>2, <2>3, <2>4
  <2>6. r[i - 1] = a /\ r[j - 1] = b
    BY <2>1, <2>2, <2>3, <2>5
  <2>7. Precedes(r, a, b)
    BY <2>2, <2>5, <2>6 DEF Precedes
  <2>8. Head(q) # b
    BY <2>2, <2>3, <2>5 DEF NoDuplicates
  <2> QED
    BY <1>1, <1>2, <2>7, <2>8 DEF Overtakable, r
<1> QED
  BY <1>1, <1>3, <1>4

\* What a step can do to the ready queue: somebody may join it, and its head may
\* get the CPU, in which case the process that had it may join.
Joined(x) == IF x = NULL THEN readyQueue ELSE Enqueue(readyQueue, x)
Joining == {NULL} \cup (Pcb \ Members(readyQueue))
QueueStep ==
  \E x \in Joining :
    \/ readyQueue' = Joined(x) /\ UNCHANGED current_process
    \/ /\ ~isEmpty(Joined(x)) /\ current_process' = Head(Joined(x))
       /\ \/ readyQueue' = Dequeue(Joined(x))
          \/ /\ current_process \in Pcb \ Members(Joined(x))
             /\ readyQueue' = Enqueue(Dequeue(Joined(x)), current_process)

LEMMA JoinedFacts ==
  ASSUME IInv, NEW x \in Joining
  PROVE  /\ Joined(x) \in Seq(Pcb) /\ NoDuplicates(Joined(x))
         /\ \A b : Overtakable(readyQueue, b) \subseteq Overtakable(Joined(x), b)
         /\ ~isEmpty(Joined(x)) => Head(Joined(x)) \in Pcb
<1>1. readyQueue \in Seq(Pcb) /\ NoDuplicates(readyQueue)
  BY DEF IInv, TypeOK, Placement
<1>2. CASE x = NULL
  BY <1>1, <1>2, DequeueFacts DEF Joined
<1>3. CASE x # NULL
  <2>1. x \in Pcb \ Members(readyQueue) /\ Joined(x) = Enqueue(readyQueue, x)
    BY <1>3 DEF Joining, Joined
  <2>2. Enqueue(readyQueue, x) \in Seq(Pcb) /\ NoDuplicates(Enqueue(readyQueue, x))
    BY <1>1, <2>1, EnqueueFacts
  <2>3. \A b : Overtakable(readyQueue, b) \subseteq Overtakable(Enqueue(readyQueue, x), b)
    BY <1>1, <2>1, EnqueueKeepsOrder
  <2> QED
    BY <2>1, <2>2, <2>3, DequeueFacts
<1> QED
  BY <1>2, <1>3

LEMMA YieldIsQueueStep ==
  ASSUME IInv, NEW x \in Joining, ~isEmpty(Joined(x)), NEW st, NEW resume,
         YieldCpu(Joined(x), st, resume)
  PROVE  QueueStep
<1>1. get_next_ready_process(Joined(x)) = {Head(Joined(x))} /\ Head(Joined(x)) # NULL
  BY JoinedFacts DEF get_next_ready_process
<1> QED
  BY <1>1 DEF YieldCpu, KCSwitch, QueueStep

LEMMA NextQueueStep == IInv /\ [Next]_vars => QueueStep
<1> SUFFICES ASSUME IInv, [Next]_vars PROVE QueueStep
  OBVIOUS
<1>1. /\ readyQueue \in Seq(Pcb) /\ Members(readyQueue) \subseteq Live \ {current_process}
      /\ current_process \in Pcb
      /\ current_process # idle_process => ~isEmpty(readyQueue)
      /\ NULL \in Joining /\ Joined(NULL) = readyQueue
      /\ \A x \in Pcb \ Members(readyQueue) :
           x \in Joining /\ Joined(x) = Enqueue(readyQueue, x)
      /\ \A x \in Pcb \ Live : x \in Pcb \ Members(readyQueue)
  BY MemberNotEmpty DEF IInv, TypeOK, Placement, IdleReady, Joining, Joined, Live
<1>2. CASE UNCHANGED <<readyQueue, current_process>>
  BY <1>1, <1>2 DEF QueueStep
<1>3. ASSUME NEW x \in Pcb \ Members(readyQueue),
             readyQueue' = Enqueue(readyQueue, x), UNCHANGED current_process
      PROVE  QueueStep
  BY <1>1, <1>3 DEF QueueStep
<1>4. CASE WakeSleeper
  <2> DEFINE p == sleepQueue[node]
  <2>1. p \in Pcb \ Members(readyQueue)
    <3>1. sleepQueue \in Seq(Pcb) /\ node \in 1..Len(sleepQueue)
      BY <1>4, LenProperties DEF IInv, TypeOK, LoopState, WakeSleeper
    <3>2. p \in Members(sleepQueue) /\ p \in Pcb
      BY <3>1, MembersDef, ElementOfSeq
    <3> QED
      BY <3>2 DEF IInv, Placement, PlacedByState
  <2> HIDE DEF p
  <2>2. UNCHANGED current_process
        /\ (readyQueue' = Enqueue(readyQueue, p) \/ UNCHANGED readyQueue)
    BY <1>4 DEF WakeSleeper, cpu, queues, p
  <2> QED
    BY <1>2, <1>3, <2>1, <2>2
<1>5. CASE KernelFork
  <2>1. PICK new \in Allocatable : readyQueue' = Enqueue(readyQueue, new)
    BY <1>5 DEF KernelFork, KCCopy
  <2>2. new \in Pcb \ Live /\ UNCHANGED current_process
    BY <1>5 DEF Allocatable, Live, KernelFork
  <2> QED
    BY <1>1, <1>3, <2>1, <2>2
<1>6. CASE KernelDelay \/ WaitBlock
  <2>1. PICK st, resume : YieldCpu(readyQueue, st, resume)
    BY <1>6 DEF KernelDelay, WaitBlock
  <2>2. current_process # idle_process
    BY <1>6 DEF KernelDelay, WaitBlock, InUserProgram, IInv, LoopState
  <2> QED
    BY <1>1, <2>1, <2>2, YieldIsQueueStep
<1>7. CASE ExitFinish
  <2> DEFINE up == parent[current_process]
  <2>1. PICK st : YieldCpu(IF WakesParent(up) THEN Enqueue(readyQueue, up) ELSE readyQueue,
                           st, "exit")
    BY <1>7 DEF ExitFinish
  <2>2. current_process # idle_process
    BY <1>7 DEF ExitFinish, IInv, LoopState
  <2>3. WakesParent(up) => up \in Pcb \ Members(readyQueue)
    <3> SUFFICES ASSUME WakesParent(up) PROVE up \in Pcb \ Members(readyQueue)
      OBVIOUS
    <3>1. up \in Pcb /\ currState[up] = "BLOCKED"
      BY <1>1 DEF WakesParent, IInv, TypeOK
    <3> QED
      BY <3>1 DEF IInv, Placement, PlacedByState
  <2> HIDE DEF up
  <2>4. CASE WakesParent(up)
    <3>1. ~isEmpty(Enqueue(readyQueue, up))
      BY <1>1, <2>3, <2>4, EnqueueFacts, MemberNotEmpty
    <3> QED
      BY <1>1, <2>1, <2>3, <2>4, <3>1, YieldIsQueueStep
  <2>5. CASE ~WakesParent(up)
    BY <1>1, <2>1, <2>2, <2>5, YieldIsQueueStep
  <2> QED
    BY <2>4, <2>5
<1>8. CASE ClockDispatch
  <2> DEFINE old == current_process
             preempted == currState[old] = "RUNNING"
             q == ReadyAtDispatch
  <2>1. /\ ~preempted => old = idle_process /\ currState[old] = "READY"
        /\ old \in Pcb \ Members(readyQueue)
    BY <1>1 DEF IInv, Placement
  <2>2. q = IF preempted THEN readyQueue ELSE Enqueue(readyQueue, old)
    BY <2>1 DEF ReadyAtDispatch
  <2>3. CASE isEmpty(q) /\ preempted
    BY <1>2, <1>8, <2>3 DEF ClockDispatch, cpu
  <2>4. CASE ~(isEmpty(q) /\ preempted)
    <3>1. PICK x \in Joining : q = Joined(x) /\ (preempted => x = NULL)
      BY <1>1, <2>1, <2>2
    <3>2. ~isEmpty(q)
      <4>1. CASE preempted
        BY <2>4, <4>1
      <4>2. CASE ~preempted
        BY <1>1, <2>1, <2>2, <4>2, EnqueueFacts, MemberNotEmpty
      <4> QED
        BY <4>1, <4>2
    <3>3. /\ current_process' = Head(q)
          /\ readyQueue' = IF preempted THEN Enqueue(Dequeue(q), old) ELSE Dequeue(q)
      <4>1. get_next_ready_process(q) = {Head(q)}
        BY <3>2 DEF get_next_ready_process
      <4> QED
        BY <1>8, <2>4, <4>1 DEF ClockDispatch, KCSwitch
    <3> HIDE DEF q, preempted
    <3>4. preempted => q = readyQueue
      BY <2>2
    <3> QED
      BY <1>1, <2>1, <3>1, <3>2, <3>3, <3>4 DEF QueueStep
  <2> QED
    BY <2>3, <2>4
<1>9. CASE HandleClockTrap \/ KernelForkNoFrames \/ KernelWait \/ WaitSkip \/ WaitReap
           \/ KernelExit \/ ExitAdopt \/ UNCHANGED vars
  BY <1>2, <1>9 DEF HandleClockTrap, KernelForkNoFrames, KernelWait, WaitSkip, WaitReap,
                    KernelExit, ExitAdopt, vars, cpu, queues
<1> QED
  BY <1>4, <1>5, <1>6, <1>7, <1>8, <1>9 DEF Next, ClockStep, WaitStep, ExitStep, Syscall

\* Nobody who waits for the CPU is passed by those who came later, whatever the
\* clock preempts, Exit wakes, and Fork queues.
THEOREM NobodyOvertakes == Spec => NoOvertaking
<1> DEFINE Step ==
      \A b \in Pcb : \A a \in Overtakable(readyQueue, b) :
        \/ Precedes(readyQueue', a, b)
        \/ current_process' = a
        \/ /\ b \notin Members(readyQueue')
           /\ current_process' = b => UNCHANGED current_process
<1>1. IInv /\ [Next]_vars => Step
  <2> SUFFICES ASSUME IInv, [Next]_vars, NEW b \in Pcb, NEW a \in Overtakable(readyQueue, b),
                      current_process' # a
               PROVE  \/ Precedes(readyQueue', a, b)
                      \/ /\ b \notin Members(readyQueue')
                         /\ current_process' = b => UNCHANGED current_process
    OBVIOUS
  <2>1. PICK x \in Joining :
          \/ readyQueue' = Joined(x) /\ UNCHANGED current_process
          \/ /\ ~isEmpty(Joined(x)) /\ current_process' = Head(Joined(x))
             /\ \/ readyQueue' = Dequeue(Joined(x))
                \/ /\ current_process \in Pcb \ Members(Joined(x))
                   /\ readyQueue' = Enqueue(Dequeue(Joined(x)), current_process)
    BY NextQueueStep DEF QueueStep
  <2> DEFINE q == Joined(x)
  <2>2. q \in Seq(Pcb) /\ NoDuplicates(q) /\ a \in Overtakable(q, b)
    BY JoinedFacts
  <2> HIDE DEF q
  <2>3. CASE readyQueue' = q /\ UNCHANGED current_process
    BY <2>2, <2>3 DEF Overtakable
  <2>4. CASE /\ ~isEmpty(q) /\ current_process' = Head(q)
             /\ \/ readyQueue' = Dequeue(q)
                \/ /\ current_process \in Pcb \ Members(q)
                   /\ readyQueue' = Enqueue(Dequeue(q), current_process)
    <3>1. a \in Overtakable(Dequeue(q), b) /\ Head(q) # b
      BY <2>2, <2>4, DequeueKeepsOrder
    <3>2. Dequeue(q) \in Seq(Pcb) /\ Members(Dequeue(q)) \subseteq Members(q)
      BY <2>2, <2>4, DequeueFacts
    <3>3. ASSUME current_process \in Pcb \ Members(q)
          PROVE  a \in Overtakable(Enqueue(Dequeue(q), current_process), b)
      <4>1. current_process \in Pcb \ Members(Dequeue(q))
        BY <3>2, <3>3
      <4> QED
        BY <3>1, <3>2, <4>1, EnqueueKeepsOrder
    <3>4. a \in Overtakable(readyQueue', b)
      <4>1. CASE readyQueue' = Dequeue(q)
        BY <3>1, <4>1
      <4>2. CASE current_process \in Pcb \ Members(q)
                 /\ readyQueue' = Enqueue(Dequeue(q), current_process)
        BY <3>3, <4>2
      <4> QED
        BY <2>4, <4>1, <4>2
    <3> QED
      BY <2>4, <3>1, <3>4 DEF Overtakable
  <2> QED
    BY <2>1, <2>3, <2>4 DEF q
<1> QED
  BY <1>1, Invariance, PTL DEF Spec, NoOvertaking
-----------------------------------------------------------------------------
(* The family tree, when malloc returns no block that a list still leads   *)
(* to, whether it reuses freed blocks or not.                              *)

\* The steps that have nothing to do with the family.
Unrelated == HandleClockTrap \/ WakeSleeper \/ ClockDispatch \/ KernelDelay \/ WaitBlock

LEMMA UnrelatedFacts ==
  ASSUME Unrelated
  PROVE  /\ UNCHANGED <<heap, parent, first_child, next_sibling, child>>
         /\ kmode # "exit" /\ kmode' \notin {"wait", "exit"}
  BY DEF Unrelated, HandleClockTrap, WakeSleeper, ClockDispatch, KernelDelay, WaitBlock,
         YieldCpu, KCSwitch, InUserProgram, family

\* What malloc returns is nobody's process, and not init or idle.
LEMMA NewBlock ==
  ASSUME IInv, NoWildKin, NEW new \in Allocatable
  PROVE  /\ new \in Pcb \ Live /\ new # current_process
         /\ new \notin {init_process, idle_process}
  BY DEF Allocatable, NoWildKin, Live, IInv, Placement

\* If Fork makes a process of it, no list leads to it.
LEMMA NewBlockUnlinked ==
  ASSUME IInv, NoWildKin, UnlinkedReuse, NEW new \in Allocatable, heap'[new] = "live"
  PROVE  \A p \in Pcb : first_child[p] # new /\ next_sibling[p] # new
<1>1. new \in Pcb /\ heap[new] \in {"fresh", "freed"}
  BY DEF Allocatable
<1> QED
  BY <1>1 DEF UnlinkedReuse, Linked, NoWildKin

\* A process that is freed is neither init nor idle, nor the one that runs.
LEMMA FreedBlock ==
  ASSUME IInv, NoWildKin, WaitReap
  PROVE  /\ kmode = "wait"
         /\ child \in Live \ {init_process, idle_process, current_process}
<1>1. child \in Pcb /\ currState[child] = "ZOMBIE" /\ kmode = "wait"
  BY DEF WaitReap, IInv, TypeOK
<1>2. child \in Live \ {current_process}
  BY <1>1 DEF IInv, Placement
<1>3. child \notin {init_process, idle_process}
  BY DEF NoWildKin
<1> QED
  BY <1>1, <1>2, <1>3

\* As long as the lists are in order, it is a child of the one that runs.
LEMMA FreedChild ==
  ASSUME IInv, FamilyInv, WaitReap
  PROVE  parent[child] = current_process
<1>1. kmode = "wait" /\ child \in Live \ {init_process, idle_process} /\ NoWildKin
  BY FreedBlock DEF FamilyInv
<1>2. child # NULL /\ parent[child] # NULL
  BY <1>1 DEF NoWildKin, WaitReap
<1> QED
  BY <1>1, <1>2 DEF FamilyInv, ListOfOwner

LEMMA InitFamily == Init => FamilyInv
<1> SUFFICES ASSUME Init PROVE FamilyInv
  OBVIOUS
<1>1. NoWildKin
  BY DEF Init, NoWildKin, Live
<1>2. ListOfOwner
  BY DEF Init, ListOfOwner, Heads
<1>3. OneListEach /\ CursorFree
  <2>1. /\ \A p, q \in Pcb : first_child[p] # q /\ next_sibling[p] # q
        /\ kmode = "user"
    BY DEF Init
  <2> QED
    BY <2>1 DEF OneListEach, CursorFree, Heads
<1> QED
  BY <1>1, <1>2, <1>3 DEF FamilyInv

\* If the lists' links and cursor come from those there were, or lead to a block
\* just made, which is neither fresh any more nor init nor idle, there is still
\* no wild one.
LEMMA NoNewKin ==
  ASSUME IInv, NoWildKin, NEW new \in Pcb \cup {NULL},
         new # NULL => heap'[new] # "fresh" /\ new \notin {init_process, idle_process},
         {init_process, idle_process} \subseteq Live',
         \A q \in Pcb : heap'[q] = "fresh" => heap[q] = "fresh",
         \A p \in Live' \ {init_process, idle_process} : parent'[p] # NULL,
         NEW Links, Links = {new, child, NULL}
                            \cup {first_child[p] : p \in Pcb} \cup {next_sibling[p] : p \in Pcb},
         child' \in Links,
         \A p \in Pcb : first_child'[p] \in Links /\ next_sibling'[p] \in Links
  PROVE  NoWildKin'
<1>1. ASSUME NEW q \in Pcb, q \in {init_process, idle_process} \/ heap'[q] = "fresh"
      PROVE  q \notin Links
  BY <1>1 DEF NoWildKin
<1> QED
  BY <1>1 DEF NoWildKin

LEMMA NextNoWildKin ==
  ASSUME IInv, NoWildKin, Next
  PROVE  NoWildKin'
<1> DEFINE Links == {child, NULL} \cup {first_child[p] : p \in Pcb}
                    \cup {next_sibling[p] : p \in Pcb}
<1>1. /\ NoWildKin /\ current_process \in Pcb /\ init_process \in Pcb
      /\ heap \in [Pcb -> {"fresh", "live", "freed"}]
      /\ parent \in [Pcb -> Pcb \cup {NULL}]
      /\ first_child \in [Pcb -> Pcb \cup {NULL}]
      /\ next_sibling \in [Pcb -> Pcb \cup {NULL}]
      /\ child \in Pcb \cup {NULL}
  BY DEF IInv, TypeOK, Placement, Live
<1>2. /\ {init_process, idle_process} \subseteq Live
      /\ \A p \in Live \ {init_process, idle_process} : parent[p] # NULL
  BY <1>1 DEF NoWildKin
<1>3. CASE Unrelated
  BY <1>1, <1>3, UnrelatedFacts DEF NoWildKin, Live
<1>4. CASE KernelFork
  <2>1. PICK new \in Allocatable :
          /\ heap' = [heap EXCEPT ![new] = "live"]
          /\ parent' = [parent EXCEPT ![new] = current_process]
          /\ next_sibling' = [next_sibling EXCEPT ![new] = first_child[current_process]]
          /\ first_child' = [first_child EXCEPT ![current_process] = new, ![new] = NULL]
    BY <1>4 DEF KernelFork, spawn_proc
  <2>2. UNCHANGED child
    BY <1>4 DEF KernelFork, loop
  <2>3. new \in Pcb /\ new \notin {init_process, idle_process} /\ new # NULL
    BY <1>1, NewBlock
  <2>4. /\ Live' = Live \cup {new} /\ heap'[new] = "live"
        /\ \A q \in Pcb : heap'[q] = "fresh" => heap[q] = "fresh"
    BY <1>1, <2>1, <2>3 DEF Live
  <2>5. \A p \in Live' \ {init_process, idle_process} : parent'[p] # NULL
    BY <1>1, <1>2, <2>1, <2>4 DEF Live
  <2>6. child' \in Links /\ \A p \in Pcb : /\ first_child'[p] \in Links \cup {new}
                                           /\ next_sibling'[p] \in Links \cup {new}
    BY <1>1, <2>1, <2>2
  <2> DEFINE L == {new} \cup Links
  <2>7. L = {new, child, NULL} \cup {first_child[p] : p \in Pcb}
            \cup {next_sibling[p] : p \in Pcb}
    OBVIOUS
  <2>8. child' \in L /\ \A p \in Pcb : first_child'[p] \in L /\ next_sibling'[p] \in L
    BY <2>6
  <2>9. {init_process, idle_process} \subseteq Live'
    BY <1>2, <2>4
  <2> HIDE DEF L, Links
  <2> QED
    BY <1>1, <2>3, <2>4, <2>5, <2>7, <2>8, <2>9, NoNewKin
<1>5. ASSUME NEW p \in Pcb \ {init_process, idle_process}, free_proc(p),
             UNCHANGED child \/ child' = NULL
      PROVE  NoWildKin'
  BY <1>1, <1>5 DEF free_proc, NoWildKin, Live
<1>6. CASE KernelForkNoFrames
  <2>1. PICK new \in Allocatable : free_proc(new)
    BY <1>6 DEF KernelForkNoFrames
  <2> QED
    BY <1>1, <1>5, <1>6, <2>1, NewBlock DEF KernelForkNoFrames, loop
<1>7. CASE WaitReap
  BY <1>5, <1>7, FreedBlock DEF WaitReap, Live
<1>8. CASE KernelWait \/ WaitSkip \/ KernelExit \/ ExitAdopt \/ ExitFinish
  <2>1. /\ UNCHANGED heap /\ Live' = Live
        /\ \A p \in Pcb : parent'[p] = parent[p] \/ parent'[p] = init_process
    BY <1>1, <1>8 DEF KernelWait, WaitSkip, KernelExit, ExitAdopt, ExitFinish, family,
                      Reparented, Live
  <2>2. child' \in Links
    BY <1>1, <1>8 DEF KernelWait, WaitSkip, KernelExit, ExitAdopt, ExitFinish, NextChild
  <2>3. \A p \in Pcb : first_child'[p] \in Links /\ next_sibling'[p] \in Links
    BY <1>1, <1>8 DEF KernelWait, WaitSkip, KernelExit, ExitAdopt, ExitFinish, family
  <2>4. Links = {NULL, child, NULL} \cup {first_child[p] : p \in Pcb}
                \cup {next_sibling[p] : p \in Pcb}
    OBVIOUS
  <2>5. \A p \in Live' \ {init_process, idle_process} : parent'[p] # NULL
    BY <1>1, <1>2, <2>1 DEF Live
  <2> HIDE DEF Links
  <2> QED
    BY <1>1, <1>2, <2>1, <2>2, <2>3, <2>4, <2>5, NoNewKin
<1> QED
  BY <1>3, <1>4, <1>6, <1>7, <1>8
     DEF Unrelated, Next, ClockStep, WaitStep, ExitStep, Syscall

\* Once init has begun to exit, it never comes back.
LEMMA InitStaysGone ==
  ASSUME IInv, Next, init_process \in Live', InitGone
  PROVE  InitGone'
<1>1. init_process \in Live /\ (kmode = "exit" => current_process \in Live)
  BY DEF InitGone, IInv, Placement, Live
<1>2. CASE currState[init_process] = "ZOMBIE"
  <2>1. heap'[init_process] # "freed"
    BY DEF Live
  <2> QED
    BY <1>1, <1>2, <2>1, StateChanges DEF InitGone
<1>3. CASE kmode = "exit" /\ current_process = init_process
  <2>1. CASE ExitAdopt
    BY <1>3, <2>1 DEF ExitAdopt, InitGone, cpu
  <2>2. CASE ExitFinish
    BY <1>3, <2>2, ExitFacts DEF InitGone
  <2> QED
    BY <1>3, <2>1, <2>2
       DEF Next, ClockStep, WaitStep, ExitStep, Syscall, InUserProgram, HandleClockTrap,
           WakeSleeper, ClockDispatch, WaitSkip, WaitReap, WaitBlock, KernelFork,
           KernelForkNoFrames, KernelDelay, KernelWait, KernelExit
<1> QED
  BY <1>2, <1>3 DEF InitGone

\* A step that makes no link and turns nobody to another parent ...
LinksFade ==
  /\ \A p \in Pcb : /\ first_child'[p] \in {first_child[p], NULL}
                    /\ next_sibling'[p] \in {next_sibling[p], NULL}
  /\ \A p \in Heads' : p \in Heads \/ first_child'[p] = NULL
ParentsFade ==
  \A p \in Pcb : \/ parent'[p] = parent[p]
                 \/ parent'[p] = NULL /\ next_sibling'[p] = NULL

\* ... and minds the cursor ...
CursorKept ==
  /\ kmode' = "wait" /\ child' # NULL /\ parent'[child'] # NULL =>
       parent'[child'] = current_process'
  /\ CursorFree'

\* ... keeps everybody in one list, the owner's.
LEMMA FewerLinks ==
  ASSUME FamilyInv, InitGone => InitGone', LinksFade, ParentsFade, CursorKept
  PROVE  ListOfOwner' /\ OneListEach' /\ CursorFree'
<1>1. /\ Heads' \subseteq Pcb /\ NULL \notin Pcb /\ init_process \in Pcb
      /\ ListOfOwner /\ OneListEach
  BY DEF Heads, FamilyInv, NoWildKin, Live
<1>2. ListOfOwner'
  <2>1. \A p \in Heads', c \in Pcb :
          first_child'[p] = c /\ parent'[c] # NULL => parent'[c] = p
    BY <1>1 DEF ListOfOwner, LinksFade, ParentsFade
  <2>2. \A p, q \in Pcb :
          next_sibling'[p] = q /\ parent'[q] # NULL => parent'[p] = parent'[q]
    BY <1>1 DEF ListOfOwner, LinksFade, ParentsFade
  <2> QED
    BY <2>1, <2>2 DEF ListOfOwner, CursorKept
<1>3. ASSUME NEW q \in Pcb, NEW p \in Pcb, next_sibling'[p] = q
      PROVE  next_sibling[p] = q /\ (Disordered(p) => Disordered(p)')
  BY <1>1, <1>3 DEF LinksFade, ParentsFade, Disordered
<1>4. ASSUME NEW q \in Pcb, NEW p \in Heads', first_child'[p] = q
      PROVE  p \in Heads /\ first_child[p] = q
  BY <1>1, <1>4 DEF LinksFade
<1>5. OneListEach'
  BY <1>1, <1>3, <1>4 DEF OneListEach
<1> QED
  BY <1>2, <1>5 DEF CursorKept

\* Fork makes one link to a new process, and turns the one to the first child
\* into a link from that process.
LEMMA ForkFamily ==
  ASSUME IInv, FamilyInv, UnlinkedReuse, KernelFork, InitGone => InitGone'
  PROVE  ListOfOwner' /\ OneListEach' /\ CursorFree'
<1> DEFINE me == current_process
<1>1. /\ me \in Pcb /\ NULL \notin Pcb /\ kmode = "user" /\ kmode' = "user"
      /\ heap \in [Pcb -> {"fresh", "live", "freed"}]
      /\ parent \in [Pcb -> Pcb \cup {NULL}]
      /\ first_child \in [Pcb -> Pcb \cup {NULL}]
      /\ next_sibling \in [Pcb -> Pcb \cup {NULL}]
      /\ UNCHANGED <<me, child>>
      /\ NoWildKin /\ ListOfOwner /\ OneListEach
  BY DEF FamilyInv, IInv, TypeOK, Placement, Live, KernelFork, InUserProgram, loop
<1>2. Heads = Pcb /\ Heads' = Pcb
  BY <1>1 DEF Heads
<1>3. PICK new \in Allocatable :
        /\ heap' = [heap EXCEPT ![new] = "live"]
        /\ parent' = [parent EXCEPT ![new] = me]
        /\ next_sibling' = [next_sibling EXCEPT ![new] = first_child[me]]
        /\ first_child' = [first_child EXCEPT ![me] = new, ![new] = NULL]
  BY DEF KernelFork, spawn_proc
<1>4. /\ new \in Pcb /\ new # me
      /\ \A p \in Pcb : first_child[p] # new /\ next_sibling[p] # new
  <2>1. new \in Pcb /\ new # me
    BY <1>1, NewBlock
  <2>2. heap'[new] = "live"
    BY <1>1, <1>3, <2>1
  <2> QED
    BY <1>1, <2>1, <2>2, NewBlockUnlinked
<1>5. /\ parent'[new] = me /\ \A p \in Pcb \ {new} : parent'[p] = parent[p]
      /\ next_sibling'[new] = first_child[me]
      /\ \A p \in Pcb \ {new} : next_sibling'[p] = next_sibling[p]
      /\ first_child'[me] = new /\ first_child'[new] = NULL
      /\ \A p \in Pcb \ {me, new} : first_child'[p] = first_child[p]
  BY <1>1, <1>3, <1>4
<1>6. ListOfOwner'
  <2>1. ASSUME NEW p \in Pcb, NEW c \in Pcb, first_child'[p] = c, parent'[c] # NULL
        PROVE  parent'[c] = p
    BY <1>1, <1>2, <1>4, <1>5, <2>1 DEF ListOfOwner
  <2>2. ASSUME NEW p \in Pcb, NEW q \in Pcb, next_sibling'[p] = q, parent'[q] # NULL
        PROVE  parent'[p] = parent'[q]
    BY <1>1, <1>2, <1>4, <1>5, <2>2 DEF ListOfOwner
  <2> QED
    BY <1>1, <1>2, <2>1, <2>2 DEF ListOfOwner
<1>7. me = init_process => ~InitGone
  BY <1>1 DEF InitGone, IInv, Placement
<1>8. \A p \in Pcb \ {new} : Disordered(p) => Disordered(p)'
  BY <1>5 DEF Disordered
<1> HIDE DEF me
\* Nobody's sibling pointer leads to the first child of the caller.
<1>9. ASSUME NEW q \in Pcb, first_child[me] = q, NEW r \in Pcb, next_sibling[r] = q
      PROVE  FALSE
  BY <1>1, <1>2, <1>7, <1>9 DEF OneListEach, Disordered
<1>10. ASSUME NEW q \in Pcb
       PROVE  /\ \A p, r \in Pcb : next_sibling'[p] = q /\ next_sibling'[r] = q =>
                   p = r \/ (Disordered(p)' /\ Disordered(r)')
              /\ \A p, r \in Pcb : first_child'[p] = q /\ next_sibling'[r] = q =>
                   p = init_process /\ Disordered(r)'
              /\ \A p, r \in Pcb : first_child'[p] = q /\ first_child'[r] = q => p = r
  <2>1. CASE q = new
    BY <1>1, <1>4, <1>5, <2>1
  <2>2. CASE q # new
    <3>1. ASSUME NEW p \in Pcb, NEW r \in Pcb, next_sibling'[p] = q, next_sibling'[r] = q
          PROVE  p = r \/ (Disordered(p)' /\ Disordered(r)')
      <4>1. CASE p = new \/ r = new
        BY <1>5, <1>9, <3>1, <4>1
      <4>2. CASE p # new /\ r # new
        BY <1>5, <1>8, <3>1, <4>2, <1>1 DEF OneListEach
      <4> QED
        BY <4>1, <4>2
    <3>2. ASSUME NEW p \in Pcb, first_child'[p] = q
          PROVE  p # me /\ p # new /\ first_child[p] = q
      BY <1>1, <1>5, <2>2, <3>2
    <3>3. ASSUME NEW p \in Pcb, NEW r \in Pcb, first_child'[p] = q, next_sibling'[r] = q
          PROVE  p = init_process /\ Disordered(r)'
      <4>1. r # new
        BY <1>1, <1>2, <1>5, <3>2, <3>3 DEF OneListEach
      <4> QED
        BY <1>1, <1>2, <1>5, <1>8, <3>2, <3>3, <4>1 DEF OneListEach
    <3>4. ASSUME NEW p \in Pcb, NEW r \in Pcb, first_child'[p] = q, first_child'[r] = q
          PROVE  p = r
      BY <1>1, <1>2, <3>2, <3>4 DEF OneListEach
    <3> QED
      BY <3>1, <3>3, <3>4
  <2> QED
    BY <2>1, <2>2
<1>11. OneListEach'
  BY <1>1, <1>2, <1>10 DEF OneListEach
<1> QED
  BY <1>1, <1>6, <1>11 DEF CursorFree

\* Exit takes a child that only the list being emptied leads to, puts it in front
\* of init's list, and goes on to a child that nothing leads to any more.
LEMMA AdoptFamily ==
  ASSUME IInv, FamilyInv, ExitAdopt, InitGone => InitGone'
  PROVE  ListOfOwner' /\ OneListEach' /\ CursorFree'
<1> DEFINE me == current_process
           i == init_process
           c == child
<1>1. /\ me \in Pcb /\ i \in Pcb /\ NULL \notin Pcb /\ c \in Pcb
      /\ kmode = "exit" /\ kmode' = "exit" /\ UNCHANGED me
      /\ parent \in [Pcb -> Pcb \cup {NULL}]
      /\ first_child \in [Pcb -> Pcb \cup {NULL}]
      /\ next_sibling \in [Pcb -> Pcb \cup {NULL}]
      /\ NoWildKin /\ ListOfOwner /\ OneListEach
  BY DEF FamilyInv, IInv, TypeOK, Placement, Live, ExitAdopt, cpu
<1>2. /\ Heads = (Pcb \ {me}) \cup {i} /\ Heads' = Heads /\ i \in Heads
  BY <1>1 DEF Heads
<1>3. /\ parent'[c] = i /\ \A p \in Pcb \ {c} : parent'[p] = parent[p]
      /\ next_sibling'[c] = first_child[i]
      /\ \A p \in Pcb \ {c} : next_sibling'[p] = next_sibling[p]
      /\ first_child'[i] = c
      /\ \A p \in Pcb \ {i} : first_child'[p] = first_child[p]
      /\ child' = next_sibling[c]
  BY <1>1 DEF ExitAdopt, Reparented, NextChild
<1>4. /\ \A p \in Pcb : first_child[p] = c => p = me
      /\ \A p \in Pcb : next_sibling[p] = c => me = i /\ parent[p] = i
      /\ me # i => parent[c] # i
  BY <1>1 DEF FamilyInv, CursorFree
<1>5. /\ \A p \in Pcb : Disordered(p) => parent[p] = i /\ InitGone /\ Disordered(p)'
      /\ \A p \in Pcb : InitGone /\ parent'[p] = i => Disordered(p)'
      /\ me = i => InitGone
  BY <1>1, <1>3 DEF Disordered, InitGone
<1> HIDE DEF c, i, me
<1>6. ASSUME NEW p \in Heads, NEW d \in Pcb, first_child'[p] = d, parent'[d] # NULL
      PROVE  parent'[d] = p
  <2>1. CASE p = i
    BY <1>3, <1>6, <2>1
  <2>2. CASE p # i
    <3>1. p \in Pcb /\ p # me /\ first_child[p] = d /\ d # c
      BY <1>2, <1>3, <1>4, <1>6, <2>2
    <3> QED
      BY <1>1, <1>3, <1>6, <3>1 DEF ListOfOwner
  <2> QED
    BY <2>1, <2>2
<1>7. ASSUME NEW p \in Pcb, NEW q \in Pcb, next_sibling'[p] = q, parent'[q] # NULL
      PROVE  parent'[p] = parent'[q]
  <2>1. CASE p = c
    BY <1>1, <1>2, <1>3, <1>7, <2>1 DEF ListOfOwner
  <2>2. CASE p # c /\ q = c
    BY <1>3, <1>4, <1>7, <2>2
  <2>3. CASE p # c /\ q # c
    BY <1>1, <1>3, <1>7, <2>3 DEF ListOfOwner
  <2> QED
    BY <2>1, <2>2, <2>3
<1>8. ListOfOwner'
  BY <1>1, <1>2, <1>6, <1>7 DEF ListOfOwner
<1>9. ASSUME NEW q \in Pcb, NEW p \in Pcb, NEW r \in Pcb,
             next_sibling'[p] = q, next_sibling'[r] = q, p # r
      PROVE  Disordered(p)'
  <2>1. CASE p = c
    <3>1. first_child[i] = q /\ next_sibling[r] = q
      BY <1>3, <1>9, <2>1
    <3> QED
      BY <1>1, <1>2, <1>3, <1>5, <2>1, <3>1 DEF OneListEach
  <2>2. CASE r = c
    <3>1. first_child[i] = q /\ next_sibling[p] = q
      BY <1>3, <1>9, <2>2
    <3> QED
      BY <1>1, <1>2, <1>5, <3>1 DEF OneListEach
  <2>3. CASE p # c /\ r # c
    BY <1>1, <1>3, <1>5, <1>9, <2>3 DEF OneListEach
  <2> QED
    BY <2>1, <2>2, <2>3
<1>10. ASSUME NEW q \in Pcb, NEW p \in Heads, p # i, first_child'[p] = q
       PROVE  p \in Pcb /\ p # me /\ first_child[p] = q /\ q # c
  BY <1>2, <1>3, <1>4, <1>10
<1>11. ASSUME NEW q \in Pcb, NEW p \in Heads, NEW r \in Pcb,
              first_child'[p] = q, next_sibling'[r] = q
       PROVE  p = i /\ Disordered(r)'
  <2>1. CASE p = i
    BY <1>1, <1>3, <1>4, <1>5, <1>11, <2>1
  <2>2. CASE p # i
    <3>1. CASE r = c
      BY <1>1, <1>2, <1>3, <1>10, <1>11, <2>2, <3>1 DEF OneListEach
    <3>2. CASE r # c
      BY <1>1, <1>3, <1>10, <1>11, <2>2, <3>2 DEF OneListEach, i
    <3> QED
      BY <3>1, <3>2
  <2> QED
    BY <2>1, <2>2
<1>12. ASSUME NEW q \in Pcb, NEW p \in Heads, NEW r \in Heads,
              first_child'[p] = q, first_child'[r] = q
       PROVE  p = r
  <2>1. CASE p # i /\ r # i
    BY <1>1, <1>10, <1>12, <2>1 DEF OneListEach
  <2>2. CASE p = i \/ r = i
    BY <1>3, <1>10, <1>12, <2>2
  <2> QED
    BY <2>1, <2>2
<1>13. OneListEach'
  BY <1>1, <1>2, <1>9, <1>11, <1>12 DEF OneListEach, i
<1>14. ASSUME NEW e \in Pcb, next_sibling[c] = e
       PROVE  /\ \A p \in Pcb : first_child'[p] = e => p = me
              /\ \A p \in Pcb : next_sibling'[p] = e => me = i /\ parent'[p] = i
              /\ me # i => parent'[e] # i
  <2>1. e = c => me = i
    BY <1>1, <1>4, <1>14
  <2>2. ASSUME NEW p \in Pcb, first_child'[p] = e
        PROVE  p = me
    <3>1. CASE p = i
      BY <1>3, <2>1, <2>2, <3>1
    <3>2. CASE p # i
      BY <1>1, <1>2, <1>3, <1>14, <2>2, <3>2 DEF OneListEach, i
    <3> QED
      BY <3>1, <3>2
  <2>3. ASSUME NEW p \in Pcb, next_sibling'[p] = e
        PROVE  me = i /\ parent'[p] = i
    <3>1. CASE p = c
      <4>1. Disordered(c)
        BY <1>1, <1>2, <1>3, <1>14, <2>3, <3>1 DEF OneListEach
      <4> QED
        BY <1>1, <1>3, <1>4, <1>5, <3>1, <4>1
    <3>2. CASE p # c
      <4>1. Disordered(c) /\ Disordered(p)
        BY <1>1, <1>3, <1>14, <2>3, <3>2 DEF OneListEach
      <4> QED
        BY <1>1, <1>3, <1>4, <1>5, <3>2, <4>1
    <3> QED
      BY <3>1, <3>2
  <2>4. ASSUME me # i PROVE parent'[e] # i
    BY <1>1, <1>3, <1>4, <1>14, <2>1, <2>4 DEF ListOfOwner
  <2> QED
    BY <2>2, <2>3, <2>4
<1>15. CursorFree'
  <2>1. child' \in Pcb \cup {NULL}
    BY <1>1, <1>3
  <2> QED
    BY <1>1, <1>3, <1>14, <2>1 DEF CursorFree, me, i
<1> QED
  BY <1>8, <1>13, <1>15

LEMMA NextFamily ==
  ASSUME IInv, FamilyInv, Next, UnlinkedReuse
  PROVE  FamilyInv'
<1>1. NoWildKin'
  BY NextNoWildKin DEF FamilyInv
<1> SUFFICES ListOfOwner' /\ OneListEach' /\ CursorFree'
  BY <1>1 DEF FamilyInv
<1>2. InitGone => InitGone'
  BY <1>1, InitStaysGone DEF NoWildKin
<1>3. /\ current_process \in Pcb /\ NULL \notin Pcb
      /\ parent \in [Pcb -> Pcb \cup {NULL}]
      /\ first_child \in [Pcb -> Pcb \cup {NULL}]
      /\ next_sibling \in [Pcb -> Pcb \cup {NULL}]
      /\ child \in Pcb \cup {NULL}
      /\ NoWildKin /\ ListOfOwner /\ OneListEach
      /\ kmode # "exit" => Heads = Pcb
  BY DEF FamilyInv, IInv, TypeOK, Placement, Live, Heads
<1>4. CASE Unrelated
  <2>1. /\ UNCHANGED <<parent, first_child, next_sibling, child>>
        /\ kmode # "exit" /\ kmode' \notin {"wait", "exit"}
    BY <1>4, UnrelatedFacts
  <2>2. LinksFade /\ ParentsFade /\ CursorKept
    BY <1>3, <2>1 DEF LinksFade, ParentsFade, CursorKept, CursorFree, Heads
  <2> QED
    BY <1>2, <2>2, FewerLinks
<1>5. ASSUME NEW p \in Pcb, free_proc(p), kmode # "exit", kmode' = "user"
      PROVE  ListOfOwner' /\ OneListEach' /\ CursorFree'
  <2>1. /\ parent'[p] = NULL /\ first_child'[p] = NULL /\ next_sibling'[p] = NULL
        /\ \A r \in Pcb \ {p} : /\ parent'[r] = parent[r]
                                /\ first_child'[r] = first_child[r]
                                /\ next_sibling'[r] = next_sibling[r]
    BY <1>3, <1>5 DEF free_proc
  <2>2. LinksFade
    BY <1>3, <1>5, <2>1 DEF LinksFade, Heads
  <2>3. ParentsFade
    BY <2>1 DEF ParentsFade
  <2>4. CursorKept
    BY <1>5 DEF CursorKept, CursorFree
  <2> QED
    BY <1>2, <2>2, <2>3, <2>4, FewerLinks
<1>6. CASE KernelForkNoFrames
  <2>1. PICK new \in Allocatable : free_proc(new)
    BY <1>6 DEF KernelForkNoFrames
  <2>2. kmode # "exit" /\ kmode' = "user" /\ UNCHANGED child
    BY <1>6 DEF KernelForkNoFrames, InUserProgram, loop
  <2> QED
    BY <1>3, <1>5, <2>1, <2>2, NewBlock
<1>7. CASE WaitReap
  <2>1. kmode # "exit" /\ kmode' = "user" /\ free_proc(child)
    BY <1>7 DEF WaitReap
  <2> QED
    BY <1>3, <1>5, <1>7, <2>1, FreedBlock DEF Live
<1>8. CASE KernelFork
  BY <1>2, <1>8, ForkFamily
<1>9. CASE KernelWait \/ WaitSkip
  <2>1. /\ UNCHANGED <<parent, first_child, next_sibling, current_process>>
        /\ kmode # "exit" /\ kmode' = "wait"
        /\ \/ child' = first_child[current_process]
           \/ kmode = "wait" /\ child # NULL /\ child' = next_sibling[child]
    BY <1>9 DEF KernelWait, WaitSkip, InUserProgram, family, cpu
  <2>2. child' # NULL /\ parent'[child'] # NULL => parent'[child'] = current_process'
    BY <1>3, <2>1 DEF ListOfOwner
  <2>3. LinksFade /\ ParentsFade
    BY <1>3, <2>1 DEF LinksFade, ParentsFade, Heads
  <2>4. CursorKept
    BY <2>1, <2>2 DEF CursorKept, CursorFree
  <2> QED
    BY <1>2, <2>3, <2>4, FewerLinks
<1>10. CASE KernelExit
  <2>1. /\ UNCHANGED <<parent, first_child, next_sibling, current_process>>
        /\ kmode # "exit" /\ kmode' = "exit" /\ child' = first_child[current_process]
    BY <1>10 DEF KernelExit, InUserProgram, family, cpu
  <2>2. ASSUME child' # NULL
        PROVE  /\ child' \in Pcb
               /\ \A p \in Pcb : first_child[p] = child' => p = current_process
               /\ \A p \in Pcb : next_sibling[p] = child' =>
                    current_process = init_process /\ parent[p] = init_process
               /\ parent[child'] # NULL => parent[child'] = current_process
    BY <1>3, <2>1, <2>2 DEF OneListEach, ListOfOwner, Disordered
  <2>3. LinksFade /\ ParentsFade
    BY <1>3, <2>1 DEF LinksFade, ParentsFade, Heads
  <2>4. CursorKept
    BY <1>3, <2>1, <2>2 DEF CursorKept, CursorFree
  <2> QED
    BY <1>2, <2>3, <2>4, FewerLinks
<1>11. CASE ExitAdopt
  BY <1>2, <1>11, AdoptFamily
<1>12. CASE ExitFinish
  <2>1. /\ UNCHANGED <<parent, next_sibling, child>>
        /\ first_child' = [first_child EXCEPT ![current_process] = NULL]
    BY <1>12 DEF ExitFinish
  <2>2. kmode = "exit" /\ kmode' \notin {"wait", "exit"}
    BY <1>12 DEF ExitFinish, YieldCpu, KCSwitch
  <2>3. \A p \in Heads' : p \in Heads \/ first_child'[p] = NULL
    BY <1>3, <2>1 DEF Heads
  <2>4. LinksFade
    BY <1>3, <2>1, <2>3 DEF LinksFade
  <2>5. ParentsFade /\ CursorKept
    BY <2>1, <2>2 DEF ParentsFade, CursorKept, CursorFree
  <2> QED
    BY <1>2, <2>4, <2>5, FewerLinks
<1> QED
  BY <1>4, <1>6, <1>7, <1>8, <1>9, <1>10, <1>11, <1>12
     DEF Unrelated, Next, ClockStep, WaitStep, ExitStep, Syscall

\* Whatever block malloc returns, no list ever leads to init or idle or to a block
\* that was never handed out, neither of the two is reaped, and every other process
\* has a parent, be it one that is dead.
THEOREM NobodyReapsInit == Spec => []NoWildKin
<1>1. Init => NoWildKin
  BY InitFamily DEF FamilyInv
<1>2. IInv /\ NoWildKin /\ [Next]_vars => NoWildKin'
  <2>1. IInv /\ NoWildKin /\ UNCHANGED vars => NoWildKin'
    BY DEF vars, family, cpu, loop, NoWildKin, Live
  <2> QED
    BY <2>1, NextNoWildKin
<1> QED
  BY <1>1, <1>2, Invariance, PTL DEF Spec

\* As long as malloc returns no block that a list still leads to, every process
\* is in the list of its parent, there once, whatever Fork, Wait and Exit relink.
LEMMA FamilyInvariance == FamilySpec => []IInv /\ []FamilyInv
<1>1. IInv /\ FamilyInv /\ [Next /\ UnlinkedReuse]_vars => FamilyInv'
  <2> SUFFICES ASSUME IInv, FamilyInv, [Next /\ UnlinkedReuse]_vars PROVE FamilyInv'
    OBVIOUS
  <2>1. CASE UNCHANGED vars
    BY <2>1 DEF vars, family, cpu, loop, FamilyInv, NoWildKin, ListOfOwner, OneListEach,
                CursorFree, Heads, Disordered, InitGone, Live
  <2>2. CASE Next /\ UnlinkedReuse
    BY <2>2, NextFamily
  <2> QED
    BY <2>1, <2>2
<1>2. [Next /\ UnlinkedReuse]_vars => [Next]_vars
  OBVIOUS
<1> QED
  BY <1>1, <1>2, InitFamily, Invariance, PTL DEF FamilySpec, Spec

\* If malloc returns no freed block at all, that is the whole specification.
LEMMA NoReuseIsUnlinked == ASSUME ReuseFreed = FALSE PROVE Spec => FamilySpec
<1>1. IInv /\ Next => UnlinkedReuse
  <2> SUFFICES ASSUME IInv, Next, NEW q \in Pcb, heap[q] = "freed"
               PROVE  heap'[q] # "live"
    BY DEF UnlinkedReuse
  <2>1. heap \in [Pcb -> {"fresh", "live", "freed"}]
    BY DEF IInv, TypeOK
  <2>2. CASE KernelFork \/ KernelForkNoFrames
    <3>1. PICK new \in Allocatable : \E how \in {"live", "freed"} :
            heap' = [heap EXCEPT ![new] = how]
      BY <2>2 DEF KernelFork, KernelForkNoFrames, spawn_proc, free_proc
    <3>2. new # q
      BY DEF Allocatable
    <3> QED
      BY <2>1, <3>1, <3>2
  <2>3. CASE WaitReap
    <3>1. heap' = [heap EXCEPT ![child] = "freed"]
      BY <2>3 DEF WaitReap, free_proc
    <3> QED
      BY <2>1, <3>1
  <2>4. CASE UNCHANGED heap
    BY <2>1, <2>4
  <2> QED
    BY <2>2, <2>3, <2>4, UnrelatedFacts
       DEF Unrelated, Next, ClockStep, WaitStep, ExitStep, Syscall, KernelWait, WaitSkip,
           KernelExit, ExitAdopt, ExitFinish
<1>2. IInv /\ [Next]_vars => [Next /\ UnlinkedReuse]_vars
  BY <1>1
<1> QED
  BY <1>2, Invariance, PTL DEF Spec, FamilySpec

\* The list of a process holds its own children and nobody else's, as long as no
\* block is handed out that a list still leads to; reuse of any other is free.
THEOREM FamilyTree == FamilySpec => []Family
<1>1. FamilyInv => Family
  <2> SUFFICES ASSUME FamilyInv PROVE Family
    OBVIOUS
  <2>1. ASSUME NEW p \in Live, first_child[p] \in Live,
               ~(kmode = "exit" /\ p = current_process)
        PROVE  parent[first_child[p]] = p
    <3>1. p \in Heads /\ first_child[p] \in Live \ {init_process, idle_process}
      BY <2>1 DEF Heads, FamilyInv, NoWildKin, Live
    <3> QED
      BY <3>1 DEF FamilyInv, NoWildKin, ListOfOwner, Live
  <2>2. ASSUME NEW p \in Live, NEW q \in Live, next_sibling[p] = q
        PROVE  parent[p] = parent[q]
    <3>1. q \notin {init_process, idle_process}
      BY <2>2 DEF FamilyInv, NoWildKin, Live
    <3> QED
      BY <2>2, <3>1 DEF FamilyInv, NoWildKin, ListOfOwner, Live
  <2> QED
    BY <2>1, <2>2 DEF Family
<1> QED
  BY <1>1, FamilyInvariance, PTL

\* Nobody but its parent ever reaps a process.
THEOREM OnlyParentsReap == FamilySpec => ReapsOwnChild
<1> DEFINE Step == \A p \in Live : heap'[p] = "freed" => parent[p] = current_process
<1>1. IInv /\ FamilyInv /\ [Next]_vars => Step
  <2> SUFFICES ASSUME IInv, FamilyInv, [Next]_vars, NEW p \in Live, heap'[p] = "freed"
               PROVE  parent[p] = current_process
    OBVIOUS
  <2>1. heap[p] = "live" /\ p \in Pcb /\ heap \in [Pcb -> {"fresh", "live", "freed"}]
    BY DEF Live, IInv, TypeOK
  <2>2. CASE WaitReap
    <3>1. heap' = [heap EXCEPT ![child] = "freed"]
      BY <2>2 DEF WaitReap, free_proc
    <3> QED
      BY <2>1, <2>2, <3>1, FreedBlock, FreedChild DEF FamilyInv
  <2>3. CASE KernelForkNoFrames \/ KernelFork
    <3>1. PICK new \in Allocatable : heap'= [heap EXCEPT ![new] = "freed"]
                                     \/ heap' = [heap EXCEPT ![new] = "live"]
      BY <2>3 DEF KernelForkNoFrames, KernelFork, free_proc, spawn_proc
    <3>2. new \in Pcb /\ heap[new] # "live"
      BY DEF Allocatable
    <3> QED
      BY <2>1, <3>1, <3>2
  <2>4. CASE UNCHANGED heap
    BY <2>1, <2>4
  <2> QED
    BY <2>2, <2>3, <2>4, UnrelatedFacts
       DEF Unrelated, Next, ClockStep, WaitStep, ExitStep, Syscall, KernelWait, WaitSkip,
           KernelExit, ExitAdopt, ExitFinish, vars
<1> QED
  <2>1. [Next /\ UnlinkedReuse]_vars => [Next]_vars
    OBVIOUS
  <2> QED
    BY <1>1, <2>1, FamilyInvariance, PTL DEF FamilySpec, ReapsOwnChild
=============================================================================
