# A TLA+ verification of the Vector Dos Yalnix kernel

The repository holds a teaching kernel in C for the simulated Yalnix machine:
one CPU, two regions of paged virtual memory, four terminals, a clock. This
directory holds a model of it in TLA+, the TLC configurations that check the
model on small instances, and proofs, checked by TLAPS, of what holds for every
instance. Source paths below are relative to `src/src/`.

Run a check with `tlc -config <run>.cfg <MC module>` and a proof with
`tlapm <module>.tla`. `PROJECT.json` lists the runs, the source lines behind
every definition, a mutant for every checked property (a plausible bug in the
code that TLC then finds), the hazards and the findings.

## 1. Inventory

| Component | State | Operations | Status |
|---|---|---|---|
| Processes and scheduler (`process.c`, `syscalls.c`, `trap.c`) | PCBs: state, wake tick, parent, first child, next sibling, saved kernel context; `current_process`; `readyQueue`, `sleepQueue`; `current_tick` | Fork, Exit, Wait, Delay, clock trap, `KCSwitch`, `KCCopy`, `spawn_proc`, `free_proc` | modelled: `Scheduler` |
| Queue (`Queue.c`, and the loop in `trap.c` that unlinks by hand) | linked nodes, head, tail, size | Enqueue, Dequeue, `remove_data`, the clock handler's splice | modelled: `Queue`, `LinkedQueue` |
| Frames and region 1 tables (`memory.c`, `process.c`, `syscalls.c`, `trap.c`) | `track_global`, one page table per process, kernel stack frames, the heap and stack limits | `find_frame`, Fork's copy and rollback, Brk, the memory trap, what Exit keeps and Wait frees | modelled: `Memory`, over the abstract `FrameTable` |
| LoadProgram and Exec (`template.c`, `syscalls.c`) | an address space, half replaced | Exec, LoadProgram with its error returns | modelled but for init's uninitialised table: `Memory` |
| Kernel heap and region 0 (`kernelbrk.c`, `re0sp.c`, `kernelstart.c`) | `current_kernel_brk`, region 0 table, `vm_enabled` | `SetKernelBrk` before and after virtual memory is on, `SetupRegion0`, the page for copies, the stack pages of `KCSwitch` | modelled: `KernelHeap`, over `FrameTable` |
| Boot (`kernelstart.c`, `idle.c`, `init.c`, `re1sp.c`) | all of it | `KernelStart` | its first half are steps of `KernelHeap`, the rest is the `Init` of `Scheduler`, `Memory` and `Terminal`; not modelled without a program to run, and with init's uninitialised table |
| Terminals (`terminal.c`, `syscalls.c`, `trap.c`) | per terminal: the waiting process, messages | TtyRead, TtyWrite, receive and transmit traps | modelled: `Terminal` |
| Trap dispatch, illegal and math traps (`trap.c`) | none beyond the saved user context | choose the call; `abort()` has an empty body | modelled: the choice is `Next`, the faults are in `Memory` |
| Pipes, locks, condition variables, sectors (`syscalls.c`) | none: the calls return a constant | | not modelled |
| User programs, Makefile, the machine's framework | | | not modelled; a program may make any call at any time |

How they interact. Every trap enters `HandleKernelTrap`, `HandleClockTrap` or
one of the fault and terminal handlers with the CPU's user context. The
handlers share the two queues and the PCBs; Fork and Exec also the frames;
`SetKernelBrk` is called by `malloc` and takes frames from the same table.
`KCSwitch` and `KCCopy` are callbacks of the machine's `KernelContextSwitch`:
a handler that calls it goes on later, when its process gets the CPU back.

What is hard here:

* **State written in two places.** A process's `currState` and the queue that
  holds it are changed separately by Exit, Wait, Delay and the clock trap, in a
  different order in each. Nothing checks that they agree.
* **Loops over what they change.** The clock handler unlinks nodes from the
  sleep queue it walks; Exit moves the children it walks to another list; Wait
  frees a node and leaves the pointers to it.
* **Context switches in the middle of handlers**, with a saved context per PCB
  and PCBs that are freed and handed out again by `malloc`.
* **Running out.** `find_frame` can fail at every page of Fork, Exec and Brk,
  each of which has a rollback of its own, or none; `Enqueue` can fail without
  telling its caller.
* **Two kinds of page number.** `user_heap_brk` and `user_stack_ptr` hold
  offsets in region 1 after LoadProgram and addresses after Brk or a fault.
* **A counter that wraps**, `current_tick`, compared with sums that wrap.

What makes each component correct:

* scheduler: every process in the queue its state names and in no other, a
  ready queue that is not empty when its head is taken, contexts that resume
  where they were saved, round robin without overtaking, every ready process
  runs, every sleeper is woken, and for a reason, zombies stay dead until their
  parent reaps them;
* queue: a well formed list after every step of every loop, doing what a FIFO
  sequence with removal does;
* memory: a frame has one holder, a held frame is never free, no error path
  loses or doubles a frame, heap and stack do not meet, limits and tables agree;
* kernel heap: what lies below the break is mapped, to frames of the heap's own;
  the stack pages are those of the process that runs;
* terminals: what is written is transmitted whole; a terminal has somebody
  waiting only while it transmits; a typed line is read, once.

## 2. Modules

| Module | What it is |
|---|---|
| `Queue` | the queue as a sequence: `Enqueue`, `Dequeue`, `remove_data`, `UnlinkAt` |
| `Scheduler` | processes, scheduler, clock, family tree |
| `SchedulerProperties` | its properties and inductive invariant, the mapping to `Lifecycle` |
| `Lifecycle` | abstract: one CPU, and processes that are created, wait, run, sleep, die and are collected |
| `LinkedQueue` | `Queue.c` node by node, with its properties; shown to do what `Queue` says |
| `FrameTable` | abstract: frames are free or somebody's, and pass from one holder to another by way of the free ones; with the theorem that holders are exclusive |
| `Memory` | frames, region 1 tables, kernel stacks; Fork, Exec, Wait, Brk, memory trap |
| `MemoryProperties` | its properties, its inductive invariant, the mapping to `FrameTable` |
| `KernelHeap`, `KernelHeapProperties` | region 0, `SetKernelBrk`, and the frames the heap and the processes take from each other |
| `Terminal`, `TerminalProperties` | the terminal calls and traps over `t_array`, with the hardware behind them |
| `QueueFacts` | lemmas about the queue operators |
| `SchedulerProofs` | the inductive invariant of `Scheduler` and what follows from it |
| `SchedulerStepProofs` | theorems on top of it: saved contexts, zombies, sleepers, the wake-up loop, the life cycle, round robin, the family tree |
| `LinkedQueueProofs`, `MemoryProofs`, `KernelHeapProofs`, `TerminalProofs` | the proofs about the module of that name |
| `MCScheduler`, `MCLinkedQueue`, `MCMemory`, `MCKernelHeap`, `MCTerminal` | symmetry sets and small inputs for TLC |

### Scheduler

The kernel runs with interrupts off on one CPU, so a handler is atomic unless
it loops over a structure; then each iteration is a step, `kmode` names the
loop (`wake` in the clock handler, `wait` and `exit` in the calls), `node` or
`child` is its cursor, and nothing else is enabled. So the properties look at
every state between two iterations too.

| Code | TLA+ |
|---|---|
| fields of `PCB` | functions from `Pcb`; `kctx[p]` is the call whose context `p` resumes |
| `malloc` and `free` of a PCB | `heap`: `fresh`, `live`, `freed`; `ReuseFreed` says whether `malloc` may return a freed block. A pointer that was kept stays the name of the block |
| `KCSwitch`, `KCCopy` | `KCSwitch`, `KCCopy`, parts of the actions that call them |
| `HandleClockTrap` | `HandleClockTrap`, then `WakeSleeper` per node, then `ClockDispatch` |
| `KernelFork`, and its error returns | `KernelFork`, `KernelForkNoFrames` |
| `KernelWait` | `KernelWait`, then `WaitSkip` per child, then `WaitReap` or `WaitBlock` |
| `KernelExit` | `KernelExit`, then `ExitAdopt` per child, then `ExitFinish` |
| `KernelDelay` | `KernelDelay` |
| `get_next_ready_process` without a return value | `{NULL, Wild}`: any register; a switch to `Wild` is `kmode = "wild"` |

Calls that change nothing (GetPid, Delay of 0 or less, Wait without children)
are stutters. `first_child` and `next_sibling` of a freed PCB read as `NULL`:
`memset` clears the block before `free`, whose own links overwrite its first
words, which hold the kernel stack frames; that the rest stays clear until the
block is a PCB again is an assumption on the allocator. `Enqueue` is assumed to
get its node; `LinkedQueue` has the failing case.

### Memory

Which process runs is left open here: between two calls it is any live one but
idle, and Wait may reap any zombie that Fork made; `Scheduler` says which. Fork,
Exec and Brk take a step per page that changes, so that each can find the frames
exhausted at any page. Addresses are page numbers, in both of the kinds the
code uses.

| Code | TLA+ |
|---|---|
| `track_global`, `find_frame` | `used`, `find_frame(used)`: the first frame not in use |
| region 1 tables, valid entries only | `pt[p][v]`, `NULL` where invalid |
| `KernelFork` | `KernelFork` (with `spawn_proc`), `ForkCopy` per page, `ForkDone` or `ForkNoFrame` |
| `create_sframes` failing | `KernelForkNoStack` |
| `KernelExec`, `LoadProgram` | `KernelExec` or `KernelExecRefused`, `LoadPage` per page, `LoadDone`, `LoadNoFrame` or `LoadReadFails` |
| `KernelBrk` | `KernelBrkGrow`, `BrkPage` per page, `BrkDone` or `BrkNoFrame`; `KernelBrkShrink` |
| `HandleMemoryTrap`, `HandleIllegalTrap`, `HandleMathTrap`, `abort` | the same names |
| `free_proc`, `KernelWait` | `free_proc`, `KernelWait` |

`pstate` is what the memory part needs of a process's state. A process in a
fault becomes `stuck`: neither the memory trap's loop nor the empty `abort()`
changes what made the instruction fault, so it faults again for ever. `ruined` are the
processes whose image is gone and not replaced; they may still make calls,
as they do while the TLB holds their old pages. Two modes end the model
where the code begins to write over what it does not own: `overrun`, the memory
trap's loop beyond the page table, and `astray`, when `rollback_frames`, which
takes a count for the number of the last frame, frees frames that are not the
child's. `NoOverrun` says that the first is not reached. The second takes a
program with more pages than the number of the first free frame: the instance of
`memory` has none, that of `rollback_astray` has, and shows what comes of it.
`FrameIsolation` and `ImplementsFrameTable` promise nothing after it.

`FrameTable` is what both modules with frames implement: a frame is free or has
one holder, and only what was free is gained. `Memory` maps the frames of a
process's pages and kernel stack to what the process holds, `KernelHeap` has the
heap as one more holder, which may drop a frame (see below).

### KernelHeap

A break is an address, of which a page has `PAGESIZE`. The kernel is not
interrupted, so a call of `SetKernelBrk` runs alone; growth takes a step per page
so that it can run out of frames at each. Around it, any process that is not in
the way does what the rest of the kernel does with frames and with region 0.

| Code | TLA+ |
|---|---|
| `init_frames` | `Reserved` |
| `SetKernelBrk`, `vm_enabled == FALSE` | `SetKernelBrkAtBoot` |
| `SetKernelBrk`, growing | `SetKernelBrkGrow`, `GrowPage` per page, `GrowDone` or `GrowNoFrame` |
| `SetKernelBrk`, shrinking or within a page | `SetKernelBrkShrink` |
| `SetupRegion0`, and `KernelStart` up to its own `SetKernelBrk` | `EnableVM` |
| `idle_proc_create` | `idle_proc_create` |
| `create_sframes`, `free_sframes`, `KCSwitch`, `KCCopy`, `data_copy` | the same names; `create_sframesFails` |
| pages of processes that come and go | `LoadUserPage`, `FreeUserPage` |
| `malloc` | chooses the break; `heap_end` is what it was granted last |

A request that `SetKernelBrk` refuses changes nothing and is a stutter. What
`init_frames` reserves for the copies is the frame with the number of page
`holdvpn`, the page below the stack; the page itself is in the range that
`SetKernelBrk` lets the heap have. So a copy takes the last page of a full heap
away: `HeapBelowBreakMapped` and `FramesLostOnlyByCopies` name that page and
copy as the only exceptions.

### Terminal

The four handlers are not interrupted and do not give up the CPU (`TtyWrite`
never blocks, whatever the comment on the transmit trap says), so each is an
action. A process is known by the heap block of its PCB, which
`waiting_process` points to, and by its pid. Buffers of the kernel heap are
counted: each line the receive trap takes costs one for good, and a long
`TtyWrite` needs one for the time of the call. `messages` says of each buffer of a
terminal what is in it: a line, `CLEARED`, or `NULL` for a buffer that `malloc`
refused; no program sees it, since TtyRead asks the hardware.

| Code | TLA+ |
|---|---|
| `TerminalSetup` | `Init` |
| `KernelTtyWrite` | `KernelTtyWrite`, cut into `Pieces`; `KernelTtyWriteNoBuffer`; a refusal is a stutter |
| `KernelTtyRead` | `KernelTtyRead`; without a line a stutter |
| `HandleTransmitTrap`, `HandleReceiveTrap` | the same names; `Stored` is what becomes of a line, `Overwrite` where it is put |
| `spawn_proc`, Exit, `free_proc` | what they do to the blocks and pids |

The hardware is not in the repository. It is assumed to copy what `TtyTransmit`
is given, to finish transmissions in the order they began with a trap for each,
and to hold typed lines until `TtyReceive` takes them one at a time; a reader's
buffer is assumed long enough for a line.

## 3. Runs

| Run | Instance | Checks |
|---|---|---|
| `sched_safety` | 4 PCBs, two of them freed and reused; ticks modulo 3, delays 1 and 2; about 1 million states | `TypeOK`, `Placement`, `NoWildJump`, `NoSleeperSkipped`, `SavedContexts`, `DeadStayDead`, `SleepersWakeForAReason`, `NoOvertaking` |
| `sched_live` | 4 PCBs, two of them freed and reused as soon as no list leads to them; two ticks, delay 1, no symmetry; specification `FairFamilySpec` | `Family`, `ReapsOwnChild`, `ReadyRuns`, `SleeperWakes`, `TrapsReturn`; `Scheduler` implements `Lifecycle` |
| `linked_queue` | 4 nodes, 3 items | `WellFormed`, `CursorsInList`, `OperationsMeetQueue`, `NodesLostOnlyBySweep` |
| `memory` | 3 PCBs, 6 pages, 9 frames beyond the reserved ones, a small and a large program | `TypeOK`, `FrameIsolation`, `FramesLostOnlyByFork`, `NoOverrun`, `GuardPage`, `HeapMapped`; `Memory` implements `FrameTable` |
| `kernel_heap` | 2 processes, 8 pages of two units, 4 of them for the heap, 11 frames | `TypeOK`, `RegionZeroIsolated`, `StackIsCurrent`, `HeapBelowBreakMapped`, `FramesLostOnlyByCopies`; `KernelHeap` implements `FrameTable` |
| `terminal` | 1 terminal, 2 PCB blocks for 4 processes, room for 2 buffers, 3 lines | `TypeOK`, `WaitingForTransmission`, `WrittenWhole`, `RefusalEnds` |

Why these bounds. Two processes beside idle and init suffice for a queue in which
one of three overtakes another, for siblings, for a grandchild and for its
adoption by init. They make child lists of one and two: a first child and a last,
no middle. For `Family` and `ReapsOwnChild` the proofs have lists of any length;
for `TrapsReturn` a third child was tried by hand, with `p3` added to `Pcb` of
`sched_live` and `Delays = {}`, where all its properties hold too; with Delay as
well that instance takes too long for a regular run.
`FamilySpec` is `Spec` without the steps in which `malloc` returns a block that a
list still leads to, `FairFamilySpec` adds the fairness below; every other reuse of
a freed block is in. Without that restriction `wait_hangs` shows a search that
does not end, and `ReapsOwnChild` fails in `Spec` with `ReuseFreed = TRUE`: a block
still in one parent's list becomes the child of another process, and the first
reaps it. Modulo 3 with delays of 2 the sum of `KernelDelay`
both wraps and does not. Four nodes let every loop of `LinkedQueue` meet first,
middle and last nodes with one to spare, and the nodes the sweep leaks make the
allocator run dry. In `memory` the frames are enough for two small
processes and not for a large one and another, so `ForkNoFrame`, `LoadNoFrame`,
`BrkNoFrame` and `KernelForkNoStack` all happen, at the first page and at later
ones.

In `kernel_heap` the heap's four pages and the six frames it shares with two
processes let both run the other out of frames; requests lie at both ends of the
heap, inside a page and beyond either limit, the last page included. In
`terminal` a line has two bytes, so that buffers of two and three are a line and
more than one; two typed lines fill the kernel heap and a third is dropped; a
block is reused up to three times. One terminal suffices since a handler touches
no other, and what others do to the heap its own lines do too.

Deadlock is checked in the scheduler, queue and kernel heap runs. It is not in
`memory`, where every program may be stuck in a fault, nor in `terminal`, where
every program may have exited.

Fairness (`Fairness`). Kernel code runs to its end: weak fairness of the loops'
steps. A clock interrupt that is pending is taken as soon as the kernel returns
to user mode, so a program that makes calls without pause cannot hold it off:
strong fairness of `HandleClockTrap`. Programs owe nothing, not even to make
another call. `sched_live` has it on top of `FamilySpec`, since when a linked block
is reused Wait may search for ever and nobody else gets the CPU, see `wait_hangs`.
In `Terminal` the hardware finishes the transmissions it was given: weak fairness
of `HandleTransmitTrap`; nobody has to type, to read or to write.

### Where the code and its own words disagree

Each of these runs checks one statement of a comment or trace message, and TLC
finds an execution that breaks it.

| Run | The text says | The code |
|---|---|---|
| `sleep_cut_short` | a process sleeps until its tick in Delay, and until a child exits in Wait | the next tick wakes who is in Wait, and Wait returns 0 without a child; a child's Exit wakes its parent from Delay |
| `wait_hangs` | Wait blocks if there is no zombie | when `malloc` reuses the block of a reaped child, the child list is a cycle and Wait never returns |
| `image_lost` | once committed, the process is loaded or killed; out of frames, Brk rolls back the pages it just mapped | a short read leaves a process that runs on without image, and so do Exec's error returns; a process's first Brk unmaps every valid page of its range, which is the program |
| `rollback_astray` | an error in Fork frees the frames it allocated | the rollback takes their count for the number of the last, and frees frames that another process goes on using |
| `heap_forgotten` | region 0 maps kernel text, data, heap and stack | the pages that `malloc` was granted before virtual memory was on are not mapped |
| `lines_lost` | the receive trap stores lines that TtyRead will read | it clears the buffer after the line is in it and stores a zero byte; TtyRead never looks there |

The statements of `sleep_cut_short` and `image_lost` have two parts each, either of
which the code breaks without the other: TLC stops at the shorter trace, a Wait that
the clock ends and a boot whose read comes up short. With that conjunct left out of
the property it finds the parent woken from Delay, and the Brk.

Two more faults of the kind are in the models, but no run asks for them. Wait does
not unlink the child it reaps, and the cleared `next_sibling` ends the next search
there: children behind it that have exited are not found, with no block reused. And
TtyWrite, when it gets no buffer, leaves its caller down as waiting
(`KernelTtyWriteNoBuffer`), so that it is refused from then on with nothing under
way; `WaitingForTransmission` and `RefusalEnds` leave out just that case.

Other leaks and losses need no run of their own: a property says that there is
no other. `FramesLostOnlyByFork`: `create_sframes` loses a frame when it gets one
and not the second. `FramesLostOnlyByCopies`: the same, and the heap page under
a copy. `NodesLostOnlyBySweep`: the clock's wake-up loop keeps the nodes it
unlinks. `NoOverrun` holds because the memory trap never
grows a stack at all.

## 4. Proofs

Every invariant and every action property that a passing run checks is also a
theorem, and so are the three refinements: `Scheduler` of `Lifecycle`, `Memory`
and `KernelHeap` of `FrameTable`. The runs show them on the instances of section
3, the theorems for all values of the constants that the module's named
assumption allows: `SchedulerAssumption`, `MemoryAssumption` and so on ask for
sizes that are natural numbers, distinct names, and a layout in the order in
which the linker and the machine put it.

| Module | Theorems |
|---|---|
| `SchedulerProofs` | `TypeCorrect`, `PlacementInvariant`, `NoWildJumpEver` |
| `SchedulerStepProofs` | `ContextsInvariant`, `NoSleeperSkippedEver`, `DeadStayDeadAlways`, `SleepersWakeForAReasonAlways`, `ImplementsLifecycle`, `NobodyOvertakes`, `NobodyReapsInit`, `FamilyTree`, `OnlyParentsReap` |
| `LinkedQueueProofs` | `ListIsWellFormed`, `CursorsStayInList`, `OperationsAreTheQueues`, `OnlySweepLosesNodes` |
| `FrameTable` | `FramesAreExclusive` |
| `MemoryProofs` | `TypeCorrect`, `FramesAreIsolated`, `NeverOverruns`, `GuardPageStays`, `HeapIsMapped`, `OnlyForkLosesFrames`, `ImplementsTheFrameTable` |
| `KernelHeapProofs` | `TypeCorrect`, `RegionZeroIsIsolated`, `StackIsAlwaysCurrent`, `HeapIsMapped`, `OnlyCopiesLoseFrames`, `ImplementsTheFrameTable` |
| `TerminalProofs` | `TypeCorrect`, `WaitingIsForATransmission`, `WritesAreWhole` |

In each module there is an inductive invariant `IInv`, a lemma per action which
says that it keeps `IInv` and what else the action owes (the frames it may take
or lose), and the theorems are read off these lemmas. `IInv` is
defined in the component's properties module (for the queue, in `LinkedQueue`),
where TLC can evaluate it.

### Scheduler

`IInv` is type correctness, `NoWildJump`, `Placement`, `IdleReady` and
`LoopState`. `Placement` is not inductive on its own. A handler that gives up the
CPU takes the head of the ready queue, and if that queue could be empty it would
switch to whatever the register holds. What prevents it is idle: whenever another
process runs, idle is in the ready queue (`IdleReady`). That in turn needs that
idle is never the caller of Wait or Exit (`LoopState`), and the first tick, which
queues an idle that boot left READY but unqueued. `LoopState` also keeps the
cursor of the wake-up loop at a position.

The calls that block share `YieldFacts` and `YieldIInv`, which start from a queue
and states in which the caller is already out of its place, and
`SwitchPlacement`, which says what a switch does to `Placement`. `QueueFacts`
proves what the queue operators do, position by position and to the members.

`SavedContexts` and `NoSleeperSkipped` are each inductive together with `IInv`:
`ClockDispatchFacts`, `SleepFacts` and `ExitFacts` say, process by process, what
the handlers that switch context do to states and contexts, and `UnlinkAtFront`
that splicing a node out leaves those in front of it where they are.
`StateChanges` lists every reason for which a step may change the state of a live
process; `DeadStayDead` and `SleepersWakeForAReason` are read off it.

`ImplementsLifecycle` holds for both values of `ReuseFreed`. `StatusFacts` says
where `Placement` puts a process of each state, so that a process has one status
at a time and is never "lost"; then each action is matched with a step of
`Lifecycle` or with a stutter (`NextLifecycle`).

`NobodyOvertakes` rests on one observation, `QueueStep`: whatever the handler, a
step lets at most one process join the ready queue, and then either leaves it at
that or gives the CPU to the head, with the caller possibly going to the end.
`EnqueueKeepsOrder` and `DequeueKeepsOrder` do the rest.

`NobodyReapsInit` holds of `Spec`, whatever `malloc` returns: `NoWildKin`, that no
list leads to init, to idle or to a block that was never handed out, is inductive
with `IInv`.

`FamilyTree` and `OnlyParentsReap` are theorems of `FamilySpec`, for both values of
`ReuseFreed`: blocks are freed and reused, and all that is asked of `malloc` is
`UnlinkedReuse`, that a block of which Fork makes a process is in nobody's
`first_child` or `next_sibling` any more. The condition is needed, since Wait
does not unlink what it frees: without it `ReapsOwnChild` is false (section 3) and
the child list may become a cycle (`wait_hangs`). It
asks no more than that: dangling pointers themselves, to freed blocks that
wait in the allocator, do no harm to either property. With `ReuseFreed = FALSE`
every step is one of `FamilySpec`, since no freed block comes back
(`NoReuseIsUnlinked`).

The invariant is `FamilyInv`: `NoWildKin`; `ListOfOwner`, that who stands in a list
has its owner as parent or was freed; `OneListEach`, that one pointer at most leads
to a process; and `CursorFree`, that no list but the one being emptied leads to the
child that Exit is about to move, without which relinking it would put it in two.
`OneListEach` fails among the children of init when init itself exits and moves
them to the list it takes them from; `Disordered` names those pointers, and since
nobody walks that list again (`InitStaysGone`) they do not matter. Of the steps,
`KernelFork` (`ForkFamily`) and `ExitAdopt` (`AdoptFamily`) make links; the others
only lose some (`FewerLinks`).

### Queue

`Scheduler` uses sequences where the code has linked lists.
`OperationsAreTheQueues` justifies that for lists of any length. `IInv` says
that there is a sequence of distinct allocated nodes, from `head` along `next` to
`tail`, and that the cursors of a running loop are neighbours in it; in a search,
no node that was passed holds the data. The recursive definition of the list
(`Chain`) is shown to be that sequence (`ChainIs`), by its least position where
the two differ. Two lemmas then carry the operations: `EnqueueChain`, and
`UnlinkChain`, which covers `Dequeue`, `remove_data` and the clock's splice, each
of which updates head, tail and links in its own order and under its own tests.

### Memory

`FrameIsolation` is not inductive alone, nor are `HeapMapped`, `GuardPage` and
`NoOverrun`. A loop can fail at any page, and what its error path then frees or
leaves depends on what it has done: `ForkState`, `LoadState` and `BrkState` say
so for each loop, in terms of the pages still to do. `Images` says of the address
space of every process what the guard page and the memory trap depend on: a
process that has not faulted has its stack pointer as LoadProgram left it. In
the mode `astray` the model stops, and nothing is promised of its frames.

The actions are proved with four lemmas about frames: `PageTaken` and
`StackTaken` (a step takes frames that were free), `PagesReturned` and
`AllReturned` (it frees those that it unmaps). They and `HonestStep` also yield
`Honest`, of which both `OnlyForkLosesFrames` and the step simulation of
`ImplementsTheFrameTable` are consequences.

### Kernel heap

`RegionZeroIsolated` counts the frames of the processes together. That is not
inductive, since a frame that two kernel stacks shared would be freed with the
first; `HeldOnce` therefore says it holder by holder. `Stacks` and `TextAndStack`
say what a switch writes to region 0 and from where, `BootOrder` what is not there
yet before virtual memory and idle, and `Growth` what `SetKernelBrk` has mapped so
far, which needs that rounding up to a page is monotone (`UpToPage`, from lemmas
about quotients: `PAGESIZE` is any positive number). `DealStep` relates a step to the
abstract frame table, `NoneLost` bounds what it loses, `HoldPage` is about
the page copies go through.

### Terminals

`WaitingForTransmission` needs `Pids`: pids are given in increasing order, so
that the pid of a transmission whose sender is dead never belongs to a new
process. For `WritesAreWhole` the bytes of a sequence of transmissions are a
recursive sum: it exists and is unique (`SumExists`, `SumIs`), joining sequences
adds the sums (`BytesJoined`), and the partial sums of a write are whole lines
until the last (`PiecesWhole`).

### Frame table

`FramesAreExclusive`: whoever follows the steps of `FrameTable`, with any
holders and whatever the careless among them drop, keeps frames exclusive.

### What is not proved

Induction over positions and sums is done by the least counterexample
(`LeastPosition` in `QueueFacts`), as the library's induction theorems take an
operator that the provers at hand cannot instantiate. The liveness
properties, `ReadyRuns`, `SleeperWakes`, `TrapsReturn` and `RefusalEnds`, need
fairness and `ENABLED`, which are out of their reach: TLC checks them, on the
instances of `sched_live` and `terminal`. The runs that show a violation prove
what they show. That `Scheduler` may use the operators of `Queue` is proved
operation by operation; that `Scheduler` with lists of nodes in place of its two
sequences is the same system is left to the reader: no handler of it reads more
of a queue than its members, their order and its head.

## 5. Not modelled

* User and kernel register contents, the TLB and the bytes of pages; so that a
  failing Exec reads its arguments from pages it has freed, and that some
  returns do not flush, is listed as a hazard only.
* `malloc` failing in `spawn_proc`, `LoadProgram` or `Enqueue` (but see
  `EnqueueNoMemory`). The first two return ERROR: `spawn_proc` before it takes a
  frame, `LoadProgram` as in `KernelExecRefused`.
* In `Memory`, the frames that the kernel heap takes while the system runs:
  `KernelHeap` has them, and both implement `FrameTable`.
* What `malloc` leaves in init's page table, which `create_init_proc` clears
  only in part.
* pids and exit statuses: no decision depends on them but the test for the
  child in Fork, which the saved context models.
* Boot without a program: idle is then the only process there ever is. It is
  queued while it runs and again by the first tick, which takes one of the two
  entries back; no call is ever made.
* More than 100 lines in one receive trap, which are stored beyond `messages`.
* The stub calls, which return a constant; user programs, which the models let
  make any call at any time.

## 6. Plan

Done: every component with state, and a proof of every safety property that the
runs check. What is left to do:

1. A `Memory` that goes on where it now ends in the mode `astray`, and what is
   still true there.
2. An `Enqueue` that fails in `Scheduler`, with what `Placement` is then.
3. Boot without a program.
