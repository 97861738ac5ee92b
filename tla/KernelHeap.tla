----------------------------- MODULE KernelHeap -----------------------------
(***************************************************************************)
(* Region 0, the kernel's own address space: its page table, the kernel    *)
(* heap that malloc moves with SetKernelBrk before and after virtual       *)
(* memory is on, the page through which stacks and pages are copied, and   *)
(* the kernel stack pages that a context switch maps anew.                 *)
(*                                                                         *)
(* The heap takes its frames from the same table as the processes.  Of a   *)
(* process this module has its kernel stack; the frames of all region 1    *)
(* tables are one set, module Memory says whose they are.                  *)
(*                                                                         *)
(* The break is an address, counted in units of which a page has PAGESIZE. *)
(* The kernel is not interrupted, so a call runs alone; a growing heap     *)
(* takes a step per page it maps, since it can run out of frames at each.  *)
(***************************************************************************)
EXTENDS Integers, FiniteSets

CONSTANTS
  Pcb, idle_process,
  PAGESIZE,
  MAX_PT_LEN,               \* pages of region 0
  frame_count,
  first_kernel_text_page,
  orig_kernel_brk_page,     \* where text and data end and the heap begins
  Requests,                 \* addresses malloc asks the break to be moved to
  NULL

Frame  == 0..(frame_count - 1)
Page   == 0..(MAX_PT_LEN - 1)

\* KERNEL_STACK_BASE >> PAGESHIFT: the kernel stack is the last two pages.
stack_page == MAX_PT_LEN - 2
KStack     == {stack_page, stack_page + 1}

\* The page KCCopy and data_copy map for the time of a copy, just below the
\* stack; init_frames reserves the frame of the same number.
holdvpn == stack_page - 1

\* init_frames marks these, and nobody asks find_frame for them.
Reserved == 0..(orig_kernel_brk_page - 1) \cup {holdvpn} \cup KStack

ASSUME KernelHeapAssumption ==
  /\ idle_process \in Pcb
  /\ PAGESIZE \in Nat \ {0}
  /\ MAX_PT_LEN \in Nat /\ frame_count \in Nat
  /\ first_kernel_text_page \in Nat /\ orig_kernel_brk_page \in Nat
  /\ first_kernel_text_page <= orig_kernel_brk_page
  /\ orig_kernel_brk_page < holdvpn
  /\ MAX_PT_LEN <= frame_count
  /\ Requests \subseteq Nat
  /\ NULL \notin Frame /\ NULL \notin Pcb

VARIABLES
  vm_enabled,
  used,                  \* frames marked IN_USE in track_global
  kernel_page_table,     \* its valid entries, NULL where invalid
  current_kernel_brk,
  heap_end,              \* the break malloc was last granted
  current_process,       \* NULL until idle_proc_create
  kernel_stack_frames,
  user_frames,           \* frames in the region 1 tables
  growing,               \* is SetKernelBrk in its growing loop?
  new_kbrk_addr, todo    \* its argument, and the pages still to be mapped

heap      == <<current_kernel_brk, heap_end>>
call      == <<growing, new_kbrk_addr, todo>>
processes == <<current_process, kernel_stack_frames, user_frames>>
vars      == <<vm_enabled, used, kernel_page_table, heap, processes, call>>

Exhausted == used = Frame
find_frame(taken) ==
  CHOOSE f \in Frame \ taken : \A g \in Frame \ taken : f <= g

UP_TO_PAGE(addr) == (addr + PAGESIZE - 1) \div PAGESIZE
heap_start     == orig_kernel_brk_page * PAGESIZE
heap_end_limit == stack_page * PAGESIZE

NoStack   == [v \in KStack |-> NULL]
Exists(p) == kernel_stack_frames[p] # NoStack

\* KernelStart up to the first malloc whose heap has to grow.
Init ==
  /\ vm_enabled = FALSE
  /\ used = Reserved
  /\ kernel_page_table = [v \in Page |-> NULL]
  /\ current_kernel_brk = 0
  /\ heap_end = heap_start
  /\ current_process = NULL
  /\ kernel_stack_frames = [p \in Pcb |-> NoStack]
  /\ user_frames = {}
  /\ growing = FALSE /\ new_kbrk_addr = 0 /\ todo = {}
-----------------------------------------------------------------------------
\* An address SetKernelBrk accepts for the heap, in either mode.
InHeap_NoStackCheck(addr) == heap_start <= addr
InHeap(addr) == heap_start <= addr /\ addr < heap_end_limit

\* SetKernelBrk without virtual memory: the break is only written down.
SetKernelBrkAtBoot(addr) ==
  /\ ~vm_enabled
  /\ InHeap(addr)
  /\ addr >= current_kernel_brk
  /\ addr < frame_count * PAGESIZE
  /\ current_kernel_brk' = addr /\ heap_end' = addr
  /\ UNCHANGED <<vm_enabled, used, kernel_page_table, processes, call>>

\* SetupRegion0 maps text, data and stack where they are.
SetupRegion0 ==
  [v \in Page |-> IF v \in first_kernel_text_page..(orig_kernel_brk_page - 1) \cup KStack
                  THEN v ELSE NULL]

\* KernelStart turns virtual memory on and sets the break to where it was in the
\* beginning; the SetKernelBrk it then calls finds nothing to do.
EnableVM ==
  /\ ~vm_enabled
  /\ vm_enabled' = TRUE
  /\ kernel_page_table' = SetupRegion0
  /\ current_kernel_brk' = heap_start
  /\ UNCHANGED <<used, heap_end, processes, call>>

\* The kernel is not in SetKernelBrk.
Between == vm_enabled /\ ~growing

\* idle runs on the boot stack, and has one page.
idle_proc_create ==
  /\ Between
  /\ current_process = NULL
  /\ ~Exhausted
  /\ used' = used \cup {find_frame(used)}
  /\ user_frames' = {find_frame(used)}
  /\ current_process' = idle_process
  /\ kernel_stack_frames' = [kernel_stack_frames EXCEPT ![idle_process] =
                               [v \in KStack |-> v]]
  /\ UNCHANGED <<vm_enabled, kernel_page_table, heap, call>>
-----------------------------------------------------------------------------
\* SetKernelBrk, upwards: pages that are mapped already are passed over.
PagesToMap_Remapped(from, to) == from..(to - 1)
PagesToMap(from, to) == {v \in from..(to - 1) : kernel_page_table[v] = NULL}

SetKernelBrkGrow(addr) ==
  /\ Between
  /\ InHeap(addr)
  /\ UP_TO_PAGE(addr) > UP_TO_PAGE(current_kernel_brk)
  /\ growing' = TRUE
  /\ new_kbrk_addr' = addr
  /\ todo' = PagesToMap(UP_TO_PAGE(current_kernel_brk), UP_TO_PAGE(addr))
  /\ UNCHANGED <<vm_enabled, used, kernel_page_table, heap, processes>>

Return == growing' = FALSE /\ new_kbrk_addr' = 0 /\ todo' = {}

GrowPage ==
  /\ growing /\ todo # {}
  /\ ~Exhausted
  /\ LET vpn == CHOOSE v \in todo : \A w \in todo : v <= w
     IN  /\ kernel_page_table' = [kernel_page_table EXCEPT ![vpn] = find_frame(used)]
         /\ todo' = todo \ {vpn}
  /\ used' = used \cup {find_frame(used)}
  /\ UNCHANGED <<vm_enabled, heap, processes, growing, new_kbrk_addr>>

\* Out of frames: ERROR at once.  What has been mapped stays, above the break.
GrowNoFrame ==
  /\ growing /\ todo # {}
  /\ Exhausted
  /\ Return
  /\ UNCHANGED <<vm_enabled, used, kernel_page_table, heap, processes>>

GrowDone ==
  /\ growing /\ todo = {}
  /\ current_kernel_brk' = new_kbrk_addr /\ heap_end' = new_kbrk_addr
  /\ Return
  /\ UNCHANGED <<vm_enabled, used, kernel_page_table, processes>>

\* SetKernelBrk downwards, or within a page.
PagesToUnmap_FromBreakPage(addr) ==
  (addr \div PAGESIZE)..(UP_TO_PAGE(current_kernel_brk) - 1)
PagesToUnmap(addr) == UP_TO_PAGE(addr)..(UP_TO_PAGE(current_kernel_brk) - 1)

FramesOf(pages) == {kernel_page_table[v] : v \in pages} \ {NULL}
Unmapped_FramesOnly(pages) == kernel_page_table
Unmapped(pages) ==
  [v \in Page |-> IF v \in pages THEN NULL ELSE kernel_page_table[v]]

SetKernelBrkShrink(addr) ==
  /\ Between
  /\ InHeap(addr)
  /\ UP_TO_PAGE(addr) <= UP_TO_PAGE(current_kernel_brk)
  /\ used' = used \ FramesOf(PagesToUnmap(addr))
  /\ kernel_page_table' = Unmapped(PagesToUnmap(addr))
  /\ current_kernel_brk' = addr /\ heap_end' = addr
  /\ UNCHANGED <<vm_enabled, processes, call>>
-----------------------------------------------------------------------------
\* What processes do to the frames and to region 0, call by call.
Running == Between /\ current_process # NULL

\* KCCopy and data_copy leave their page unmapped, whatever was there before.
HoldPageCleared == [kernel_page_table EXCEPT ![holdvpn] = NULL]

\* create_sframes: a frame for each page of the new process's stack.
create_sframes(new) ==
  /\ Running
  /\ ~Exists(new)
  /\ Cardinality(Frame \ used) >= 2
  /\ LET low  == find_frame(used)
         high == find_frame(used \cup {low})
     IN  /\ used' = used \cup {low, high}
         /\ kernel_stack_frames' =
              [kernel_stack_frames EXCEPT ![new] =
                 [v \in KStack |-> IF v = stack_page THEN low ELSE high]]
  /\ UNCHANGED <<vm_enabled, kernel_page_table, heap, current_process, user_frames,
                 call>>

\* One frame, and none for the second page: the first stays marked.
create_sframesFails ==
  /\ Running
  /\ Cardinality(Frame \ used) = 1
  /\ used' = Frame
  /\ UNCHANGED <<vm_enabled, kernel_page_table, heap, processes, call>>

\* Exec and Brk map a page of a process; Fork maps one and copies into it.
MapUserPage ==
  /\ Running
  /\ ~Exhausted
  /\ used' = used \cup {find_frame(used)}
  /\ user_frames' = user_frames \cup {find_frame(used)}
  /\ UNCHANGED <<vm_enabled, heap, current_process, kernel_stack_frames, call>>
LoadUserPage == MapUserPage /\ UNCHANGED kernel_page_table
data_copy    == MapUserPage /\ kernel_page_table' = HoldPageCleared

\* Brk, Exec and Wait free pages of a process.
FreeUserPage ==
  /\ Running
  /\ \E f \in user_frames : used' = used \ {f} /\ user_frames' = user_frames \ {f}
  /\ UNCHANGED <<vm_enabled, kernel_page_table, heap, current_process,
                 kernel_stack_frames, call>>

\* KCCopy copies the stack of the caller into the frames of the new process.
KCCopy(new) ==
  /\ Running
  /\ Exists(new) /\ new # current_process
  /\ kernel_page_table' = HoldPageCleared
  /\ UNCHANGED <<vm_enabled, used, heap, processes, call>>

\* KCSwitch maps the stack of the process it switches to.
StackMapped_FirstPageOnly(next) ==
  [kernel_page_table EXCEPT ![stack_page] = kernel_stack_frames[next][stack_page]]
StackMapped(next) ==
  [v \in Page |-> IF v \in KStack THEN kernel_stack_frames[next][v]
                                  ELSE kernel_page_table[v]]
KCSwitch(next) ==
  /\ Running
  /\ Exists(next) /\ next # current_process
  /\ kernel_page_table' = StackMapped(next)
  /\ current_process' = next
  /\ UNCHANGED <<vm_enabled, used, heap, kernel_stack_frames, user_frames, call>>

\* Wait frees the stack of a process that is not running.
StackFrames_First(p) == {kernel_stack_frames[p][stack_page]}
StackFrames(p) == {kernel_stack_frames[p][v] : v \in KStack}
free_sframes(p) ==
  /\ Running
  /\ Exists(p) /\ p \notin {current_process, idle_process}
  /\ used' = used \ StackFrames(p)
  /\ kernel_stack_frames' = [kernel_stack_frames EXCEPT ![p] = NoStack]
  /\ UNCHANGED <<vm_enabled, kernel_page_table, heap, current_process, user_frames,
                 call>>
-----------------------------------------------------------------------------
SetKernelBrk(addr) ==
  SetKernelBrkAtBoot(addr) \/ SetKernelBrkGrow(addr) \/ SetKernelBrkShrink(addr)

Next ==
  \/ EnableVM \/ idle_proc_create
  \/ \E addr \in Requests : SetKernelBrk(addr)
  \/ GrowPage \/ GrowNoFrame \/ GrowDone
  \/ create_sframesFails \/ LoadUserPage \/ data_copy \/ FreeUserPage
  \/ \E p \in Pcb : create_sframes(p) \/ KCCopy(p) \/ KCSwitch(p) \/ free_sframes(p)

Spec == Init /\ [][Next]_vars
=============================================================================
