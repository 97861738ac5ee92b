------------------------------- MODULE Memory -------------------------------
(***************************************************************************)
(* Physical frames, the region 1 page tables and the kernel stacks of the  *)
(* processes, and the calls that hand frames out and take them back: Fork, *)
(* Exec with LoadProgram, Wait, Brk and the traps of faults.               *)
(*                                                                         *)
(* Which process runs is left open: between two calls it is any that can.  *)
(* A call runs alone.  The ones that allocate page by page take a step per *)
(* page, lowest first, with mode naming the loop, caller the process that  *)
(* made the call and todo the pages still to come; a page the loop passes  *)
(* without a change is not a step.                                         *)
(*                                                                         *)
(* Addresses are page numbers.  Region 1 starts at page MAX_PT_LEN, and a  *)
(* page table is indexed from its start; user_heap_brk and user_stack_ptr  *)
(* hold one kind of number or the other, as the code leaves them.          *)
(***************************************************************************)
EXTENDS Integers, FiniteSets

CONSTANTS
  Pcb, idle_process, init_process,
  MAX_PT_LEN,             \* pages of region 1, and of region 0
  frame_count,            \* frames of physical memory
  orig_kernel_brk_page,   \* frames below it hold the kernel's text and data
  TEMP_KSTACK, V1_KSTACK, V2_KSTACK,
  Programs,               \* the executables a process can load, see Layout
  Breaks,                 \* page numbers processes ask Brk for
  Faults,                 \* where they take memory faults: a page number, and
                          \*   whether it is inside the page, not at its start
  NULL

Frame == 0..(frame_count - 1)
Page  == 0..(MAX_PT_LEN - 1)
KStack == {0, 1}

\* The fields of load_info that place a program in region 1, and the pages its
\* arguments need on the stack.
Layout == [text_pg1 : Nat, t_npg : Nat, data_pg1 : Nat, data_npg : Nat,
           stack_npg : Nat]

\* init_frames marks these and nobody asks find_frame for them.
Reserved == 0..(orig_kernel_brk_page - 1) \cup {TEMP_KSTACK, V1_KSTACK, V2_KSTACK}

ASSUME MemoryAssumption ==
  /\ idle_process \in Pcb /\ init_process \in Pcb
  /\ idle_process # init_process
  /\ MAX_PT_LEN \in Nat \ {0}
  /\ frame_count \in Nat
  /\ orig_kernel_brk_page \in Nat
  /\ Reserved \subseteq Frame
  /\ V1_KSTACK # V2_KSTACK
  /\ \A f \in {V1_KSTACK, V2_KSTACK} : f >= orig_kernel_brk_page /\ f # TEMP_KSTACK
  /\ Cardinality(Frame \ Reserved) >= 3
  /\ Programs \subseteq Layout
  /\ \A prog \in Programs :
       prog.text_pg1 + prog.t_npg <= prog.data_pg1 /\ prog.stack_npg > 0
  /\ Breaks \subseteq 1..(2 * MAX_PT_LEN)
  /\ Faults \subseteq (0..(2 * MAX_PT_LEN - 1)) \X BOOLEAN
  /\ NULL \notin Frame /\ NULL \notin Pcb /\ NULL \notin Programs

VARIABLES
  used,              \* frames marked IN_USE in track_global
  pt,                \* the valid entries of each region 1 table, NULL if invalid
  kernel_stack_frames,
  pstate,            \* "none", "live", "zombie", or "stuck" in a fault
  user_heap_brk,
  user_stack_ptr,
  ruined,            \* processes whose old image is gone and the new one not there
  mode,              \* the loop the kernel is in; "user" outside the kernel
  caller, todo,
  child, first_frame_used, frames_used,   \* locals of KernelFork
  li,                                     \* local of LoadProgram
  brk_vpn                                 \* new_vpn of KernelBrk

tables  == <<pt, kernel_stack_frames>>
breaks  == <<user_heap_brk, user_stack_ptr>>
locals  == <<caller, todo, child, first_frame_used, frames_used, li, brk_vpn>>
vars    == <<used, tables, pstate, breaks, ruined, mode, locals>>

\* The first frame not in use.  Every caller asks whether there is one.
Exhausted == used = Frame
find_frame(taken) ==
  CHOOSE f \in Frame \ taken : \A g \in Frame \ taken : f <= g

NoPages  == [v \in Page |-> NULL]
NoStack  == [i \in KStack |-> NULL]

PageFrames(p)  == {pt[p][v] : v \in Page} \ {NULL}
StackFrames(p) == {kernel_stack_frames[p][i] : i \in KStack} \ {NULL}
Owned(p)       == PageFrames(p) \cup StackFrames(p)

\* LoadProgram: "leave at least one page between heap and stack".
Fits(prog) == prog.stack_npg + prog.data_pg1 + prog.data_npg < MAX_PT_LEN

\* The pages LoadProgram maps, lowest first: text, data, stack.
StackStart(prog) == MAX_PT_LEN - prog.stack_npg
DataEnd(prog)    == prog.data_pg1 + prog.data_npg
ProgramPages(prog) ==
  prog.text_pg1..(prog.text_pg1 + prog.t_npg - 1)
    \cup prog.data_pg1..(DataEnd(prog) - 1)
    \cup StackStart(prog)..(MAX_PT_LEN - 1)

\* A process that is in the middle of its program, and may make calls.
Runs(p) == mode = "user" /\ pstate[p] = "live" /\ p # idle_process
-----------------------------------------------------------------------------
\* KernelStart up to LoadProgram for init, which starts with an empty table:
\* idle has a page for its stack and runs on the boot stack, init has a kernel
\* stack of its own.
Init ==
  LET idle_pfn == find_frame(Reserved)
      low      == find_frame(Reserved \cup {idle_pfn})
      high     == find_frame(Reserved \cup {idle_pfn, low})
  IN  /\ used = Reserved \cup {idle_pfn, low, high}
      /\ pt = [p \in Pcb |-> IF p = idle_process
                             THEN [NoPages EXCEPT ![MAX_PT_LEN - 1] = idle_pfn]
                             ELSE NoPages]
      /\ kernel_stack_frames =
           [p \in Pcb |->
              CASE p = idle_process -> [i \in KStack |-> IF i = 0 THEN V1_KSTACK
                                                                  ELSE V2_KSTACK]
                [] p = init_process -> [i \in KStack |-> IF i = 0 THEN low ELSE high]
                [] OTHER            -> NoStack]
      /\ pstate = [p \in Pcb |-> IF p \in {idle_process, init_process}
                                 THEN "live" ELSE "none"]
      /\ user_heap_brk = [p \in Pcb |-> 0]
      /\ user_stack_ptr = [p \in Pcb |-> 0]
      /\ ruined = {init_process}
      /\ mode = "load"
      /\ caller = init_process
      /\ child = NULL /\ first_frame_used = 0 /\ frames_used = 0
      /\ li \in {prog \in Programs : Fits(prog)}
      /\ todo = ProgramPages(li)
      /\ brk_vpn = 0

\* A call returns: its locals are gone.
Return_ForkCountsOn ==
  /\ mode' = "user"
  /\ caller' = NULL /\ todo' = {}
  /\ child' = NULL /\ li' = NULL /\ brk_vpn' = 0
  /\ UNCHANGED <<first_frame_used, frames_used>>
Return ==
  /\ mode' = "user"
  /\ caller' = NULL /\ todo' = {}
  /\ child' = NULL /\ first_frame_used' = 0 /\ frames_used' = 0
  /\ li' = NULL /\ brk_vpn' = 0

\* The page a loop has come to.
vpn == CHOOSE v \in todo : \A w \in todo : v <= w

\* It gets a frame in p's table.
MapPage(p) ==
  /\ ~Exhausted
  /\ used' = used \cup {find_frame(used)}
  /\ pt' = [pt EXCEPT ![p][vpn] = find_frame(used)]
  /\ todo' = todo \ {vpn}
  /\ UNCHANGED <<mode, caller, child, li, brk_vpn>>
-----------------------------------------------------------------------------
\* KernelFork: spawn_proc gets two frames for the child's kernel stack.
KernelFork(p, new) ==
  /\ Runs(p)
  /\ pstate[new] = "none"
  /\ Cardinality(Frame \ used) >= 2
  /\ LET low  == find_frame(used)
         high == find_frame(used \cup {low})
     IN  /\ used' = used \cup {low, high}
         /\ kernel_stack_frames' =
              [kernel_stack_frames EXCEPT ![new] =
                 [i \in KStack |-> IF i = 0 THEN low ELSE high]]
  /\ mode' = "fork"
  /\ caller' = p /\ child' = new
  /\ todo' = {v \in Page : pt[p][v] # NULL}
  /\ UNCHANGED <<pt, pstate, breaks, ruined, first_frame_used, frames_used,
                 li, brk_vpn>>

\* create_sframes finds no frame, or none after the first, and spawn_proc frees
\* the PCB: the first frame stays marked and nobody knows it any more.
KernelForkNoStack(p) ==
  /\ Runs(p)
  /\ \E new \in Pcb : pstate[new] = "none"
  /\ Cardinality(Frame \ used) < 2
  /\ used' = Frame
  /\ UNCHANGED <<tables, pstate, breaks, ruined, mode, locals>>

\* The copying loop.
ForkCopy ==
  /\ mode = "fork" /\ todo # {}
  /\ MapPage(child)
  /\ first_frame_used' = IF frames_used = 0 THEN find_frame(used) ELSE first_frame_used
  /\ frames_used' = frames_used + 1
  /\ UNCHANGED <<kernel_stack_frames, pstate, breaks, ruined>>

\* The child is complete.
ForkDone ==
  /\ mode = "fork" /\ todo = {}
  /\ pstate' = [pstate EXCEPT ![child] = "live"]
  /\ user_heap_brk' = [user_heap_brk EXCEPT ![child] = user_heap_brk[caller]]
  /\ user_stack_ptr' = [user_stack_ptr EXCEPT ![child] = user_stack_ptr[caller]]
  /\ ruined' = IF caller \in ruined THEN ruined \cup {child} ELSE ruined
  /\ Return
  /\ UNCHANGED <<used, tables>>

\* free_proc with its flag set, when the frames in use are those of taken.
FreedFrames_PagesOnly(p) == PageFrames(p)
FreedFrames(p) == Owned(p)
free_proc(p, taken) ==
  /\ used' = taken \ FreedFrames(p)
  /\ pt' = [pt EXCEPT ![p] = NoPages]
  /\ kernel_stack_frames' = [kernel_stack_frames EXCEPT ![p] = NoStack]
  /\ pstate' = [pstate EXCEPT ![p] = "none"]
  /\ user_heap_brk' = [user_heap_brk EXCEPT ![p] = 0]
  /\ user_stack_ptr' = [user_stack_ptr EXCEPT ![p] = 0]
  /\ ruined' = ruined \ {p}

\* rollback_frames frees the frames numbered from first up to amount, which is
\* a count: no frame at all as long as first is not below it.
rollback_frames(first, amount) == first..(amount - 1)

\* No frame for the page: the rollback, then free_proc for the child.  If the
\* rollback frees what the child does not own the kernel has gone astray, and
\* the model stops.
ForkNoFrame ==
  /\ mode = "fork" /\ todo # {}
  /\ Exhausted
  /\ LET rolled == rollback_frames(first_frame_used, frames_used)
     IN  /\ free_proc(child, used \ rolled)
         /\ IF rolled \subseteq Owned(child)
            THEN Return
            ELSE mode' = "astray" /\ UNCHANGED locals
-----------------------------------------------------------------------------
\* KernelExit keeps the memory of the zombie; KernelWait gives it back when it
\* reaps one.  Module Scheduler says who reaps whom; only what Fork has made is
\* ever somebody's child.
KernelExit(p) ==
  /\ Runs(p)
  /\ pstate' = [pstate EXCEPT ![p] = "zombie"]
  /\ UNCHANGED <<used, tables, breaks, ruined, mode, locals>>

KernelWait(p, zombie) ==
  /\ Runs(p)
  /\ pstate[zombie] = "zombie" /\ zombie # init_process
  /\ free_proc(zombie, used)
  /\ UNCHANGED <<mode, locals>>
-----------------------------------------------------------------------------
\* The pages start to end - 1 of p are unmapped and their frames freed.
Unmapped_PteKept(p, start, end) == pt
Unmapped(p, start, end) ==
  [pt EXCEPT ![p] = [v \in Page |-> IF v \in start..(end - 1) THEN NULL ELSE pt[p][v]]]
UnmapPages(p, start, end) ==
  /\ used' = used \ {pt[p][v] : v \in start..(end - 1)}
  /\ pt' = Unmapped(p, start, end)

\* KernelExec frees the old image.  LoadProgram's own loop over it, which leaves
\* out the last page, finds no valid page any more.
OldImageEnd_AsInLoadProgram == MAX_PT_LEN - 1
OldImageEnd == MAX_PT_LEN
ThrowAway(p) ==
  /\ UnmapPages(p, 0, OldImageEnd)
  /\ ruined' = ruined \cup {p}

KernelExec(p, prog) ==
  /\ Runs(p)
  /\ Fits(prog)
  /\ ThrowAway(p)
  /\ mode' = "load" /\ caller' = p /\ li' = prog /\ todo' = ProgramPages(prog)
  /\ UNCHANGED <<kernel_stack_frames, pstate, breaks, child, first_frame_used,
                 frames_used, brk_vpn>>

\* LoadProgram refuses: no such file, not a program, too big, no memory for the
\* arguments.  Exec returns ERROR.
KernelExecRefused(p) ==
  /\ Runs(p)
  /\ ThrowAway(p)
  /\ UNCHANGED <<kernel_stack_frames, pstate, breaks, mode, locals>>

LoadPage ==
  /\ mode = "load" /\ todo # {}
  /\ MapPage(caller)
  /\ UNCHANGED <<kernel_stack_frames, pstate, breaks, ruined, first_frame_used,
                 frames_used>>

\* No frame: ERROR, and what has been mapped stays.
LoadNoFrame ==
  /\ mode = "load" /\ todo # {}
  /\ Exhausted
  /\ Return
  /\ UNCHANGED <<used, tables, pstate, breaks, ruined>>

\* The file cannot be read to its end: KILL, which KernelExec takes for success.
LoadReadFails ==
  /\ mode = "load" /\ todo = {}
  /\ Return
  /\ UNCHANGED <<used, tables, pstate, breaks, ruined>>

\* The program is in memory.  Both breaks are page numbers within region 1.
LoadedStackPtr_Address(prog) == MAX_PT_LEN + StackStart(prog)
LoadedStackPtr(prog) == StackStart(prog)
LoadDone ==
  /\ mode = "load" /\ todo = {}
  /\ user_heap_brk' = [user_heap_brk EXCEPT ![caller] = DataEnd(li)]
  /\ user_stack_ptr' = [user_stack_ptr EXCEPT ![caller] = LoadedStackPtr(li)]
  /\ ruined' = ruined \ {caller}
  /\ Return
  /\ UNCHANGED <<used, tables, pstate>>
-----------------------------------------------------------------------------
\* KernelBrk for the address whose page, rounded up, is new_brk.  A break that
\* is still a page number within region 1 counts as the start of the region.
OldVpn(p) == IF user_heap_brk[p] < MAX_PT_LEN THEN 0 ELSE user_heap_brk[p] - MAX_PT_LEN

HitsStack_NoGap(p, new_vpn) == new_vpn > user_stack_ptr[p]
HitsStack(p, new_vpn) == new_vpn >= user_stack_ptr[p] - 1

\* Growing maps the pages from the old break on that are not mapped yet.
GrowPages_OneShort(p, new_vpn) ==
  {v \in OldVpn(p)..(new_vpn - 2) : pt[p][v] = NULL}
GrowPages(p, new_vpn) == {v \in OldVpn(p)..(new_vpn - 1) : pt[p][v] = NULL}
KernelBrkGrow(p, new_brk) ==
  /\ Runs(p)
  /\ new_brk >= MAX_PT_LEN
  /\ ~HitsStack(p, new_brk - MAX_PT_LEN)
  /\ new_brk - MAX_PT_LEN > OldVpn(p)
  /\ mode' = "brk" /\ caller' = p
  /\ brk_vpn' = new_brk - MAX_PT_LEN
  /\ todo' = GrowPages(p, new_brk - MAX_PT_LEN)
  /\ UNCHANGED <<used, tables, pstate, breaks, ruined, child, first_frame_used,
                 frames_used, li>>

BrkPage ==
  /\ mode = "brk" /\ todo # {}
  /\ MapPage(caller)
  /\ UNCHANGED <<kernel_stack_frames, pstate, breaks, ruined, first_frame_used,
                 frames_used>>

\* No frame: every page of the range so far is unmapped, those that the loop
\* found valid too.
BrkNoFrame ==
  /\ mode = "brk" /\ todo # {}
  /\ Exhausted
  /\ UnmapPages(caller, OldVpn(caller), vpn)
  /\ Return
  /\ UNCHANGED <<kernel_stack_frames, pstate, breaks, ruined>>

BrkDone ==
  /\ mode = "brk" /\ todo = {}
  /\ user_heap_brk' = [user_heap_brk EXCEPT ![caller] = MAX_PT_LEN + brk_vpn]
  /\ Return
  /\ UNCHANGED <<used, tables, pstate, user_stack_ptr, ruined>>

\* Shrinking.
KernelBrkShrink(p, new_brk) ==
  /\ Runs(p)
  /\ new_brk >= MAX_PT_LEN
  /\ ~HitsStack(p, new_brk - MAX_PT_LEN)
  /\ new_brk - MAX_PT_LEN < OldVpn(p)
  /\ UnmapPages(p, new_brk - MAX_PT_LEN, OldVpn(p))
  /\ user_heap_brk' = [user_heap_brk EXCEPT ![p] = new_brk]
  /\ UNCHANGED <<kernel_stack_frames, pstate, user_stack_ptr, ruined, mode, locals>>
-----------------------------------------------------------------------------
\* The address is above the start of page: in a later page, or inside page.
Above(addr, inside, page) == addr > page \/ (addr = page /\ inside)

\* abort does nothing: the instruction that trapped is executed again, traps
\* again, and so on for ever.
abort(p) == pstate' = [pstate EXCEPT ![p] = "stuck"]

HandleIllegalTrap(p) ==
  Runs(p) /\ abort(p) /\ UNCHANGED <<used, tables, breaks, ruined, mode, locals>>
HandleMathTrap(p) ==
  Runs(p) /\ abort(p) /\ UNCHANGED <<used, tables, breaks, ruined, mode, locals>>

\* HandleMemoryTrap, for an address in the page addr.  The stack is grown from
\* the page of the address, counted from 0, to that of the stack pointer,
\* counted as LoadProgram or the last fault left it: no page, or pages beyond
\* the end of the table, and then the model stops.  In every other case it
\* aborts.  Either way the page is not mapped, and the fault comes again.
HandleMemoryTrap(p, addr, inside) ==
  /\ Runs(p)
  /\ LET grows == Above(addr, inside, MAX_PT_LEN) /\ Above(addr, inside, user_heap_brk[p])
     IN  /\ user_stack_ptr' = IF grows THEN [user_stack_ptr EXCEPT ![p] = addr]
                                       ELSE user_stack_ptr
         /\ mode' = IF grows /\ addr < user_stack_ptr[p] THEN "overrun" ELSE mode
  /\ abort(p)
  /\ UNCHANGED <<used, tables, user_heap_brk, ruined, locals>>
-----------------------------------------------------------------------------
ForkStep == ForkCopy \/ ForkNoFrame \/ ForkDone
LoadStep == LoadPage \/ LoadNoFrame \/ LoadReadFails \/ LoadDone
BrkStep  == BrkPage \/ BrkNoFrame \/ BrkDone

Syscall(p) ==
  \/ \E new \in Pcb : KernelFork(p, new)
  \/ KernelForkNoStack(p)
  \/ KernelExit(p)
  \/ \E zombie \in Pcb : KernelWait(p, zombie)
  \/ \E prog \in Programs : KernelExec(p, prog)
  \/ KernelExecRefused(p)
  \/ \E new_brk \in Breaks :
       KernelBrkGrow(p, new_brk) \/ KernelBrkShrink(p, new_brk)

Next ==
  \/ ForkStep \/ LoadStep \/ BrkStep
  \/ \E p \in Pcb : \/ Syscall(p)
                    \/ HandleIllegalTrap(p) \/ HandleMathTrap(p)
                    \/ \E fault \in Faults : HandleMemoryTrap(p, fault[1], fault[2])

Spec == Init /\ [][Next]_vars
=============================================================================
