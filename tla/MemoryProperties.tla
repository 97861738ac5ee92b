-------------------------- MODULE MemoryProperties --------------------------
(***************************************************************************)
(* What must hold of the frames and page tables of module Memory.  Where   *)
(* rollback_frames has freed the frames of others (mode "astray") nothing  *)
(* is promised any more.                                                   *)
(***************************************************************************)
EXTENDS Memory

\* Type invariant: tables map pages to frames, breaks are page numbers of
\* either kind, and Fork counts no more pages than a table has.
TypeOK ==
  /\ used \subseteq Frame
  /\ pt \in [Pcb -> [Page -> Frame \cup {NULL}]]
  /\ kernel_stack_frames \in [Pcb -> [KStack -> Frame \cup {NULL}]]
  /\ pstate \in [Pcb -> {"none", "live", "zombie", "stuck"}]
  /\ user_heap_brk \in [Pcb -> 0..(2 * MAX_PT_LEN)]
  /\ user_stack_ptr \in [Pcb -> 0..(2 * MAX_PT_LEN)]
  /\ ruined \subseteq Pcb
  /\ mode \in {"user", "fork", "load", "brk", "astray", "overrun"}
  /\ mode \in {"fork", "load", "brk"} => caller \in Pcb \ {idle_process}
  /\ mode = "fork" => child \in Pcb /\ pstate[child] = "none"
  /\ mode = "load" => li \in Programs /\ Fits(li)
  /\ todo \subseteq Page
  /\ brk_vpn \in 0..MAX_PT_LEN
  /\ first_frame_used \in Frame \cup {0}
  /\ frames_used \in 0..MAX_PT_LEN
-----------------------------------------------------------------------------
\* A frame is mapped once: no two pages, of one process or of two, and no page
\* and kernel stack share a frame, nor do two kernel stacks.
MappedOnce ==
  /\ \A p \in Pcb : \A v \in Page : pt[p][v] # NULL =>
       /\ \A q \in Pcb : \A w \in Page : pt[p][v] = pt[q][w] => p = q /\ v = w
       /\ \A q \in Pcb : \A i \in KStack : pt[p][v] # kernel_stack_frames[q][i]
  /\ \A p \in Pcb : \A i \in KStack : kernel_stack_frames[p][i] # NULL =>
       \A q \in Pcb : \A j \in KStack :
         kernel_stack_frames[p][i] = kernel_stack_frames[q][j] => p = q /\ i = j

\* A frame that somebody holds is marked in use, so that find_frame cannot give
\* it away, and the kernel's own frames are in nobody's table.
HeldIsInUse ==
  /\ Reserved \subseteq used
  /\ \A p \in Pcb : \A v \in Page : pt[p][v] # NULL => pt[p][v] \in used \ Reserved
  /\ \A p \in Pcb : \A i \in KStack : kernel_stack_frames[p][i] # NULL =>
       kernel_stack_frames[p][i] \in (IF p = idle_process THEN used ELSE used \ Reserved)

\* Who has a kernel stack: every process that is not gone.  What is gone, and is
\* not just being made, holds nothing.
StackForAll ==
  \A p \in Pcb :
    IF pstate[p] # "none" THEN \A i \in KStack : kernel_stack_frames[p][i] # NULL
    ELSE (mode = "fork" /\ p = child) \/ Owned(p) = {}

\* Frame isolation: no process can reach the memory of another, of the kernel
\* or of a process that has been reaped, whatever Fork, Exec, Brk and Wait did
\* and wherever they ran out of frames.
FrameIsolation == mode # "astray" => MappedOnce /\ HeldIsInUse /\ StackForAll
-----------------------------------------------------------------------------
\* Frames are lost, in use and held by nobody, only when Fork finds a frame for
\* the first page of a kernel stack and none for the second: every other error
\* path, rollback and replacement of an image gives back what it took.
HeldBySomebody == UNION {Owned(p) : p \in Pcb}
Lost == used \ (HeldBySomebody \cup Reserved)
FramesLostOnlyByFork ==
  [][Lost' \subseteq Lost
     \/ mode' = "astray"
     \/ \E p \in Pcb : KernelForkNoStack(p)]_<<used, tables>>

\* Every frame goes from one process to another only through the free frames,
\* whichever call runs out of them and where; after a rollback that has gone
\* astray nothing more is promised.
FT == INSTANCE FrameTable
        WITH Holder   <- Pcb,
             Careless <- {},
             free     <- Frame \ used,
             holds    <- [p \in Pcb |-> Owned(p) \ Reserved]
ImplementsFrameTable == FT!Init /\ [][FT!Step \/ mode' = "astray"]_<<used, tables>>

\* The memory trap never writes beyond a page table.  It would, as soon as a
\* process took a second fault below its first; it cannot, since the first one
\* is never served.
NoOverrun == mode # "overrun"

\* The page below the stack is never mapped, so that a stack that runs over
\* faults before it reaches the heap.
GuardPage ==
  \A p \in Pcb \ (ruined \cup {idle_process}) :
    pstate[p] # "none" /\ user_stack_ptr[p] < MAX_PT_LEN =>
      pt[p][user_stack_ptr[p] - 1] = NULL

\* A process has all the heap that Brk told it it has, also after Fork, and
\* after Brk failed later on.
HeapMapped ==
  \A p \in Pcb \ ruined :
    pstate[p] # "none" /\ user_heap_brk[p] >= MAX_PT_LEN =>
      \A v \in 0..(user_heap_brk[p] - MAX_PT_LEN - 1) : pt[p][v] # NULL
-----------------------------------------------------------------------------
(* The inductive invariant.  FrameIsolation and HeapMapped are not inductive *)
(* alone: they need what the loops have done so far to be known at each page. *)

\* Idle never calls and never ends; a process that has not faulted has its stack
\* pointer as LoadProgram left it, and one with an image has a page below it.
Images ==
  /\ pstate[idle_process] = "live" /\ user_heap_brk[idle_process] = 0
  /\ \A p \in Pcb : pstate[p] = "live" => user_stack_ptr[p] < MAX_PT_LEN
  /\ \A p \in Pcb \ (ruined \cup {idle_process}) :
       pstate[p] # "none" => user_stack_ptr[p] > 0

\* Fork's child has its stack, and the pages of its parent but for those still
\* to come, of which there are none below the number of those it has.  Between
\* two calls no page is counted, so that the next Fork starts from none.
ForkState ==
  /\ mode = "user" => frames_used = 0
  /\ mode = "fork" =>
    /\ pstate[caller] = "live"
    /\ \A i \in KStack : kernel_stack_frames[child][i] # NULL
    /\ \A v \in Page : /\ pt[caller][v] # NULL <=> pt[child][v] # NULL \/ v \in todo
                       /\ v \in todo => pt[child][v] = NULL /\ frames_used <= v

\* LoadProgram has mapped nothing but the program.
LoadState ==
  mode = "load" =>
    /\ pstate[caller] = "live" /\ caller \in ruined
    /\ todo \subseteq ProgramPages(li)
    /\ \A v \in Page : pt[caller][v] # NULL => v \in ProgramPages(li) \ todo

\* Brk has mapped the pages of its range but for those still to come, and keeps
\* clear of the stack.
BrkState ==
  mode = "brk" =>
    /\ pstate[caller] = "live"
    /\ ~HitsStack(caller, brk_vpn)
    /\ todo \subseteq OldVpn(caller)..(brk_vpn - 1)
    /\ \A v \in OldVpn(caller)..(brk_vpn - 1) : pt[caller][v] = NULL <=> v \in todo

IInv == /\ TypeOK /\ FrameIsolation /\ Images /\ ForkState /\ LoadState /\ BrkState
        /\ NoOverrun /\ GuardPage /\ HeapMapped
-----------------------------------------------------------------------------
(* What the comments say and the code does not do.                         *)

\* A process that Brk has granted no break yet has every page LoadProgram gave it.
LoadedAs(p, prog) ==
  user_heap_brk[p] = DataEnd(prog) /\ user_stack_ptr[p] = StackStart(prog)
HasImage(p) ==
  user_heap_brk[p] < MAX_PT_LEN =>
    \E prog \in Programs :
      LoadedAs(p, prog) /\ \A v \in ProgramPages(prog) : pt[p][v] # NULL

\* "From this point on, we are committed to either loading succesfully or
\* killing the process" (LoadProgram), "roll page pages we just mapped"
\* (KernelBrk): a process that can go on has an image, and a Brk that fails takes
\* none of it.  Exec frees the old image first and returns from every error.  The
\* first Brk grows over the program from the start of region 1, skips its pages,
\* and unmaps them with the others when it runs out of frames.
RunnableHasImage ==
  mode = "user" =>
    \A p \in Pcb \ {idle_process} :
      pstate[p] = "live" => p \notin ruined /\ HasImage(p)

\* "If there is an error free allocated frames and free the proc" (KernelFork):
\* the rollback frees nothing but what Fork had allocated.  It takes the count of
\* those frames for the number of the last one, so a process may be left holding
\* a frame that find_frame will give to the next that asks.
HeldFramesInUse == HeldIsInUse
=============================================================================
