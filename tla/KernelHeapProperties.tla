------------------------ MODULE KernelHeapProperties ------------------------
(***************************************************************************)
(* What must hold of region 0 and of the frames it shares with processes.  *)
(***************************************************************************)
EXTENDS KernelHeap

\* Type invariant: the table maps pages to frames, the break is an address in
\* the heap once there is virtual memory, and below the stack always.
TypeOK ==
  /\ vm_enabled \in BOOLEAN
  /\ used \subseteq Frame
  /\ kernel_page_table \in [Page -> Frame \cup {NULL}]
  /\ current_kernel_brk \in 0..(heap_end_limit - 1)
  /\ heap_end \in heap_start..(heap_end_limit - 1)
  /\ current_process \in Pcb \cup {NULL}
  /\ kernel_stack_frames \in [Pcb -> [KStack -> Frame \cup {NULL}]]
  /\ user_frames \subseteq Frame
  /\ growing \in BOOLEAN
  /\ new_kbrk_addr \in 0..(heap_end_limit - 1)
  /\ todo \subseteq orig_kernel_brk_page..holdvpn
-----------------------------------------------------------------------------
HeapPages == orig_kernel_brk_page..holdvpn
HeapFrames == {kernel_page_table[v] : v \in HeapPages} \ {NULL}
StackFramesOf(p) == {kernel_stack_frames[p][v] : v \in KStack} \ {NULL}
ProcessFrames == user_frames \cup UNION {StackFramesOf(p) : p \in Pcb}

\* Region 0 is the kernel's alone: no two of its pages share a frame, and what
\* the heap has is marked in use, is none of the frames under text, data and
\* stack, and belongs to no process, however heap and processes have run each
\* other out of frames.
RegionZeroIsolated ==
  /\ \A v, w \in Page :
       kernel_page_table[v] = kernel_page_table[w] /\ kernel_page_table[v] # NULL
       => v = w
  /\ HeapFrames \subseteq used \ Reserved
  /\ HeapFrames \cap ProcessFrames = {}
  /\ ProcessFrames \subseteq used

\* The kernel runs on the stack of the current process: whatever SetKernelBrk
\* maps and unmaps, the stack pages are those of the process whose context it
\* is, text and data are where they were, and nobody else's stack is mapped.
StackIsCurrent ==
  /\ current_process # NULL =>
       \A v \in KStack :
         kernel_page_table[v] = kernel_stack_frames[current_process][v]
  /\ vm_enabled =>
       \A v \in 0..(orig_kernel_brk_page - 1) \cup KStack :
         kernel_page_table[v] # NULL <=> v >= first_kernel_text_page

\* All of the heap below the break is mapped, after growth that failed half way
\* too, but for one page: the one that KCCopy and data_copy take for their
\* copies, which SetKernelBrk does not keep out of the heap.
HeapBelowBreakMapped ==
  Between =>
    \A v \in orig_kernel_brk_page..(UP_TO_PAGE(current_kernel_brk) - 1) \ {holdvpn} :
      kernel_page_table[v] # NULL

\* Frames are lost, in use and held by nobody, in two ways only: with a kernel
\* stack for which there is just one, and with the heap's last page, when a copy
\* unmaps it under malloc's data.  A failing growth loses none.
Lost == used \ (Reserved \cup HeapFrames \cup ProcessFrames)
LastHeapPageTaken ==
  /\ kernel_page_table[holdvpn] # NULL
  /\ data_copy \/ \E p \in Pcb : KCCopy(p)
FramesLostOnlyByCopies ==
  [][Lost' \subseteq Lost \/ create_sframesFails \/ LastHeapPageTaken]_vars

\* Every frame gets from the heap to a process, and back, only through the free
\* frames: nobody has what the other still uses.  The heap alone may drop a frame.
Heap == "heap"
Region1 == "region 1"

\* These two names are no PCB's.
ASSUME HolderAssumption == Heap \notin Pcb /\ Region1 \notin Pcb

FT == INSTANCE FrameTable
        WITH Holder   <- Pcb \cup {Heap, Region1},
             Careless <- {Heap},
             free     <- Frame \ used,
             holds    <- [h \in Pcb \cup {Heap, Region1} |->
                            CASE h = Heap    -> HeapFrames
                              [] h = Region1 -> user_frames
                              [] OTHER       -> StackFramesOf(h) \ Reserved]
ImplementsFrameTable == FT!Spec
-----------------------------------------------------------------------------
(* The inductive invariant.  RegionZeroIsolated is not inductive alone: it  *)
(* takes the frames of processes as one set, and a frame two stacks shared  *)
(* would be freed with the first of them.                                   *)

\* Heap, region 1 tables and kernel stacks share no frame.  Idle's stack is where
\* the kernel booted; every other process has two frames for its own, or none.
HeldOnce ==
  /\ Reserved \subseteq used
  /\ HeapFrames \cup user_frames \subseteq used \ Reserved
  /\ HeapFrames \cap user_frames = {}
  /\ \A v, w \in HeapPages :
       kernel_page_table[v] = kernel_page_table[w] /\ kernel_page_table[v] # NULL => v = w
  /\ \A p \in Pcb \ {idle_process} :
       /\ StackFramesOf(p) \subseteq used \ (Reserved \cup HeapFrames \cup user_frames)
       /\ \A q \in Pcb \ {idle_process, p} : StackFramesOf(p) \cap StackFramesOf(q) = {}

Stacks ==
  \A p \in Pcb : Exists(p) =>
    /\ \A v \in KStack : kernel_stack_frames[p][v] # NULL
    /\ kernel_stack_frames[p][stack_page] # kernel_stack_frames[p][stack_page + 1]
    /\ p = idle_process => \A v \in KStack : kernel_stack_frames[p][v] = v

\* Virtual memory comes before idle, and idle before all other processes.
BootOrder ==
  /\ ~vm_enabled => /\ current_process = NULL /\ used = Reserved
                    /\ \A v \in Page : kernel_page_table[v] = NULL
  /\ current_process = NULL => user_frames = {} /\ \A p \in Pcb : ~Exists(p)
  /\ current_process # NULL => Exists(current_process) /\ Exists(idle_process)

\* Text and data are where they were loaded, and the stack is the current one.
TextAndStack ==
  vm_enabled =>
    /\ \A v \in 0..(orig_kernel_brk_page - 1) :
         kernel_page_table[v] = IF v >= first_kernel_text_page THEN v ELSE NULL
    /\ \A v \in KStack :
         kernel_page_table[v] =
           IF current_process = NULL THEN v ELSE kernel_stack_frames[current_process][v]

\* SetKernelBrk has mapped the pages of its range but for those still to come.
Growth ==
  /\ vm_enabled =>
       /\ heap_start <= current_kernel_brk
       /\ \A v \in orig_kernel_brk_page..(UP_TO_PAGE(current_kernel_brk) - 1) \ {holdvpn} :
            kernel_page_table[v] # NULL
  /\ growing =>
       /\ vm_enabled
       /\ heap_start <= new_kbrk_addr
       /\ todo \subseteq UP_TO_PAGE(current_kernel_brk)..(UP_TO_PAGE(new_kbrk_addr) - 1)
       /\ \A v \in UP_TO_PAGE(current_kernel_brk)..(UP_TO_PAGE(new_kbrk_addr) - 1) :
            kernel_page_table[v] = NULL <=> v \in todo

IInv == TypeOK /\ HeldOnce /\ Stacks /\ BootOrder /\ TextAndStack /\ Growth
-----------------------------------------------------------------------------
\* "Build Region 0 mappings for kernel text, data, heap, and stack"
\* (KernelStart): what malloc has been granted is mapped.  The break it reached
\* before virtual memory was on is forgotten, and its pages are not mapped.
GrantedIsMapped ==
  Between =>
    \A v \in orig_kernel_brk_page..(UP_TO_PAGE(heap_end) - 1) :
      kernel_page_table[v] # NULL
=============================================================================
