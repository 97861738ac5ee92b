-------------------------- MODULE KernelHeapProofs --------------------------
(***************************************************************************)
(* Proofs about module KernelHeap, for any number of processes, pages and  *)
(* frames, any page size, and whatever addresses malloc asks for.          *)
(***************************************************************************)
EXTENDS KernelHeapProperties, FiniteSetTheorems, TLAPS

QF == INSTANCE QueueFacts
-----------------------------------------------------------------------------
(* Constants and page numbers.                                             *)

LEMMA Constants ==
  /\ idle_process \in Pcb
  /\ PAGESIZE \in Nat /\ PAGESIZE > 0
  /\ MAX_PT_LEN \in Nat /\ frame_count \in Nat
  /\ first_kernel_text_page \in Nat /\ orig_kernel_brk_page \in Nat
  /\ first_kernel_text_page <= orig_kernel_brk_page
  /\ orig_kernel_brk_page < MAX_PT_LEN - 3
  /\ MAX_PT_LEN <= frame_count
  /\ Requests \subseteq Nat
  /\ NULL \notin Frame /\ NULL \notin Pcb
BY KernelHeapAssumption DEF holdvpn, stack_page

\* The pages of region 0: text and data, heap, kernel stack.
LEMMA Pages ==
  /\ stack_page \in Nat /\ holdvpn \in Nat
  /\ stack_page = MAX_PT_LEN - 2 /\ holdvpn = MAX_PT_LEN - 3
  /\ Page = 0..(orig_kernel_brk_page - 1) \cup HeapPages \cup KStack
  /\ HeapPages \subseteq Page /\ KStack \subseteq Page /\ holdvpn \in HeapPages
  /\ 0..(orig_kernel_brk_page - 1) \subseteq Page
  /\ HeapPages \cap KStack = {}
  /\ HeapPages \cap 0..(orig_kernel_brk_page - 1) = {}
  /\ KStack \cap 0..(orig_kernel_brk_page - 1) = {}
  /\ Page \subseteq Frame /\ Reserved \subseteq Frame
  /\ Reserved = 0..(orig_kernel_brk_page - 1) \cup {holdvpn} \cup KStack
BY Constants DEF stack_page, holdvpn, Page, HeapPages, KStack, Frame, Reserved

\* Quotients.
LEMMA Quotient ==
  ASSUME NEW a \in Nat, NEW b \in Nat, b > 0
  PROVE  /\ a \div b \in Nat
         /\ (a \div b) * b <= a
         /\ a < (a \div b) * b + b
OBVIOUS

LEMMA QuotientBound ==
  ASSUME NEW m \in Nat, NEW n \in Nat, NEW b \in Nat, b > 0, m * b < n * b + b
  PROVE  m <= n
<1> SUFFICES ASSUME m >= n + 1 PROVE FALSE
  OBVIOUS
<1>1. PICK d \in Nat : m = n + 1 + d
  <2>1. m - (n + 1) \in Nat /\ m = n + 1 + (m - (n + 1))
    OBVIOUS
  <2> QED
    BY <2>1
<1>2. m * b = n * b + b + d * b
  BY <1>1
<1>3. d * b >= 0
  BY <1>1
<1>4. n * b \in Nat /\ d * b \in Nat /\ m * b \in Nat
  BY <1>1
<1> QED
  BY <1>2, <1>3, <1>4

\* UP_TO_PAGE is the number of pages that it takes to get to an address.
LEMMA UpToPage ==
  ASSUME NEW a \in Nat
  PROVE  /\ UP_TO_PAGE(a) \in Nat
         /\ a <= UP_TO_PAGE(a) * PAGESIZE
         /\ UP_TO_PAGE(a) * PAGESIZE < a + PAGESIZE
<1> DEFINE c == a + PAGESIZE - 1
           u == c \div PAGESIZE
<1>1. c \in Nat /\ PAGESIZE \in Nat /\ PAGESIZE > 0
  BY Constants
<1> HIDE DEF c
<1>2. u \in Nat /\ u * PAGESIZE <= c /\ c < u * PAGESIZE + PAGESIZE
  BY <1>1, Quotient
<1>3. u * PAGESIZE \in Nat
  BY <1>1, <1>2
<1> HIDE DEF u
<1> QED
  BY <1>1, <1>2, <1>3 DEF UP_TO_PAGE, u, c

\* The pages of an address in the heap are pages of the heap.
LEMMA HeapAddress ==
  ASSUME NEW a \in Nat, InHeap(a)
  PROVE  UP_TO_PAGE(a) \in orig_kernel_brk_page..stack_page
<1> DEFINE u == UP_TO_PAGE(a)
<1>1. u \in Nat /\ a <= u * PAGESIZE /\ u * PAGESIZE < a + PAGESIZE
  BY UpToPage
<1>2. /\ PAGESIZE \in Nat /\ PAGESIZE > 0 /\ orig_kernel_brk_page \in Nat
      /\ stack_page \in Nat
      /\ orig_kernel_brk_page * PAGESIZE <= a /\ a < stack_page * PAGESIZE
  BY Constants, Pages DEF InHeap, heap_start, heap_end_limit
<1> HIDE DEF u
<1>3. /\ u * PAGESIZE \in Nat /\ stack_page * PAGESIZE \in Nat
      /\ orig_kernel_brk_page * PAGESIZE \in Nat
  BY <1>1, <1>2
<1>4. /\ orig_kernel_brk_page * PAGESIZE < u * PAGESIZE + PAGESIZE
      /\ u * PAGESIZE < stack_page * PAGESIZE + PAGESIZE
  BY <1>1, <1>2, <1>3
<1>5. orig_kernel_brk_page <= u /\ u <= stack_page
  BY <1>1, <1>2, <1>4, QuotientBound
<1> QED
  BY <1>1, <1>2, <1>5 DEF u

\* The heap starts at the start of a page.
LEMMA HeapStart ==
  heap_start \in Nat /\ UP_TO_PAGE(heap_start) = orig_kernel_brk_page
  /\ heap_start < heap_end_limit /\ heap_end_limit \in Nat
<1> DEFINE h == orig_kernel_brk_page * PAGESIZE
           l == stack_page * PAGESIZE
           u == UP_TO_PAGE(h)
<1>1. /\ PAGESIZE \in Nat /\ PAGESIZE > 0 /\ orig_kernel_brk_page \in Nat
      /\ stack_page \in Nat /\ orig_kernel_brk_page < stack_page
  BY Constants, Pages
<1>2. h \in Nat /\ l \in Nat
  BY <1>1
<1>3. h < l
  <2>1. PICK d \in Nat : stack_page = orig_kernel_brk_page + 1 + d
    <3>1. stack_page - (orig_kernel_brk_page + 1) \in Nat
      BY <1>1
    <3> QED
      BY <1>1, <3>1
  <2>2. l = h + PAGESIZE + d * PAGESIZE
    BY <1>1, <2>1
  <2>3. d * PAGESIZE \in Nat
    BY <1>1
  <2> QED
    BY <1>1, <1>2, <2>2, <2>3
<1>4. u \in Nat /\ h <= u * PAGESIZE /\ u * PAGESIZE < h + PAGESIZE /\ u * PAGESIZE \in Nat
  BY <1>1, <1>2, UpToPage
<1> HIDE DEF u
<1>5. u <= orig_kernel_brk_page
  BY <1>1, <1>4, QuotientBound
<1>6. orig_kernel_brk_page <= u
  <2>1. orig_kernel_brk_page * PAGESIZE < u * PAGESIZE + PAGESIZE
    BY <1>1, <1>2, <1>4
  <2> QED
    BY <1>1, <1>4, <2>1, QuotientBound
<1> QED
  BY <1>1, <1>2, <1>3, <1>4, <1>5, <1>6 DEF heap_start, heap_end_limit, u
-----------------------------------------------------------------------------
(* Frames and who has them.                                                *)

\* The frame that find_frame gives is one that was not taken.
LEMMA FindFrame ==
  ASSUME NEW taken, Frame \ taken # {}
  PROVE  find_frame(taken) \in Frame \ taken
<1> DEFINE Free == Frame \ taken
<1>1. Free \subseteq Nat /\ Free # {}
  BY Constants DEF Frame
<1> HIDE DEF Free
<1>2. \E f \in Free : \A g \in Free : f <= g
  BY <1>1, QF!LeastPosition
<1> QED
  BY <1>2 DEF find_frame, Free

\* The heap has the frames of its pages, a process those of its kernel stack.
LEMMA HeapFramesDef ==
  ASSUME NEW f
  PROVE  /\ f \in HeapFrames <=> f # NULL /\ \E v \in HeapPages : kernel_page_table[v] = f
         /\ f \in HeapFrames' <=> f # NULL /\ \E v \in HeapPages : kernel_page_table'[v] = f
BY DEF HeapFrames, HeapPages, holdvpn, stack_page

LEMMA StackFramesDef ==
  ASSUME NEW p, NEW f
  PROVE  /\ f \in StackFramesOf(p) <=> f # NULL /\ \E v \in KStack : kernel_stack_frames[p][v] = f
         /\ f \in StackFramesOf(p)' <=> f # NULL /\ \E v \in KStack : kernel_stack_frames'[p][v] = f
BY DEF StackFramesOf, KStack, stack_page

\* Who has no stack has no frame, and who has one has two, idle those that
\* init_frames reserves.
LEMMA StackOwner ==
  ASSUME IInv
  PROVE  /\ \A p \in Pcb : ~Exists(p) => StackFramesOf(p) = {}
         /\ StackFramesOf(idle_process) \subseteq Reserved
         /\ \A p \in Pcb : Exists(p) => \A v \in KStack :
              kernel_stack_frames[p][v] \in StackFramesOf(p)
<1>1. ASSUME NEW p \in Pcb, ~Exists(p), NEW f \in StackFramesOf(p) PROVE FALSE
  BY <1>1, StackFramesDef DEF Exists, NoStack
<1>2. ASSUME NEW f \in StackFramesOf(idle_process) PROVE f \in Reserved
  <2>1. Exists(idle_process)
    BY <1>1, Constants
  <2>2. \A v \in KStack : kernel_stack_frames[idle_process][v] = v
    BY <2>1, Constants DEF IInv, Stacks
  <2> QED
    BY <2>2, StackFramesDef, Pages
<1>3. ASSUME NEW p \in Pcb, Exists(p), NEW v \in KStack
      PROVE  kernel_stack_frames[p][v] \in StackFramesOf(p)
  BY <1>3, StackFramesDef DEF IInv, Stacks
<1> QED
  BY <1>1, <1>2, <1>3

\* Heap, region 1 and stacks gain nothing but frames that were free, lose
\* nothing but frames that become free, and nothing else becomes free.
HeapDeals    == /\ HeapFrames' \ HeapFrames \subseteq used' \ used
                /\ (HeapFrames \ HeapFrames') \cap used' = {}
RegionDeals  == /\ user_frames' \ user_frames \subseteq used' \ used
                /\ (user_frames \ user_frames') \cap used' = {}
StackDeals(p) == /\ StackFramesOf(p)' \ (StackFramesOf(p) \cup Reserved) \subseteq used' \ used
                 /\ (StackFramesOf(p) \ StackFramesOf(p)') \cap used' = {}
FreedWasHeld ==
  \A f \in used \ used' :
    \/ f \in HeapFrames \ HeapFrames'
    \/ f \in user_frames \ user_frames'
    \/ \E p \in Pcb : f \in StackFramesOf(p) \ StackFramesOf(p)'

\* That is a step of the abstract frame table.
LEMMA DealStep ==
  ASSUME IInv, HeldOnce', used' \subseteq Frame,
         HeapFrames' \ HeapFrames \subseteq used' \ used,
         RegionDeals, \A p \in Pcb : StackDeals(p), FreedWasHeld,
         \A p \in Pcb : p = idle_process => StackFramesOf(p)' \subseteq Reserved
  PROVE  FT!Step
<1> DEFINE Holders == Pcb \cup {Heap, Region1}
           H == [h \in Holders |-> CASE h = Heap    -> HeapFrames
                                     [] h = Region1 -> user_frames
                                     [] OTHER       -> StackFramesOf(h) \ Reserved]
           G == [h \in Holders |-> CASE h = Heap    -> HeapFrames'
                                     [] h = Region1 -> user_frames'
                                     [] OTHER       -> StackFramesOf(h)' \ Reserved]
<1>1. Reserved' = Reserved /\ Reserved \subseteq used /\ used \subseteq Frame
  BY DEF Reserved, IInv, HeldOnce, TypeOK, holdvpn, KStack, stack_page
<1>2. /\ Heap # Region1 /\ Heap \notin Pcb /\ Region1 \notin Pcb
  BY HolderAssumption DEF Heap, Region1
<1>3. /\ H[Heap] = HeapFrames /\ G[Heap] = HeapFrames'
      /\ H[Region1] = user_frames /\ G[Region1] = user_frames'
      /\ \A p \in Pcb : H[p] = StackFramesOf(p) \ Reserved /\ G[p] = StackFramesOf(p)' \ Reserved
  BY <1>2
<1> HIDE DEF H, G
<1>4. \A h \in Holders : G[h] \ H[h] \subseteq used' \ used
  BY <1>3 DEF RegionDeals, StackDeals
<1>5. \A g, h \in Holders : g # h => G[g] \cap G[h] = {}
  <2>1. /\ G[Heap] \cap G[Region1] = {}
        /\ \A p \in Pcb : G[p] \cap (G[Heap] \cup G[Region1]) = {}
    BY <1>1, <1>3 DEF HeldOnce
  <2>2. \A p, q \in Pcb : p # q => G[p] \cap G[q] = {}
    BY <1>1, <1>3 DEF HeldOnce
  <2> QED
    BY <2>1, <2>2
<1>6. \A h \in Holders \ {Heap} : (H[h] \ G[h]) \cap used' = {} /\ H[h] \subseteq Frame
  <2>1. \A p \in Pcb : StackFramesOf(p) \ Reserved \subseteq Frame
    BY <1>1, StackOwner DEF IInv, HeldOnce
  <2> QED
    BY <1>1, <1>3, <2>1 DEF RegionDeals, StackDeals, IInv, TypeOK
<1>7. \A f \in used \ used' : \E h \in Holders : f \in H[h] \ G[h]
  <2>1. ASSUME NEW f \in used \ used' PROVE f \notin Reserved
    BY <1>1 DEF HeldOnce
  <2> QED
    BY <1>3, <2>1 DEF FreedWasHeld
<1>8. /\ \A h \in Holders : G[h] \ H[h] \subseteq (Frame \ used) \ (Frame \ used')
      /\ \A f \in (Frame \ used) \ (Frame \ used') : \A g, h \in Holders :
           f \in G[g] \ H[g] /\ f \in G[h] \ H[h] => g = h
      /\ \A h \in Holders \ {Heap} : H[h] \ G[h] \subseteq Frame \ used'
      /\ \A f \in (Frame \ used') \ (Frame \ used) : \E h \in Holders : f \in H[h] \ G[h]
  BY <1>1, <1>4, <1>5, <1>6, <1>7
<1> QED
  BY <1>1, <1>8 DEF FT!Step, FT!Gained, FT!Dropped, H, G

\* No frame is lost if what is marked is held by somebody, and what the heap
\* drops is unmarked.
LEMMA NoneLost ==
  ASSUME HeapDeals, RegionDeals, \A p \in Pcb : StackDeals(p),
         \A f \in used' \ used :
           f \in HeapFrames' \/ f \in user_frames' \/ \E p \in Pcb : f \in StackFramesOf(p)'
  PROVE  Lost' \subseteq Lost
<1> SUFFICES ASSUME NEW f \in Lost' PROVE f \in Lost
  OBVIOUS
<1>1. Reserved' = Reserved
  BY DEF Reserved, holdvpn, KStack, stack_page
<1>2. /\ f \in used' /\ f \notin Reserved /\ f \notin HeapFrames' /\ f \notin user_frames'
      /\ \A p \in Pcb : f \notin StackFramesOf(p)'
  BY <1>1 DEF Lost, ProcessFrames
<1> QED
  BY <1>2 DEF Lost, ProcessFrames, HeapDeals, RegionDeals, StackDeals

\* What a step may do to the frames.
Honest == FT!Step /\ (Lost' \subseteq Lost \/ create_sframesFails \/ LastHeapPageTaken)
-----------------------------------------------------------------------------
(* Steps that leave the frames with whom they are.                         *)

\* The break is in the heap, and so are the pages below it.
LEMMA BreakInHeap ==
  ASSUME IInv, vm_enabled
  PROVE  /\ UP_TO_PAGE(current_kernel_brk) \in orig_kernel_brk_page..stack_page
         /\ \A to \in orig_kernel_brk_page..stack_page :
              orig_kernel_brk_page..(to - 1) \subseteq HeapPages
<1>1. current_kernel_brk \in Nat /\ InHeap(current_kernel_brk)
  BY HeapStart DEF IInv, TypeOK, Growth, InHeap
<1>2. \A to \in orig_kernel_brk_page..stack_page :
        orig_kernel_brk_page..(to - 1) \subseteq HeapPages
  BY Pages, Constants DEF HeapPages
<1> QED
  BY <1>1, <1>2, HeapAddress

LEMMA HoldersKept ==
  ASSUME IInv, UNCHANGED <<used, user_frames, kernel_stack_frames>>,
         \A v \in HeapPages : kernel_page_table'[v] = kernel_page_table[v]
  PROVE  HeldOnce' /\ Stacks' /\ Honest
<1>1. /\ HeapFrames' = HeapFrames /\ Reserved' = Reserved /\ HeapPages' = HeapPages
      /\ \A p : StackFramesOf(p)' = StackFramesOf(p)
  BY DEF HeapFrames, Reserved, StackFramesOf, HeapPages, holdvpn, KStack, stack_page
<1>2. HeldOnce'
  BY <1>1 DEF IInv, HeldOnce
<1>3. Stacks'
  BY DEF IInv, Stacks, Exists, NoStack, KStack, stack_page
<1>4. HeapDeals /\ RegionDeals /\ (\A p \in Pcb : StackDeals(p)) /\ FreedWasHeld
  BY <1>1 DEF HeapDeals, RegionDeals, StackDeals, FreedWasHeld
<1>5. FT!Step
  <2>1. used' \subseteq Frame
    BY DEF IInv, TypeOK
  <2>2. \A p \in Pcb : p = idle_process => StackFramesOf(p)' \subseteq Reserved
    BY <1>1, StackOwner
  <2> QED
    BY <1>2, <1>4, <2>1, <2>2, DealStep DEF HeapDeals
<1>6. Lost' \subseteq Lost
  BY <1>4, NoneLost
<1> QED
  BY <1>2, <1>3, <1>5, <1>6 DEF Honest

LEMMA SetKernelBrkAtBootStep ==
  ASSUME IInv, NEW addr \in Requests, SetKernelBrkAtBoot(addr) PROVE IInv' /\ Honest
<1>1. /\ ~vm_enabled /\ InHeap(addr) /\ addr \in Nat
      /\ current_kernel_brk' = addr /\ heap_end' = addr
      /\ UNCHANGED <<vm_enabled, used, kernel_page_table, processes, call>>
  BY Constants DEF SetKernelBrkAtBoot
<1>2. HeldOnce' /\ Stacks' /\ Honest
  BY <1>1, HoldersKept DEF processes
<1>3. TypeOK'
  BY <1>1, HeapStart DEF IInv, TypeOK, InHeap, processes, call
<1>4. BootOrder' /\ TextAndStack' /\ Growth'
  BY <1>1 DEF IInv, BootOrder, TextAndStack, Growth, Exists, processes, call
<1> QED
  BY <1>2, <1>3, <1>4 DEF IInv

LEMMA EnableVMStep == IInv /\ EnableVM => IInv' /\ Honest
<1> SUFFICES ASSUME IInv, EnableVM PROVE IInv' /\ Honest
  OBVIOUS
<1>1. /\ ~vm_enabled /\ vm_enabled' = TRUE
      /\ current_process = NULL /\ ~growing
      /\ \A v \in Page : kernel_page_table[v] = NULL
      /\ kernel_page_table' = SetupRegion0
      /\ current_kernel_brk' = heap_start
      /\ UNCHANGED <<used, heap_end, processes, call>>
  BY DEF EnableVM, IInv, BootOrder, Growth
<1>2. \A v \in Page :
        kernel_page_table'[v] =
          IF v \in first_kernel_text_page..(orig_kernel_brk_page - 1) \cup KStack
          THEN v ELSE NULL
  BY <1>1 DEF SetupRegion0
<1>3. \A v \in HeapPages : kernel_page_table'[v] = kernel_page_table[v]
  BY <1>1, <1>2, Pages, Constants
<1>4. HeldOnce' /\ Stacks' /\ Honest
  BY <1>1, <1>3, HoldersKept DEF processes
<1>5. TypeOK'
  <2>1. kernel_page_table' \in [Page -> Frame \cup {NULL}]
    BY <1>1, Pages DEF SetupRegion0
  <2> QED
    BY <1>1, <2>1, HeapStart DEF IInv, TypeOK, processes, call
<1>6. BootOrder'
  BY <1>1 DEF IInv, BootOrder, Exists, processes
<1>7. TextAndStack'
  BY <1>1, <1>2, Pages, Constants DEF TextAndStack, processes
<1>8. Growth'
  <2>1. heap_start \in Int /\ orig_kernel_brk_page..(orig_kernel_brk_page - 1) = {}
    BY HeapStart, Constants
  <2> QED
    BY <1>1, <2>1, HeapStart DEF Growth, call
<1> QED
  BY <1>4, <1>5, <1>6, <1>7, <1>8 DEF IInv

LEMMA SetKernelBrkGrowStep ==
  ASSUME IInv, NEW addr \in Requests, SetKernelBrkGrow(addr) PROVE IInv' /\ Honest
<1> DEFINE from == UP_TO_PAGE(current_kernel_brk)
           to == UP_TO_PAGE(addr)
<1>1. /\ vm_enabled /\ InHeap(addr) /\ addr \in Nat
      /\ growing' = TRUE /\ new_kbrk_addr' = addr
      /\ todo' = {v \in from..(to - 1) : kernel_page_table[v] = NULL}
      /\ UNCHANGED <<vm_enabled, used, kernel_page_table, heap, processes>>
  BY Constants DEF SetKernelBrkGrow, Between, PagesToMap
<1>2. HeldOnce' /\ Stacks' /\ Honest
  BY <1>1, HoldersKept DEF processes
<1>3. from \in orig_kernel_brk_page..stack_page /\ to \in orig_kernel_brk_page..stack_page
  BY <1>1, BreakInHeap, HeapAddress
<1>4. TypeOK'
  <2>1. todo' \subseteq orig_kernel_brk_page..holdvpn
    BY <1>1, <1>3, Pages, Constants
  <2>2. new_kbrk_addr' \in 0..(heap_end_limit - 1)
    BY <1>1, HeapStart DEF InHeap
  <2> QED
    BY <1>1, <2>1, <2>2 DEF IInv, TypeOK, heap, processes
<1>5. BootOrder' /\ TextAndStack'
  BY <1>1 DEF IInv, BootOrder, TextAndStack, Exists, processes
<1>6. Growth'
  BY <1>1 DEF IInv, Growth, InHeap, heap, UP_TO_PAGE
<1> QED
  BY <1>2, <1>4, <1>5, <1>6 DEF IInv

LEMMA GrowEndStep == IInv /\ (GrowNoFrame \/ GrowDone) => IInv' /\ Honest
<1> SUFFICES ASSUME IInv, GrowNoFrame \/ GrowDone PROVE IInv' /\ Honest
  OBVIOUS
<1>1. /\ growing /\ Return
      /\ UNCHANGED <<vm_enabled, used, kernel_page_table, processes>>
  BY DEF GrowNoFrame, GrowDone
<1>2. HeldOnce' /\ Stacks' /\ Honest
  BY <1>1, HoldersKept DEF processes
<1>3. BootOrder' /\ TextAndStack'
  BY <1>1 DEF IInv, BootOrder, TextAndStack, Exists, processes
<1>4. growing' \in BOOLEAN /\ new_kbrk_addr' \in 0..(heap_end_limit - 1)
      /\ todo' \subseteq orig_kernel_brk_page..holdvpn
  <2>1. 0 \in 0..(heap_end_limit - 1)
    BY HeapStart
  <2> QED
    BY <1>1, <2>1 DEF Return
<1>5. CASE UNCHANGED heap
  <2>1. TypeOK'
    BY <1>1, <1>5, <1>4 DEF IInv, TypeOK, heap, processes
  <2>2. Growth'
    BY <1>1, <1>5 DEF IInv, Growth, Return, heap, UP_TO_PAGE
  <2> QED
    BY <1>2, <1>3, <2>1, <2>2 DEF IInv
<1>6. CASE GrowDone
  <2>1. todo = {} /\ current_kernel_brk' = new_kbrk_addr /\ heap_end' = new_kbrk_addr
        /\ heap_start <= new_kbrk_addr
    BY <1>1, <1>6 DEF GrowDone, IInv, Growth
  <2>2. TypeOK'
    <3>1. new_kbrk_addr \in heap_start..(heap_end_limit - 1)
      BY <2>1, HeapStart DEF IInv, TypeOK
    <3> QED
      BY <1>1, <1>4, <2>1, <3>1 DEF IInv, TypeOK, processes
  <2> DEFINE from == UP_TO_PAGE(current_kernel_brk)
             to == UP_TO_PAGE(new_kbrk_addr)
  <2>3. from \in Int
    BY <1>1, BreakInHeap, Pages, Constants DEF IInv, Growth
  <2>4. ASSUME NEW v \in orig_kernel_brk_page..(to - 1), v # holdvpn
        PROVE  kernel_page_table[v] # NULL
    <3>1. CASE v < from
      BY <1>1, <2>3, <2>4, <3>1, Constants DEF IInv, Growth
    <3>2. CASE v >= from
      <4>1. v \in from..(to - 1)
        BY <2>3, <2>4, <3>2, Constants
      <4> QED
        BY <1>1, <2>1, <4>1 DEF IInv, Growth
    <3> QED
      BY <2>3, <3>1, <3>2, Constants
  <2>5. Growth'
    <3>1. UP_TO_PAGE(current_kernel_brk)' = to
      BY <2>1 DEF UP_TO_PAGE
    <3>2. heap_start' = heap_start /\ holdvpn' = holdvpn /\ ~growing'
      BY <1>1 DEF Return, heap_start, holdvpn, stack_page
    <3> QED
      BY <1>1, <2>1, <2>4, <3>1, <3>2 DEF IInv, Growth
  <2> QED
    BY <1>2, <1>3, <2>2, <2>5 DEF IInv
<1> QED
  BY <1>5, <1>6 DEF GrowNoFrame

\* A switch maps the stack of the process that gets the CPU, and nothing else.
LEMMA KCSwitchStep ==
  ASSUME IInv, NEW next \in Pcb, KCSwitch(next) PROVE IInv' /\ Honest
<1>1. /\ vm_enabled /\ ~growing /\ Exists(next) /\ current_process # NULL
      /\ kernel_page_table' = StackMapped(next) /\ current_process' = next
      /\ UNCHANGED <<vm_enabled, used, heap, kernel_stack_frames, user_frames, call>>
  BY DEF KCSwitch, Running, Between
<1>2. \A v \in Page :
        kernel_page_table'[v] = IF v \in KStack THEN kernel_stack_frames[next][v]
                                                ELSE kernel_page_table[v]
  BY <1>1 DEF StackMapped
<1>3. /\ \A v \in HeapPages : kernel_page_table'[v] = kernel_page_table[v]
      /\ \A v \in 0..(orig_kernel_brk_page - 1) : kernel_page_table'[v] = kernel_page_table[v]
      /\ \A v \in KStack : kernel_page_table'[v] = kernel_stack_frames[next][v]
  BY <1>2, Pages
<1>4. HeldOnce' /\ Stacks' /\ Honest
  BY <1>1, <1>3, HoldersKept
<1>5. TypeOK'
  <2>1. kernel_page_table' \in [Page -> Frame \cup {NULL}]
    <3>1. \A v \in KStack : kernel_stack_frames[next][v] \in Frame \cup {NULL}
      BY DEF IInv, TypeOK
    <3>2. \A v \in Page : kernel_page_table[v] \in Frame \cup {NULL}
      BY DEF IInv, TypeOK
    <3> QED
      BY <1>1, <3>1, <3>2 DEF StackMapped
  <2> QED
    BY <1>1, <2>1 DEF IInv, TypeOK, heap, call
<1>6. BootOrder'
  BY <1>1, Constants DEF IInv, BootOrder, Exists, NoStack
<1>7. TextAndStack'
  BY <1>1, <1>3, Constants DEF IInv, TextAndStack, KStack, stack_page
<1>8. Growth'
  <2>1. \A v \in orig_kernel_brk_page..(UP_TO_PAGE(current_kernel_brk) - 1) :
          kernel_page_table'[v] = kernel_page_table[v]
    BY <1>1, <1>3, BreakInHeap
  <2>2. UP_TO_PAGE(current_kernel_brk)' = UP_TO_PAGE(current_kernel_brk)
        /\ heap_start' = heap_start /\ holdvpn' = holdvpn
    BY <1>1 DEF UP_TO_PAGE, heap, heap_start, holdvpn, stack_page
  <2> QED
    BY <1>1, <2>1, <2>2 DEF IInv, Growth, heap, call
<1> QED
  BY <1>4, <1>5, <1>6, <1>7, <1>8 DEF IInv
-----------------------------------------------------------------------------
(* Steps that take frames.                                                 *)

\* Growth continues, and text, data and stack are where they were, if no page of
\* the table changes but above the break, or the one that copies go through.
LEMMA TableKept ==
  ASSUME IInv, vm_enabled, UNCHANGED <<vm_enabled, current_kernel_brk>>,
         \A v \in 0..(orig_kernel_brk_page - 1) \cup KStack :
           kernel_page_table'[v] = kernel_page_table[v],
         \A v \in orig_kernel_brk_page..(UP_TO_PAGE(current_kernel_brk) - 1) :
           v = holdvpn \/ kernel_page_table'[v] # NULL \/ kernel_page_table'[v] = kernel_page_table[v]
  PROVE  /\ UNCHANGED <<current_process, kernel_stack_frames>> => TextAndStack'
         /\ ~growing' => Growth'
<1>1. ASSUME UNCHANGED <<current_process, kernel_stack_frames>> PROVE TextAndStack'
  BY <1>1 DEF IInv, TextAndStack, KStack, stack_page
<1>2. ASSUME ~growing' PROVE Growth'
  <2>1. UP_TO_PAGE(current_kernel_brk)' = UP_TO_PAGE(current_kernel_brk)
        /\ heap_start' = heap_start /\ holdvpn' = holdvpn
    BY DEF UP_TO_PAGE, heap_start, holdvpn, stack_page
  <2> QED
    BY <1>2, <2>1 DEF IInv, Growth
<1> QED
  BY <1>1, <1>2

LEMMA GrowPageStep == IInv /\ GrowPage => IInv' /\ Honest
<1> SUFFICES ASSUME IInv, GrowPage PROVE IInv' /\ Honest
  OBVIOUS
<1> DEFINE vpn == CHOOSE v \in todo : \A w \in todo : v <= w
           f == find_frame(used)
           from == UP_TO_PAGE(current_kernel_brk)
           to == UP_TO_PAGE(new_kbrk_addr)
<1>1. /\ growing /\ vm_enabled /\ todo # {} /\ Frame \ used # {}
      /\ kernel_page_table' = [kernel_page_table EXCEPT ![vpn] = f]
      /\ todo' = todo \ {vpn} /\ used' = used \cup {f}
      /\ UNCHANGED <<vm_enabled, heap, processes, growing, new_kbrk_addr>>
  BY DEF GrowPage, Exhausted, IInv, TypeOK, Growth
<1>2. f \in Frame \ used /\ f # NULL
  BY <1>1, FindFrame, Constants
<1>3. vpn \in todo
  <2>1. todo \subseteq Nat
    BY Constants DEF IInv, TypeOK
  <2>2. \E v \in todo : \A w \in todo : v <= w
    BY <1>1, <2>1, QF!LeastPosition
  <2> QED
    BY <2>2
<1> HIDE DEF vpn, f
<1>4. vpn \in HeapPages /\ vpn \in Page /\ vpn \in from..(to - 1) /\ kernel_page_table[vpn] = NULL
  BY <1>1, <1>3, Pages DEF IInv, TypeOK, Growth, HeapPages
<1>5. /\ kernel_page_table' \in [Page -> Frame \cup {NULL}]
      /\ kernel_page_table'[vpn] = f
      /\ \A v \in Page \ {vpn} : kernel_page_table'[v] = kernel_page_table[v]
  BY <1>1, <1>2, <1>4 DEF IInv, TypeOK
<1>6. TypeOK'
  BY <1>1, <1>2, <1>5 DEF IInv, TypeOK, heap, processes
<1>7. /\ HeapFrames' = HeapFrames \cup {f} /\ Reserved' = Reserved /\ HeapPages' = HeapPages
      /\ \A p : StackFramesOf(p)' = StackFramesOf(p)
      /\ user_frames' = user_frames /\ f \notin HeapFrames
  <2>1. Reserved' = Reserved /\ HeapPages' = HeapPages /\ user_frames' = user_frames
        /\ \A p : StackFramesOf(p)' = StackFramesOf(p)
    BY <1>1 DEF Reserved, StackFramesOf, HeapPages, holdvpn, KStack, stack_page, processes
  <2>2. ASSUME NEW g PROVE g \in HeapFrames' <=> g \in HeapFrames \cup {f}
    BY <1>2, <1>4, <1>5, HeapFramesDef, Pages
  <2> QED
    BY <1>2, <2>1, <2>2 DEF IInv, HeldOnce
<1>8. \A p \in Pcb : f \notin StackFramesOf(p) /\ f \notin Reserved /\ f \notin user_frames
  BY <1>2, StackOwner DEF IInv, HeldOnce
<1>9. HeldOnce'
  <2>1. \A v, w \in HeapPages : kernel_page_table'[v] = kernel_page_table'[w]
                                /\ kernel_page_table'[v] # NULL => v = w
    <3>1. \A v \in HeapPages : kernel_page_table[v] # f
      BY <1>2, <1>7, HeapFramesDef
    <3> QED
      BY <1>5, <3>1, Pages DEF IInv, HeldOnce
  <2> QED
    BY <1>1, <1>2, <1>7, <1>8, <2>1 DEF IInv, HeldOnce
<1>10. HeapDeals /\ RegionDeals /\ (\A p \in Pcb : StackDeals(p)) /\ FreedWasHeld
  BY <1>1, <1>2, <1>7 DEF HeapDeals, RegionDeals, StackDeals, FreedWasHeld
<1>11. FT!Step
  <2>1. used' \subseteq Frame
    BY <1>6 DEF TypeOK
  <2>2. \A p \in Pcb : p = idle_process => StackFramesOf(p)' \subseteq Reserved
    BY <1>7, StackOwner
  <2> QED
    BY <1>9, <1>10, <2>1, <2>2, DealStep DEF HeapDeals
<1>12. Lost' \subseteq Lost
  <2>1. \A g \in used' \ used : g \in HeapFrames'
    BY <1>1, <1>7
  <2> QED
    BY <1>10, <2>1, NoneLost
<1>13. Stacks' /\ BootOrder'
  BY <1>1 DEF IInv, Stacks, BootOrder, Exists, NoStack, KStack, stack_page, processes
<1>14. /\ \A v \in 0..(orig_kernel_brk_page - 1) \cup KStack :
            kernel_page_table'[v] = kernel_page_table[v]
       /\ \A v \in orig_kernel_brk_page..(from - 1) : kernel_page_table'[v] = kernel_page_table[v]
       /\ from \in Int /\ to \in Int
  <2>1. /\ from \in orig_kernel_brk_page..stack_page
        /\ orig_kernel_brk_page..(from - 1) \subseteq HeapPages
    BY <1>1, BreakInHeap
  <2>2. from \in Int /\ to \in Int
    <3>1. new_kbrk_addr \in Nat
      BY HeapStart DEF IInv, TypeOK
    <3> QED
      BY <2>1, <3>1, UpToPage, Pages, Constants
  <2>3. \A v \in orig_kernel_brk_page..(from - 1) : v # vpn
    BY <1>4, <2>2, Constants
  <2> QED
    BY <1>4, <1>5, <2>1, <2>2, <2>3, Pages
<1>15. TextAndStack'
  BY <1>1, <1>14, TableKept DEF heap, processes
<1>16. Growth'
  <2>1. /\ UP_TO_PAGE(current_kernel_brk)' = from /\ UP_TO_PAGE(new_kbrk_addr)' = to
        /\ heap_start' = heap_start /\ holdvpn' = holdvpn
    BY <1>1 DEF UP_TO_PAGE, heap, heap_start, holdvpn, stack_page
  <2>2. \A v \in from..(to - 1) : kernel_page_table'[v] = NULL <=> v \in todo'
    <3>1. ASSUME NEW v \in from..(to - 1) PROVE v \in Page
      <4>1. from \in orig_kernel_brk_page..stack_page
        BY <1>1, BreakInHeap
      <4>2. to \in orig_kernel_brk_page..stack_page
        <5>1. new_kbrk_addr \in Nat /\ InHeap(new_kbrk_addr)
          BY <1>1, HeapStart DEF IInv, TypeOK, Growth, InHeap
        <5> QED
          BY <5>1, HeapAddress
      <4> QED
        BY <3>1, <4>1, <4>2, Pages, Constants DEF Page
    <3> QED
      BY <1>1, <1>2, <1>5, <3>1 DEF IInv, Growth
  <2>3. \A v \in orig_kernel_brk_page..(from - 1) \ {holdvpn} : kernel_page_table'[v] # NULL
    BY <1>1, <1>14 DEF IInv, Growth
  <2> QED
    BY <1>1, <2>1, <2>2, <2>3 DEF IInv, Growth, heap
<1> QED
  BY <1>6, <1>9, <1>11, <1>12, <1>13, <1>15, <1>16 DEF IInv, Honest

\* A copy unmaps the page it goes through, and no other.
LEMMA HoldPage ==
  ASSUME IInv, vm_enabled, kernel_page_table' = HoldPageCleared
  PROVE  /\ kernel_page_table' \in [Page -> Frame \cup {NULL}]
         /\ HeapFrames' \subseteq HeapFrames
         /\ kernel_page_table[holdvpn] = NULL => HeapFrames' = HeapFrames
         /\ \A v, w \in HeapPages : kernel_page_table'[v] = kernel_page_table'[w]
                                    /\ kernel_page_table'[v] # NULL => v = w
         /\ \A v \in Page \ {holdvpn} : kernel_page_table'[v] = kernel_page_table[v]
         /\ \A v \in 0..(orig_kernel_brk_page - 1) \cup KStack :
              kernel_page_table'[v] = kernel_page_table[v]
<1>1. holdvpn \in Page /\ holdvpn \in HeapPages
  BY Pages
<1>2. /\ kernel_page_table' \in [Page -> Frame \cup {NULL}]
      /\ kernel_page_table'[holdvpn] = NULL
      /\ \A v \in Page \ {holdvpn} : kernel_page_table'[v] = kernel_page_table[v]
  BY <1>1 DEF HoldPageCleared, IInv, TypeOK
<1>3. ASSUME NEW f \in HeapFrames' PROVE f \in HeapFrames
  BY <1>1, <1>2, <1>3, HeapFramesDef, Pages
<1>4. ASSUME kernel_page_table[holdvpn] = NULL, NEW f \in HeapFrames PROVE f \in HeapFrames'
  BY <1>1, <1>2, <1>4, HeapFramesDef, Pages
<1>5. \A v, w \in HeapPages : kernel_page_table'[v] = kernel_page_table'[w]
                              /\ kernel_page_table'[v] # NULL => v = w
  BY <1>1, <1>2, Pages DEF IInv, HeldOnce
<1>6. \A v \in 0..(orig_kernel_brk_page - 1) \cup KStack : v \in Page \ {holdvpn}
  BY Pages
<1> QED
  BY <1>2, <1>3, <1>4, <1>5, <1>6

LEMMA KCCopyStep ==
  ASSUME IInv, NEW new \in Pcb, KCCopy(new) PROVE IInv' /\ Honest
<1>1. /\ vm_enabled /\ ~growing
      /\ kernel_page_table' = HoldPageCleared
      /\ UNCHANGED <<vm_enabled, used, heap, processes, call>>
  BY DEF KCCopy, Running, Between
<1>2. /\ Reserved' = Reserved /\ HeapPages' = HeapPages /\ user_frames' = user_frames
      /\ \A p : StackFramesOf(p)' = StackFramesOf(p)
  BY <1>1 DEF Reserved, StackFramesOf, HeapPages, holdvpn, KStack, stack_page, processes
<1>3. /\ kernel_page_table' \in [Page -> Frame \cup {NULL}]
      /\ HeapFrames' \subseteq HeapFrames
      /\ kernel_page_table[holdvpn] = NULL => HeapFrames' = HeapFrames
      /\ \A v, w \in HeapPages : kernel_page_table'[v] = kernel_page_table'[w]
                                 /\ kernel_page_table'[v] # NULL => v = w
      /\ \A v \in Page \ {holdvpn} : kernel_page_table'[v] = kernel_page_table[v]
      /\ \A v \in 0..(orig_kernel_brk_page - 1) \cup KStack :
           kernel_page_table'[v] = kernel_page_table[v]
  BY <1>1, HoldPage
<1>4. TypeOK'
  BY <1>1, <1>3 DEF IInv, TypeOK, heap, processes, call
<1>5. HeldOnce'
  BY <1>1, <1>2, <1>3 DEF IInv, HeldOnce
<1>6. Stacks' /\ BootOrder'
  BY <1>1 DEF IInv, Stacks, BootOrder, Exists, NoStack, KStack, stack_page, processes
<1>7. TextAndStack' /\ Growth'
  <2>1. \A v \in orig_kernel_brk_page..(UP_TO_PAGE(current_kernel_brk) - 1) :
          v = holdvpn \/ kernel_page_table'[v] = kernel_page_table[v]
    BY <1>1, <1>3, BreakInHeap, Pages
  <2> QED
    BY <1>1, <1>3, <2>1, TableKept DEF heap, processes, call
<1>8. RegionDeals /\ (\A p \in Pcb : StackDeals(p)) /\ FreedWasHeld
  BY <1>1, <1>2 DEF RegionDeals, StackDeals, FreedWasHeld
<1>9. FT!Step
  <2>1. used' \subseteq Frame
    BY <1>4 DEF TypeOK
  <2>2. \A p \in Pcb : p = idle_process => StackFramesOf(p)' \subseteq Reserved
    BY <1>2, StackOwner
  <2> QED
    BY <1>3, <1>5, <1>8, <2>1, <2>2, DealStep
<1>10. Lost' \subseteq Lost \/ LastHeapPageTaken
  <2>1. CASE kernel_page_table[holdvpn] = NULL
    <3>1. HeapDeals
      BY <1>3, <2>1 DEF HeapDeals
    <3> QED
      BY <1>1, <1>8, <3>1, NoneLost
  <2>2. CASE kernel_page_table[holdvpn] # NULL
    BY <2>2 DEF LastHeapPageTaken
  <2> QED
    BY <2>1, <2>2
<1> QED
  BY <1>4, <1>5, <1>6, <1>7, <1>9, <1>10 DEF IInv, Honest

LEMMA UserPageStep == IInv /\ (LoadUserPage \/ data_copy) => IInv' /\ Honest
<1> SUFFICES ASSUME IInv, LoadUserPage \/ data_copy PROVE IInv' /\ Honest
  OBVIOUS
<1> DEFINE f == find_frame(used)
<1>1. /\ vm_enabled /\ ~growing /\ current_process # NULL /\ Frame \ used # {}
      /\ used' = used \cup {f} /\ user_frames' = user_frames \cup {f}
      /\ UNCHANGED <<vm_enabled, heap, current_process, kernel_stack_frames, call>>
  BY DEF LoadUserPage, data_copy, MapUserPage, Running, Between, Exhausted, IInv, TypeOK
<1>2. f \in Frame \ used
  BY <1>1, FindFrame
<1> HIDE DEF f
<1>3. /\ Reserved' = Reserved /\ HeapPages' = HeapPages
      /\ \A p : StackFramesOf(p)' = StackFramesOf(p)
  BY <1>1 DEF Reserved, StackFramesOf, HeapPages, holdvpn, KStack, stack_page
<1>4. /\ kernel_page_table' \in [Page -> Frame \cup {NULL}]
      /\ HeapFrames' \subseteq HeapFrames
      /\ kernel_page_table[holdvpn] = NULL \/ LoadUserPage => HeapFrames' = HeapFrames
      /\ \A v, w \in HeapPages : kernel_page_table'[v] = kernel_page_table'[w]
                                 /\ kernel_page_table'[v] # NULL => v = w
      /\ \A v \in Page \ {holdvpn} : kernel_page_table'[v] = kernel_page_table[v]
      /\ \A v \in 0..(orig_kernel_brk_page - 1) \cup KStack :
           kernel_page_table'[v] = kernel_page_table[v]
  <2>1. CASE LoadUserPage
    <3>1. kernel_page_table' = kernel_page_table
      BY <2>1 DEF LoadUserPage
    <3>2. HeapFrames' = HeapFrames
      BY <1>3, <3>1 DEF HeapFrames
    <3> QED
      BY <3>1, <3>2 DEF IInv, TypeOK, HeldOnce
  <2>2. CASE ~LoadUserPage
    <3>1. kernel_page_table' = HoldPageCleared
      BY <2>2 DEF data_copy
    <3> QED
      BY <1>1, <2>2, <3>1, HoldPage
  <2> QED
    BY <2>1, <2>2
<1>5. TypeOK'
  BY <1>1, <1>2, <1>4 DEF IInv, TypeOK, heap, call
<1>6. \A p \in Pcb : f \notin StackFramesOf(p) /\ f \notin Reserved /\ f \notin HeapFrames
  BY <1>2, StackOwner DEF IInv, HeldOnce
<1>7. HeldOnce'
  BY <1>1, <1>2, <1>3, <1>4, <1>6 DEF IInv, HeldOnce
<1>8. Stacks' /\ BootOrder'
  BY <1>1 DEF IInv, Stacks, BootOrder, Exists, NoStack, KStack, stack_page
<1>9. TextAndStack' /\ Growth'
  <2>1. \A v \in orig_kernel_brk_page..(UP_TO_PAGE(current_kernel_brk) - 1) :
          v = holdvpn \/ kernel_page_table'[v] = kernel_page_table[v]
    BY <1>1, <1>4, BreakInHeap, Pages
  <2> QED
    BY <1>1, <1>4, <2>1, TableKept DEF heap, call
<1>10. RegionDeals /\ (\A p \in Pcb : StackDeals(p)) /\ FreedWasHeld
  BY <1>1, <1>2, <1>3 DEF RegionDeals, StackDeals, FreedWasHeld
<1>11. FT!Step
  <2>1. used' \subseteq Frame
    BY <1>5 DEF TypeOK
  <2>2. \A p \in Pcb : p = idle_process => StackFramesOf(p)' \subseteq Reserved
    BY <1>3, StackOwner
  <2>3. HeapFrames' \ HeapFrames \subseteq used' \ used
    BY <1>4
  <2> QED
    BY <1>7, <1>10, <2>1, <2>2, <2>3, DealStep
<1>12. Lost' \subseteq Lost \/ LastHeapPageTaken
  <2>1. CASE kernel_page_table[holdvpn] = NULL \/ LoadUserPage
    <3>1. HeapDeals
      BY <1>4, <2>1 DEF HeapDeals
    <3>2. \A g \in used' \ used : g \in user_frames'
      BY <1>1
    <3> QED
      BY <1>10, <3>1, <3>2, NoneLost
  <2>2. CASE kernel_page_table[holdvpn] # NULL /\ data_copy
    BY <2>2 DEF LastHeapPageTaken
  <2> QED
    BY <2>1, <2>2
<1> QED
  BY <1>5, <1>7, <1>8, <1>9, <1>11, <1>12 DEF IInv, Honest

\* The page that idle gets, before any other process is there.
LEMMA IdleStep == IInv /\ idle_proc_create => IInv' /\ Honest
<1> SUFFICES ASSUME IInv, idle_proc_create PROVE IInv' /\ Honest
  OBVIOUS
<1> DEFINE f == find_frame(used)
<1>1. /\ vm_enabled /\ ~growing /\ current_process = NULL /\ Frame \ used # {}
      /\ used' = used \cup {f} /\ user_frames' = {f} /\ current_process' = idle_process
      /\ kernel_stack_frames' = [kernel_stack_frames EXCEPT ![idle_process] =
                                   [v \in KStack |-> v]]
      /\ UNCHANGED <<vm_enabled, kernel_page_table, heap, call>>
  BY DEF idle_proc_create, Between, Exhausted, IInv, TypeOK
<1>2. f \in Frame \ used
  BY <1>1, FindFrame
<1> HIDE DEF f
<1>3. /\ Reserved' = Reserved /\ HeapPages' = HeapPages /\ HeapFrames' = HeapFrames
      /\ NoStack' = NoStack
  BY <1>1 DEF Reserved, HeapFrames, HeapPages, holdvpn, KStack, stack_page, NoStack
<1>4. /\ user_frames = {} /\ \A p \in Pcb : ~Exists(p) /\ StackFramesOf(p) = {}
  BY <1>1, StackOwner DEF IInv, BootOrder
<1>5. /\ kernel_stack_frames' \in [Pcb -> [KStack -> Frame \cup {NULL}]]
      /\ \A v \in KStack : kernel_stack_frames'[idle_process][v] = v
      /\ \A p \in Pcb \ {idle_process} : kernel_stack_frames'[p] = kernel_stack_frames[p]
  <2>1. [v \in KStack |-> v] \in [KStack -> Frame \cup {NULL}]
    BY Pages
  <2> QED
    BY <1>1, <2>1, Constants DEF IInv, TypeOK
<1>6. \A p \in Pcb \ {idle_process} : StackFramesOf(p)' = {} /\ ~Exists(p)'
  <2>1. ASSUME NEW p \in Pcb \ {idle_process} PROVE StackFramesOf(p)' = StackFramesOf(p)
    BY <1>5 DEF StackFramesOf, KStack, stack_page
  <2> QED
    BY <1>3, <1>4, <1>5, <2>1 DEF Exists
<1>7. StackFramesOf(idle_process)' \subseteq Reserved
  <2>1. ASSUME NEW g \in StackFramesOf(idle_process)' PROVE g \in Reserved
    BY <1>5, <2>1, StackFramesDef, Pages
  <2> QED
    BY <2>1
<1>8. TypeOK'
  BY <1>1, <1>2, <1>5, Constants DEF IInv, TypeOK, heap, call
<1>9. HeldOnce'
  BY <1>1, <1>2, <1>3, <1>4, <1>6 DEF IInv, HeldOnce
<1>10. Exists(idle_process)'
  <2>1. kernel_stack_frames'[idle_process][stack_page] = stack_page /\ stack_page \in Frame
        /\ stack_page \in KStack
    BY <1>5, Pages DEF KStack
  <2>2. NoStack[stack_page] = NULL
    BY <2>1 DEF NoStack
  <2> QED
    BY <1>3, <2>1, <2>2, Constants DEF Exists
<1>11. Stacks'
  <2>1. /\ KStack' = KStack /\ stack_page' = stack_page
    BY DEF KStack, stack_page
  <2>2. /\ \A v \in KStack : kernel_stack_frames'[idle_process][v] # NULL
        /\ kernel_stack_frames'[idle_process][stack_page]
             # kernel_stack_frames'[idle_process][stack_page + 1]
    <3>1. stack_page \in KStack /\ stack_page + 1 \in KStack /\ stack_page \in Nat
      BY Pages DEF KStack
    <3>2. \A v \in KStack : v \in Frame
      BY Pages
    <3> QED
      BY <1>5, <3>1, <3>2, Constants
  <2> QED
    BY <1>5, <1>6, <2>1, <2>2 DEF Stacks
<1>12. BootOrder'
  BY <1>1, <1>10, Constants DEF BootOrder
<1>13. TextAndStack'
  <2>1. /\ KStack' = KStack
    BY DEF KStack, stack_page
  <2> QED
    BY <1>1, <1>5, <2>1, Constants DEF IInv, TextAndStack
<1>14. Growth'
  BY <1>1, TableKept DEF heap, call
<1>15. HeapDeals /\ RegionDeals /\ (\A p \in Pcb : StackDeals(p)) /\ FreedWasHeld
  <2>1. \A p \in Pcb : StackDeals(p)
    BY <1>4, <1>6, <1>7 DEF StackDeals
  <2> QED
    BY <1>1, <1>2, <1>3, <1>4, <2>1 DEF HeapDeals, RegionDeals, FreedWasHeld
<1>16. FT!Step
  <2>1. used' \subseteq Frame
    BY <1>8 DEF TypeOK
  <2> QED
    BY <1>7, <1>9, <1>15, <2>1, DealStep DEF HeapDeals
<1>17. Lost' \subseteq Lost
  <2>1. \A g \in used' \ used : g \in user_frames'
    BY <1>1
  <2> QED
    BY <1>15, <2>1, NoneLost
<1> QED
  BY <1>8, <1>9, <1>11, <1>12, <1>13, <1>14, <1>16, <1>17 DEF IInv, Honest

\* More frames are free than a set has members: some are not in it.
LEMMA TwoFrames ==
  ASSUME NEW taken, NEW n \in Nat, Cardinality(Frame \ taken) > n,
         NEW T, IsFiniteSet(T), Cardinality(T) <= n
  PROVE  (Frame \ taken) \ T # {}
<1> SUFFICES ASSUME Frame \ taken \subseteq T PROVE FALSE
  OBVIOUS
<1>1. Cardinality(Frame \ taken) <= Cardinality(T) /\ Cardinality(T) \in Nat
  BY FS_Subset, FS_CardinalityType
<1>2. IsFiniteSet(Frame \ taken) /\ Cardinality(Frame \ taken) \in Nat
  BY FS_Subset, FS_CardinalityType
<1> QED
  BY <1>1, <1>2

LEMMA FreeCounted ==
  ASSUME NEW taken
  PROVE  Cardinality(Frame \ taken) \in Nat
<1>1. IsFiniteSet(Frame)
  <2>1. 0 \in Int /\ frame_count - 1 \in Int
    BY Constants
  <2> QED
    BY <2>1, FS_Interval DEF Frame
<1> QED
  BY <1>1, FS_Subset, FS_CardinalityType

\* A new kernel stack has two frames that nobody has, and they are not the same.
LEMMA CreateStackStep ==
  ASSUME IInv, NEW new \in Pcb, create_sframes(new) PROVE IInv' /\ Honest
<1> DEFINE low == find_frame(used)
           high == find_frame(used \cup {low})
<1>1. /\ vm_enabled /\ ~growing /\ current_process # NULL /\ ~Exists(new)
      /\ Cardinality(Frame \ used) > 1
      /\ used' = used \cup {low, high}
      /\ kernel_stack_frames' =
           [kernel_stack_frames EXCEPT ![new] =
              [v \in KStack |-> IF v = stack_page THEN low ELSE high]]
      /\ UNCHANGED <<vm_enabled, kernel_page_table, heap, current_process, user_frames, call>>
  <2>1. Cardinality(Frame \ used) \in Nat
    BY FreeCounted
  <2> QED
    BY <2>1 DEF create_sframes, Running, Between
<1>2. low \in Frame \ used /\ high \in Frame \ used /\ low # high
  <2>1. Cardinality({}) = 0 /\ IsFiniteSet({})
    BY FS_EmptySet
  <2>2. Cardinality({low}) = 1 /\ IsFiniteSet({low})
    BY FS_Singleton
  <2>3. Frame \ used # {}
    BY <1>1, <2>1
  <2>4. low \in Frame \ used
    BY <2>3, FindFrame
  <2> DEFINE one == {low}
  <2>5. (Frame \ used) \ {low} # {}
    <3>1. IsFiniteSet(one) /\ Cardinality(one) <= 1
      BY <2>2
    <3>2. Cardinality(Frame \ used) > 1
      BY <1>1
    <3> HIDE DEF one
    <3>3. (Frame \ used) \ one # {}
      BY <3>1, <3>2, TwoFrames
    <3> QED
      BY <3>3 DEF one
  <2>6. high \in Frame \ (used \cup {low})
    <3>1. Frame \ (used \cup {low}) # {}
      BY <2>5
    <3> QED
      BY <3>1, FindFrame
  <2> QED
    BY <2>4, <2>6
<1> HIDE DEF low, high
<1>3. /\ Reserved' = Reserved /\ HeapPages' = HeapPages /\ HeapFrames' = HeapFrames
      /\ KStack' = KStack /\ NoStack' = NoStack /\ stack_page' = stack_page
  BY <1>1 DEF Reserved, HeapFrames, HeapPages, holdvpn, KStack, stack_page, NoStack
<1>4. /\ new # idle_process /\ Exists(idle_process)
      /\ Exists(current_process) /\ current_process \in Pcb /\ StackFramesOf(new) = {}
  BY <1>1, Constants, StackOwner DEF IInv, BootOrder, TypeOK
<1>5. /\ stack_page \in KStack /\ stack_page + 1 \in KStack /\ stack_page # stack_page + 1
      /\ KStack = {stack_page, stack_page + 1}
  BY Pages DEF KStack
<1>6. /\ kernel_stack_frames' \in [Pcb -> [KStack -> Frame \cup {NULL}]]
      /\ kernel_stack_frames'[new][stack_page] = low
      /\ kernel_stack_frames'[new][stack_page + 1] = high
      /\ \A p \in Pcb \ {new} : kernel_stack_frames'[p] = kernel_stack_frames[p]
  <2>1. [v \in KStack |-> IF v = stack_page THEN low ELSE high] \in [KStack -> Frame \cup {NULL}]
    BY <1>2
  <2>2. kernel_stack_frames'[new] = [v \in KStack |-> IF v = stack_page THEN low ELSE high]
    BY <1>1 DEF IInv, TypeOK
  <2>3. kernel_stack_frames'[new][stack_page] = low
        /\ kernel_stack_frames'[new][stack_page + 1] = high
    BY <1>5, <2>2
  <2> QED
    BY <1>1, <2>1, <2>3 DEF IInv, TypeOK
<1>7. /\ StackFramesOf(new)' = {low, high}
      /\ \A p \in Pcb \ {new} : StackFramesOf(p)' = StackFramesOf(p)
  <2>1. ASSUME NEW g PROVE g \in StackFramesOf(new)' <=> g \in {low, high}
    BY <1>2, <1>5, <1>6, StackFramesDef, Constants
  <2>2. \A p \in Pcb \ {new} : StackFramesOf(p)' = StackFramesOf(p)
    BY <1>3, <1>6 DEF StackFramesOf
  <2> QED
    BY <2>1, <2>2
<1>8. /\ Exists(new)' /\ \A p \in Pcb \ {new} : Exists(p)' <=> Exists(p)
  <2>1. NoStack[stack_page] = NULL /\ low # NULL
    BY <1>2, <1>5, Constants DEF NoStack
  <2> QED
    BY <1>3, <1>6, <2>1 DEF Exists
<1>9. TypeOK'
  BY <1>1, <1>2, <1>6 DEF IInv, TypeOK, heap, call
<1>10. HeldOnce'
  <2>1. \A p \in Pcb \ {idle_process} : low \notin StackFramesOf(p) /\ high \notin StackFramesOf(p)
    BY <1>2 DEF IInv, HeldOnce
  <2>2. \A p \in Pcb \ {idle_process} :
          StackFramesOf(p)' \subseteq used' \ (Reserved \cup HeapFrames \cup user_frames)
    BY <1>1, <1>2, <1>7 DEF IInv, HeldOnce
  <2>3. \A p \in Pcb \ {idle_process} : \A q \in Pcb \ {idle_process, p} :
          StackFramesOf(p)' \cap StackFramesOf(q)' = {}
    BY <1>7, <2>1 DEF IInv, HeldOnce
  <2>4. Reserved \subseteq used' /\ HeapFrames \cup user_frames \subseteq used' \ Reserved
    BY <1>1 DEF IInv, HeldOnce
  <2> QED
    BY <1>1, <1>3, <2>2, <2>3, <2>4 DEF IInv, HeldOnce
<1>11. Stacks'
  <2>1. \A v \in KStack : kernel_stack_frames'[new][v] # NULL
    BY <1>2, <1>5, <1>6, Constants
  <2> QED
    BY <1>2, <1>3, <1>4, <1>6, <1>8, <2>1 DEF IInv, Stacks
<1>12. BootOrder'
  BY <1>1, <1>4, <1>8, Constants DEF BootOrder
<1>13. TextAndStack'
  <2>1. kernel_stack_frames'[current_process] = kernel_stack_frames[current_process]
    BY <1>1, <1>4, <1>6
  <2> QED
    BY <1>1, <1>3, <2>1 DEF IInv, TextAndStack
<1>14. Growth'
  BY <1>1, TableKept DEF heap, call
<1>15. HeapDeals /\ RegionDeals /\ (\A p \in Pcb : StackDeals(p)) /\ FreedWasHeld
  <2>1. \A p \in Pcb : StackDeals(p)
    BY <1>1, <1>2, <1>4, <1>7 DEF StackDeals
  <2> QED
    BY <1>1, <1>3, <2>1 DEF HeapDeals, RegionDeals, FreedWasHeld
<1>16. FT!Step
  <2>1. used' \subseteq Frame
    BY <1>9 DEF TypeOK
  <2>2. \A p \in Pcb : p = idle_process => StackFramesOf(p)' \subseteq Reserved
    BY <1>4, <1>7, StackOwner
  <2> QED
    BY <1>10, <1>15, <2>1, <2>2, DealStep DEF HeapDeals
<1>17. Lost' \subseteq Lost
  <2>1. \A g \in used' \ used : g \in StackFramesOf(new)'
    BY <1>1, <1>7
  <2> QED
    BY <1>15, <2>1, NoneLost
<1> QED
  BY <1>9, <1>10, <1>11, <1>12, <1>13, <1>14, <1>16, <1>17 DEF IInv, Honest

\* The only frame there was is marked, and nobody has it.
LEMMA StackFailsStep == IInv /\ create_sframesFails => IInv' /\ Honest
<1> SUFFICES ASSUME IInv, create_sframesFails PROVE IInv' /\ Honest
  OBVIOUS
<1>1. /\ vm_enabled /\ ~growing /\ current_process # NULL /\ used' = Frame
      /\ UNCHANGED <<vm_enabled, kernel_page_table, heap, processes, call>>
      /\ used \subseteq used'
  BY DEF create_sframesFails, Running, Between, IInv, TypeOK
<1>2. /\ Reserved' = Reserved /\ HeapPages' = HeapPages /\ HeapFrames' = HeapFrames
      /\ user_frames' = user_frames
      /\ \A p : StackFramesOf(p)' = StackFramesOf(p)
  BY <1>1 DEF Reserved, HeapFrames, HeapPages, StackFramesOf, holdvpn, KStack, stack_page,
              processes
<1>3. TypeOK'
  BY <1>1 DEF IInv, TypeOK, heap, processes, call
<1>4. HeldOnce'
  BY <1>1, <1>2 DEF IInv, HeldOnce
<1>5. Stacks' /\ BootOrder'
  BY <1>1 DEF IInv, Stacks, BootOrder, Exists, NoStack, KStack, stack_page, processes
<1>6. TextAndStack' /\ Growth'
  BY <1>1, TableKept DEF heap, processes, call
<1>7. HeapDeals /\ RegionDeals /\ (\A p \in Pcb : StackDeals(p)) /\ FreedWasHeld
  BY <1>1, <1>2 DEF HeapDeals, RegionDeals, StackDeals, FreedWasHeld
<1>8. FT!Step
  <2>1. used' \subseteq Frame
    BY <1>3 DEF TypeOK
  <2>2. \A p \in Pcb : p = idle_process => StackFramesOf(p)' \subseteq Reserved
    BY <1>2, StackOwner
  <2> QED
    BY <1>4, <1>7, <2>1, <2>2, DealStep DEF HeapDeals
<1> QED
  BY <1>3, <1>4, <1>5, <1>6, <1>8 DEF IInv, Honest
-----------------------------------------------------------------------------
(* Steps that give frames back.                                            *)

LEMMA FreeUserPageStep == IInv /\ FreeUserPage => IInv' /\ Honest
<1> SUFFICES ASSUME IInv, FreeUserPage PROVE IInv' /\ Honest
  OBVIOUS
<1>1. PICK f \in user_frames : used' = used \ {f} /\ user_frames' = user_frames \ {f}
  BY DEF FreeUserPage
<1>2. /\ vm_enabled /\ ~growing /\ current_process # NULL
      /\ UNCHANGED <<vm_enabled, kernel_page_table, heap, current_process,
                     kernel_stack_frames, call>>
  BY DEF FreeUserPage, Running, Between
<1>3. /\ Reserved' = Reserved /\ HeapPages' = HeapPages /\ HeapFrames' = HeapFrames
      /\ \A p : StackFramesOf(p)' = StackFramesOf(p)
  BY <1>2 DEF Reserved, HeapFrames, HeapPages, StackFramesOf, holdvpn, KStack, stack_page
<1>4. f \in used \ (Reserved \cup HeapFrames) /\ \A p \in Pcb : f \notin StackFramesOf(p)
  BY StackOwner DEF IInv, HeldOnce
<1>5. TypeOK'
  BY <1>1, <1>2 DEF IInv, TypeOK, heap, call
<1>6. HeldOnce'
  BY <1>1, <1>2, <1>3, <1>4 DEF IInv, HeldOnce
<1>7. Stacks' /\ BootOrder'
  BY <1>1, <1>2 DEF IInv, Stacks, BootOrder, Exists, NoStack, KStack, stack_page
<1>8. TextAndStack' /\ Growth'
  BY <1>2, TableKept DEF heap, call
<1>9. HeapDeals /\ RegionDeals /\ (\A p \in Pcb : StackDeals(p)) /\ FreedWasHeld
  BY <1>1, <1>3 DEF HeapDeals, RegionDeals, StackDeals, FreedWasHeld
<1>10. FT!Step
  <2>1. used' \subseteq Frame
    BY <1>5 DEF TypeOK
  <2>2. \A p \in Pcb : p = idle_process => StackFramesOf(p)' \subseteq Reserved
    BY <1>3, StackOwner
  <2> QED
    BY <1>6, <1>9, <2>1, <2>2, DealStep DEF HeapDeals
<1>11. Lost' \subseteq Lost
  BY <1>1, <1>9, NoneLost
<1> QED
  BY <1>5, <1>6, <1>7, <1>8, <1>10, <1>11 DEF IInv, Honest

LEMMA FreeStackStep ==
  ASSUME IInv, NEW p \in Pcb, free_sframes(p) PROVE IInv' /\ Honest
<1>1. /\ vm_enabled /\ ~growing /\ current_process # NULL
      /\ Exists(p) /\ p # current_process /\ p # idle_process
      /\ used' = used \ StackFrames(p)
      /\ kernel_stack_frames' = [kernel_stack_frames EXCEPT ![p] = NoStack]
      /\ UNCHANGED <<vm_enabled, kernel_page_table, heap, current_process, user_frames, call>>
  BY DEF free_sframes, Running, Between
<1>2. /\ Reserved' = Reserved /\ HeapPages' = HeapPages /\ HeapFrames' = HeapFrames
      /\ KStack' = KStack /\ NoStack' = NoStack /\ stack_page' = stack_page
  BY <1>1 DEF Reserved, HeapFrames, HeapPages, holdvpn, KStack, stack_page, NoStack
<1>3. StackFrames(p) = StackFramesOf(p)
  BY <1>1 DEF IInv, Stacks, StackFrames, StackFramesOf
<1>4. /\ kernel_stack_frames' \in [Pcb -> [KStack -> Frame \cup {NULL}]]
      /\ kernel_stack_frames'[p] = NoStack
      /\ \A q \in Pcb \ {p} : kernel_stack_frames'[q] = kernel_stack_frames[q]
  <2>1. NoStack \in [KStack -> Frame \cup {NULL}]
    BY DEF NoStack
  <2> QED
    BY <1>1, <2>1 DEF IInv, TypeOK
<1>5. /\ StackFramesOf(p)' = {}
      /\ \A q \in Pcb \ {p} : StackFramesOf(q)' = StackFramesOf(q)
  <2>1. ASSUME NEW g PROVE g \notin StackFramesOf(p)'
    BY <1>4, StackFramesDef DEF NoStack
  <2>2. \A q \in Pcb \ {p} : StackFramesOf(q)' = StackFramesOf(q)
    BY <1>2, <1>4 DEF StackFramesOf
  <2> QED
    BY <2>1, <2>2
<1>6. ~Exists(p)' /\ \A q \in Pcb \ {p} : Exists(q)' <=> Exists(q)
  BY <1>2, <1>4 DEF Exists
<1>7. /\ StackFramesOf(p) \subseteq used \ (Reserved \cup HeapFrames \cup user_frames)
      /\ \A q \in Pcb \ {p} : StackFramesOf(p) \cap StackFramesOf(q) = {}
  BY <1>1, StackOwner DEF IInv, HeldOnce
<1>8. TypeOK'
  BY <1>1, <1>4 DEF IInv, TypeOK, heap, call
<1>9. HeldOnce'
  <2>1. /\ Reserved \subseteq used' /\ HeapFrames \cup user_frames \subseteq used' \ Reserved
    BY <1>1, <1>3, <1>7 DEF IInv, HeldOnce
  <2>2. \A q \in Pcb \ {idle_process} :
          /\ StackFramesOf(q)' \subseteq used' \ (Reserved \cup HeapFrames \cup user_frames)
          /\ \A r \in Pcb \ {idle_process, q} : StackFramesOf(q)' \cap StackFramesOf(r)' = {}
    BY <1>1, <1>3, <1>5, <1>7 DEF IInv, HeldOnce
  <2> QED
    BY <1>1, <1>2, <2>1, <2>2 DEF IInv, HeldOnce
<1>10. Stacks'
  BY <1>2, <1>4, <1>6 DEF IInv, Stacks
<1>11. BootOrder'
  BY <1>1, <1>6, Constants DEF IInv, BootOrder, TypeOK
<1>12. TextAndStack'
  <2>1. kernel_stack_frames'[current_process] = kernel_stack_frames[current_process]
    BY <1>1, <1>4 DEF IInv, TypeOK
  <2> QED
    BY <1>1, <1>2, <2>1 DEF IInv, TextAndStack
<1>13. Growth'
  BY <1>1, TableKept DEF heap, call
<1>14. HeapDeals /\ RegionDeals /\ (\A q \in Pcb : StackDeals(q)) /\ FreedWasHeld
  BY <1>1, <1>2, <1>3, <1>5 DEF HeapDeals, RegionDeals, StackDeals, FreedWasHeld
<1>15. FT!Step
  <2>1. used' \subseteq Frame
    BY <1>8 DEF TypeOK
  <2>2. \A q \in Pcb : q = idle_process => StackFramesOf(q)' \subseteq Reserved
    BY <1>1, <1>5, StackOwner
  <2> QED
    BY <1>9, <1>14, <2>1, <2>2, DealStep DEF HeapDeals
<1>16. Lost' \subseteq Lost
  BY <1>1, <1>14, NoneLost
<1> QED
  BY <1>8, <1>9, <1>10, <1>11, <1>12, <1>13, <1>15, <1>16 DEF IInv, Honest

\* A break that comes down leaves the pages below it mapped, and gives back the
\* frames of those above: no other page of region 0 had any of them.
LEMMA SetKernelBrkShrinkStep ==
  ASSUME IInv, NEW addr \in Requests, SetKernelBrkShrink(addr) PROVE IInv' /\ Honest
<1> DEFINE from == UP_TO_PAGE(current_kernel_brk)
           to == UP_TO_PAGE(addr)
           above == PagesToUnmap(addr)
<1>1. /\ vm_enabled /\ ~growing /\ InHeap(addr) /\ addr \in Nat /\ to <= from
      /\ used' = used \ FramesOf(above)
      /\ kernel_page_table' = Unmapped(above)
      /\ current_kernel_brk' = addr /\ heap_end' = addr
      /\ UNCHANGED <<vm_enabled, processes, call>>
  BY Constants DEF SetKernelBrkShrink, Between
<1>2. /\ from \in orig_kernel_brk_page..stack_page /\ to \in orig_kernel_brk_page..stack_page
      /\ from \in Int /\ to \in Int
  BY <1>1, BreakInHeap, HeapAddress, Pages, Constants
<1>3. above = to..(from - 1) /\ above \subseteq HeapPages /\ above \subseteq Page
  BY <1>1, <1>2, Pages, Constants DEF PagesToUnmap, HeapPages
<1>4. /\ Reserved' = Reserved /\ HeapPages' = HeapPages /\ user_frames' = user_frames
      /\ KStack' = KStack /\ holdvpn' = holdvpn /\ heap_start' = heap_start
      /\ \A p : StackFramesOf(p)' = StackFramesOf(p)
      /\ UP_TO_PAGE(current_kernel_brk)' = to
  BY <1>1 DEF Reserved, HeapPages, StackFramesOf, holdvpn, KStack, stack_page, heap_start,
              UP_TO_PAGE, processes
<1> HIDE DEF above
<1>5. \A v \in Page : kernel_page_table'[v] = IF v \in above THEN NULL ELSE kernel_page_table[v]
  BY <1>1 DEF Unmapped
<1>6. TypeOK'
  <2>1. kernel_page_table' \in [Page -> Frame \cup {NULL}]
    BY <1>1 DEF Unmapped, IInv, TypeOK
  <2>2. addr \in heap_start..(heap_end_limit - 1) /\ addr \in 0..(heap_end_limit - 1)
    BY <1>1, HeapStart DEF InHeap
  <2> QED
    BY <1>1, <2>1, <2>2 DEF IInv, TypeOK, processes, call
<1>7. HeapFrames' = HeapFrames \ FramesOf(above)
  <2>1. ASSUME NEW g PROVE g \in FramesOf(above) <=> g # NULL /\ \E v \in above : kernel_page_table[v] = g
    BY DEF FramesOf
  <2>2. ASSUME NEW g PROVE g \in HeapFrames' <=> g \in HeapFrames /\ g \notin FramesOf(above)
    <3>1. ASSUME g \in HeapFrames' PROVE g \in HeapFrames /\ g \notin FramesOf(above)
      <4>1. g # NULL /\ \E v \in HeapPages : kernel_page_table'[v] = g
        BY <3>1, HeapFramesDef
      <4>2. PICK v \in HeapPages : kernel_page_table'[v] = g
        BY <4>1
      <4>3. v \notin above /\ kernel_page_table[v] = g
        BY <1>5, <4>1, <4>2, Pages
      <4>4. \A w \in above : kernel_page_table[w] # g
        BY <1>3, <4>1, <4>3 DEF IInv, HeldOnce
      <4> QED
        BY <2>1, <4>1, <4>3, <4>4, HeapFramesDef
    <3>2. ASSUME g \in HeapFrames, g \notin FramesOf(above) PROVE g \in HeapFrames'
      BY <1>5, <2>1, <3>2, HeapFramesDef, Pages
    <3> QED
      BY <3>1, <3>2
  <2> QED
    BY <2>2
<1>8. FramesOf(above) \subseteq HeapFrames
  BY <1>3 DEF FramesOf, HeapFrames
<1>9. \A p \in Pcb : FramesOf(above) \cap StackFramesOf(p) = {}
  BY <1>8, StackOwner DEF IInv, HeldOnce
<1>10. HeldOnce'
  <2>1. \A v, w \in HeapPages : kernel_page_table'[v] = kernel_page_table'[w]
                                /\ kernel_page_table'[v] # NULL => v = w
    BY <1>5, Pages DEF IInv, HeldOnce
  <2> QED
    BY <1>1, <1>4, <1>7, <1>8, <1>9, <2>1 DEF IInv, HeldOnce
<1>11. Stacks' /\ BootOrder'
  BY <1>1 DEF IInv, Stacks, BootOrder, Exists, NoStack, KStack, stack_page, processes
<1>12. TextAndStack'
  <2>1. \A v \in 0..(orig_kernel_brk_page - 1) \cup KStack :
          kernel_page_table'[v] = kernel_page_table[v]
    BY <1>3, <1>5, Pages
  <2> QED
    BY <1>1, <1>4, <2>1 DEF IInv, TextAndStack, processes
<1>13. Growth'
  <2>1. \A v \in orig_kernel_brk_page..(to - 1) :
          /\ v \in orig_kernel_brk_page..(from - 1)
          /\ kernel_page_table'[v] = kernel_page_table[v]
    BY <1>1, <1>2, <1>3, <1>5, Pages, Constants DEF HeapPages
  <2> QED
    BY <1>1, <1>4, <2>1 DEF IInv, Growth, InHeap, call
<1>14. HeapDeals /\ RegionDeals /\ (\A p \in Pcb : StackDeals(p)) /\ FreedWasHeld
  BY <1>1, <1>4, <1>7, <1>8 DEF HeapDeals, RegionDeals, StackDeals, FreedWasHeld
<1>15. FT!Step
  <2>1. used' \subseteq Frame
    BY <1>6 DEF TypeOK
  <2>2. \A p \in Pcb : p = idle_process => StackFramesOf(p)' \subseteq Reserved
    BY <1>4, StackOwner
  <2> QED
    BY <1>10, <1>14, <2>1, <2>2, DealStep DEF HeapDeals
<1>16. Lost' \subseteq Lost
  BY <1>1, <1>14, NoneLost
<1> QED
  BY <1>6, <1>10, <1>11, <1>12, <1>13, <1>15, <1>16 DEF IInv, Honest
-----------------------------------------------------------------------------
(* The invariant, and what follows from it.                                *)

LEMMA InitIInv == Init => IInv
<1> SUFFICES ASSUME Init PROVE IInv
  OBVIOUS
<1>1. /\ vm_enabled = FALSE /\ used = Reserved /\ current_kernel_brk = 0
      /\ \A v \in Page : kernel_page_table[v] = NULL
      /\ heap_end = heap_start /\ current_process = NULL /\ user_frames = {}
      /\ kernel_stack_frames = [p \in Pcb |-> NoStack]
      /\ growing = FALSE /\ new_kbrk_addr = 0 /\ todo = {}
  BY DEF Init
<1>2. HeapFrames = {} /\ \A p \in Pcb : StackFramesOf(p) = {} /\ ~Exists(p)
  <2>1. ASSUME NEW f PROVE f \notin HeapFrames
    BY <1>1, HeapFramesDef, Pages
  <2>2. ASSUME NEW p \in Pcb, NEW f PROVE f \notin StackFramesOf(p)
    BY <1>1, StackFramesDef DEF NoStack
  <2>3. \A p \in Pcb : ~Exists(p)
    BY <1>1 DEF Exists
  <2> QED
    BY <2>1, <2>2, <2>3
<1>3. TypeOK
  <2>1. kernel_page_table \in [Page -> Frame \cup {NULL}]
    BY DEF Init
  <2>2. kernel_stack_frames \in [Pcb -> [KStack -> Frame \cup {NULL}]]
    BY <1>1 DEF NoStack
  <2>3. /\ 0 \in 0..(heap_end_limit - 1)
        /\ heap_start \in heap_start..(heap_end_limit - 1)
    BY HeapStart
  <2>4. used \subseteq Frame
    BY <1>1, Pages
  <2> QED
    BY <1>1, <2>1, <2>2, <2>3, <2>4 DEF TypeOK
<1>4. HeldOnce
  BY <1>1, <1>2, Pages DEF HeldOnce
<1>5. Stacks /\ BootOrder /\ TextAndStack /\ Growth
  BY <1>1, <1>2 DEF Stacks, BootOrder, TextAndStack, Growth
<1> QED
  BY <1>3, <1>4, <1>5 DEF IInv

LEMMA NextIInv == IInv /\ [Next]_vars => IInv' /\ Honest
<1> SUFFICES ASSUME IInv, [Next]_vars PROVE IInv' /\ Honest
  OBVIOUS
<1>1. CASE EnableVM \/ idle_proc_create
  BY <1>1, EnableVMStep, IdleStep
<1>2. ASSUME NEW addr \in Requests, SetKernelBrk(addr) PROVE IInv' /\ Honest
  BY <1>2, SetKernelBrkAtBootStep, SetKernelBrkGrowStep, SetKernelBrkShrinkStep
     DEF SetKernelBrk
<1>3. CASE GrowPage \/ GrowNoFrame \/ GrowDone
  BY <1>3, GrowPageStep, GrowEndStep
<1>4. CASE create_sframesFails \/ LoadUserPage \/ data_copy \/ FreeUserPage
  BY <1>4, StackFailsStep, UserPageStep, FreeUserPageStep
<1>5. ASSUME NEW p \in Pcb, create_sframes(p) \/ KCCopy(p) \/ KCSwitch(p) \/ free_sframes(p)
      PROVE  IInv' /\ Honest
  BY <1>5, CreateStackStep, KCCopyStep, KCSwitchStep, FreeStackStep
<1>6. CASE UNCHANGED vars
  <2>1. UNCHANGED <<vm_enabled, used, kernel_page_table, current_kernel_brk, heap_end,
                    current_process, kernel_stack_frames, user_frames, growing,
                    new_kbrk_addr, todo>>
    BY <1>6 DEF vars, heap, processes, call
  <2>2. HeldOnce' /\ Stacks' /\ Honest
    BY <2>1, HoldersKept
  <2>3. TypeOK' /\ BootOrder' /\ TextAndStack' /\ Growth'
    BY <2>1 DEF IInv, TypeOK, BootOrder, TextAndStack, Growth, Exists, UP_TO_PAGE
  <2> QED
    BY <2>2, <2>3 DEF IInv
<1> QED
  BY <1>1, <1>2, <1>3, <1>4, <1>5, <1>6 DEF Next

\* The inductive invariant holds, and every step is a step of the frame table.
THEOREM Invariance == Spec => []IInv
<1>1. IInv /\ [Next]_vars => IInv'
  BY NextIInv
<1> QED
  BY <1>1, InitIInv, PTL DEF Spec

\* The kernel's table maps pages to frames, and its break stays below the stack.
THEOREM TypeCorrect == Spec => []TypeOK
<1>1. IInv => TypeOK
  BY DEF IInv
<1> QED
  BY <1>1, Invariance, PTL

\* No two pages of region 0 share a frame, and the heap shares none with a
\* process, however SetKernelBrk and the processes run each other out of frames.
THEOREM RegionZeroIsIsolated == Spec => []RegionZeroIsolated
<1>1. IInv => RegionZeroIsolated
  <2> SUFFICES ASSUME IInv PROVE RegionZeroIsolated
    OBVIOUS
  <2>1. HeapFrames \subseteq used \ Reserved /\ Reserved \subseteq used
    BY DEF IInv, HeldOnce
  <2>2. \A p \in Pcb : StackFramesOf(p) \subseteq used /\ HeapFrames \cap StackFramesOf(p) = {}
    BY StackOwner DEF IInv, HeldOnce
  <2>3. HeapFrames \cap ProcessFrames = {} /\ ProcessFrames \subseteq used
    BY <2>2 DEF IInv, HeldOnce, ProcessFrames
  <2>4. ASSUME NEW v \in Page, NEW w \in Page,
               kernel_page_table[v] = kernel_page_table[w], kernel_page_table[v] # NULL
        PROVE  v = w
    <3>1. vm_enabled
      BY <2>4 DEF IInv, TypeOK, BootOrder
    <3>2. \A u \in 0..(orig_kernel_brk_page - 1) :
            kernel_page_table[u] = u \/ kernel_page_table[u] = NULL
      BY <3>1 DEF IInv, TextAndStack
    <3>3. \A u \in HeapPages : kernel_page_table[u] = NULL \/ kernel_page_table[u] \in used \ Reserved
      BY <2>1, HeapFramesDef
    <3>4. CASE current_process = NULL
      <4>1. \A u \in KStack : kernel_page_table[u] = u
        BY <3>1, <3>4 DEF IInv, TextAndStack
      <4> QED
        BY <2>4, <3>2, <3>3, <4>1, Pages DEF IInv, HeldOnce
    <3>5. CASE current_process # NULL
      <4> DEFINE p == current_process
      <4>1. p \in Pcb /\ Exists(p)
        BY <3>5 DEF IInv, TypeOK, BootOrder
      <4>2. \A u \in KStack : kernel_page_table[u] = kernel_stack_frames[p][u]
        BY <3>1, <3>5 DEF IInv, TextAndStack
      <4>3. \A u, x \in KStack : kernel_page_table[u] = kernel_page_table[x] => u = x
        BY <4>1, <4>2 DEF IInv, Stacks, KStack
      <4>4. ASSUME NEW u \in KStack
            PROVE  \A x \in Page \ KStack : kernel_page_table[x] # kernel_page_table[u]
        <5>1. CASE p = idle_process
          <6>1. kernel_page_table[u] = u
            BY <4>1, <4>2, <5>1 DEF IInv, Stacks
          <6> QED
            BY <3>2, <3>3, <6>1, Pages, Constants
        <5>2. CASE p # idle_process
          <6>1. kernel_page_table[u] \in StackFramesOf(p)
            BY <4>1, <4>2, StackOwner
          <6>2. kernel_page_table[u] \notin Reserved /\ kernel_page_table[u] \notin HeapFrames
                /\ kernel_page_table[u] # NULL
            <7>1. StackFramesOf(p) \subseteq used \ (Reserved \cup HeapFrames \cup user_frames)
              BY <4>1, <5>2 DEF IInv, HeldOnce
            <7> QED
              BY <6>1, <7>1, StackFramesDef
          <6>3. \A x \in HeapPages : kernel_page_table[x] # kernel_page_table[u]
            BY <6>2, HeapFramesDef
          <6>4. \A x \in 0..(orig_kernel_brk_page - 1) : kernel_page_table[x] # kernel_page_table[u]
            BY <3>2, <6>2, Pages
          <6> QED
            BY <6>3, <6>4, Pages
        <5> QED
          BY <5>1, <5>2
      <4>5. \A u, x \in Page \ KStack :
              kernel_page_table[u] = kernel_page_table[x] /\ kernel_page_table[u] # NULL => u = x
        BY <3>2, <3>3, Pages DEF IInv, HeldOnce
      <4> QED
        BY <2>4, <4>3, <4>4, <4>5
    <3> QED
      BY <3>4, <3>5
  <2> QED
    BY <2>1, <2>3, <2>4 DEF RegionZeroIsolated
<1> QED
  BY <1>1, Invariance, PTL

\* The kernel always runs on the stack of the process whose context it is in:
\* SetKernelBrk never unmaps it, and KCSwitch maps all of it.
THEOREM StackIsAlwaysCurrent == Spec => []StackIsCurrent
<1>1. IInv => StackIsCurrent
  <2> SUFFICES ASSUME IInv PROVE StackIsCurrent
    OBVIOUS
  <2>1. ASSUME current_process # NULL
        PROVE  vm_enabled /\ \A v \in KStack :
                 kernel_page_table[v] = kernel_stack_frames[current_process][v]
    BY <2>1 DEF IInv, BootOrder, TextAndStack, TypeOK
  <2>2. ASSUME vm_enabled, NEW v \in KStack
        PROVE  kernel_page_table[v] # NULL /\ v >= first_kernel_text_page
    <3>1. v >= first_kernel_text_page /\ v # NULL
      BY Pages, Constants DEF KStack
    <3>2. CASE current_process = NULL
      BY <2>2, <3>1, <3>2 DEF IInv, TextAndStack
    <3>3. CASE current_process # NULL
      BY <2>1, <2>2, <3>1, <3>3 DEF IInv, BootOrder, Stacks, TypeOK
    <3> QED
      BY <3>2, <3>3
  <2>3. ASSUME vm_enabled, NEW v \in 0..(orig_kernel_brk_page - 1)
        PROVE  kernel_page_table[v] # NULL <=> v >= first_kernel_text_page
    <3>1. v # NULL
      BY Pages, Constants
    <3> QED
      BY <2>3, <3>1 DEF IInv, TextAndStack
  <2> QED
    BY <2>1, <2>2, <2>3 DEF StackIsCurrent
<1> QED
  BY <1>1, Invariance, PTL

\* SetKernelBrk never leaves a hole below the break, but for the page that
\* KCCopy and data_copy take out of the heap.
THEOREM HeapIsMapped == Spec => []HeapBelowBreakMapped
<1>1. IInv => HeapBelowBreakMapped
  BY DEF IInv, Growth, HeapBelowBreakMapped, Between
<1> QED
  BY <1>1, Invariance, PTL

\* Nothing but half a kernel stack and a copy through the heap's last page leaves
\* a frame marked that nobody has; SetKernelBrk, failing or not, leaves none.
THEOREM OnlyCopiesLoseFrames == Spec => FramesLostOnlyByCopies
<1> DEFINE NoLoss == Lost' \subseteq Lost \/ create_sframesFails \/ LastHeapPageTaken
<1>1. IInv /\ [Next]_vars => [NoLoss]_vars
  BY NextIInv DEF Honest
<1> QED
  BY <1>1, Invariance, PTL DEF Spec, FramesLostOnlyByCopies

\* Heap, region 1 tables and kernel stacks implement the frame table: what
\* SetKernelBrk maps, no process has, and the other way around.
THEOREM ImplementsTheFrameTable == Spec => ImplementsFrameTable
<1>1. Init => FT!Init
  <2> SUFFICES ASSUME Init PROVE FT!Init
    OBVIOUS
  <2> DEFINE Holders == Pcb \cup {Heap, Region1}
             H == [h \in Holders |-> CASE h = Heap    -> HeapFrames
                                       [] h = Region1 -> user_frames
                                       [] OTHER       -> StackFramesOf(h) \ Reserved]
  <2>1. IInv
    BY InitIInv
  <2>2. user_frames = {} /\ HeapFrames = {} /\ \A p \in Pcb : StackFramesOf(p) = {}
    <3>1. user_frames = {} /\ \A p \in Pcb : ~Exists(p)
      BY DEF Init, Exists
    <3>2. \A f : f \notin HeapFrames
      BY HeapFramesDef, Pages DEF Init
    <3> QED
      BY <2>1, <3>1, <3>2, StackOwner
  <2>3. \A h \in Holders : H[h] = {}
    BY <2>2
  <2>4. H \in [Holders -> SUBSET Frame]
    BY <2>2
  <2> HIDE DEF H
  <2>5. H \in [Holders -> SUBSET Frame]
        /\ (\A h \in Holders : H[h] \cap (Frame \ used) = {})
        /\ (\A g, h \in Holders : g # h => H[g] \cap H[h] = {})
    BY <2>3, <2>4
  <2> QED
    BY <2>5 DEF FT!Init, FT!Exclusive, H
<1>2. IInv /\ [Next]_vars => [FT!Step]_vars
  BY NextIInv DEF Honest
<1>3. UNCHANGED vars => UNCHANGED FT!vars
  BY DEF vars, heap, processes, call, FT!vars, HeapFrames, HeapPages, StackFramesOf,
         Reserved, holdvpn, KStack, stack_page
<1>4. [FT!Step]_vars => [FT!Step]_(FT!vars)
  BY <1>3
<1> QED
  BY <1>1, <1>2, <1>4, Invariance, PTL DEF Spec, ImplementsFrameTable, FT!Spec
=============================================================================
