\* A heap of at most four pages, the last of which is the page copies go
\* through, and six frames for it and the processes.
CONSTANTS
  idle_process = idle
  Pcb = {idle, p1}
  PAGESIZE = 2
  MAX_PT_LEN = 8
  frame_count = 11
  first_kernel_text_page = 1
  orig_kernel_brk_page = 2
  Requests <- MCRequests
  NULL = NULL
SPECIFICATION Spec
INVARIANTS
  TypeOK
  RegionZeroIsolated
  StackIsCurrent
  HeapBelowBreakMapped
PROPERTIES
  FramesLostOnlyByCopies
  ImplementsFrameTable
