\* Nine frames to hand out: one is idle's page, and the others are enough for
\* init and one child with small images, not for a large one and another.
CONSTANTS
  idle_process = idle
  init_process = init
  Pcb = {idle, init, p1}
  MAX_PT_LEN = 6
  frame_count = 13
  orig_kernel_brk_page = 1
  TEMP_KSTACK = 1
  V1_KSTACK = 2
  V2_KSTACK = 3
  Programs <- MCPrograms
  Breaks <- MCBreaks
  Faults <- MCFaults
  NULL = NULL
SPECIFICATION Spec
INVARIANTS
  TypeOK
  FrameIsolation
  NoOverrun
  GuardPage
  HeapMapped
PROPERTIES
  FramesLostOnlyByFork
  ImplementsFrameTable
\* A program in a fault takes it for ever, and a kernel that has gone astray
\* is not followed any further.
CHECK_DEADLOCK FALSE
