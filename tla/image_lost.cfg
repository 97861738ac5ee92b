\* Programs that read short, and processes that run out of frames while they grow
\* their heap.
CONSTANTS
  idle_process = idle
  init_process = init
  Pcb = {idle, init, p1}
  MAX_PT_LEN = 6
  frame_count = 13
  orig_kernel_brk_page = 1
  TEMP_KSTACK = 1
  V1_KSTACK = 2
  V2_KSTACK = 3
  Programs <- MCPrograms
  Breaks <- MCBreaks
  Faults <- MCFaults
  NULL = NULL
SPECIFICATION Spec
INVARIANTS
  RunnableHasImage
CHECK_DEADLOCK FALSE
