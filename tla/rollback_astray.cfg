\* The kernel's own frames at either end of memory, and processes with pages
\* enough for a count of them to reach the number of another's frame.
CONSTANTS
  idle_process = idle
  init_process = init
  Pcb = {idle, init, p1}
  MAX_PT_LEN = 13
  frame_count = 32
  orig_kernel_brk_page = 1
  TEMP_KSTACK = 29
  V1_KSTACK = 30
  V2_KSTACK = 31
  Programs <- MCLongPrograms
  Breaks = {}
  Faults = {}
  NULL = NULL
SPECIFICATION Spec
INVARIANTS
  HeldFramesInUse
CHECK_DEADLOCK FALSE
