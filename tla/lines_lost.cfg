\* One line is enough: the trap that takes it stores something else.
CONSTANTS
  Pcb = {p1, p2}
  Tty = {t1}
  TERMINAL_MAX_LINE = 2
  Lens = {2, 3}
  HEAP_BLOCKS = 2
  MAX_PID = 4
  MAX_TRANSMITS = 3
  MAX_LINES = 3
  NULL = NULL
SPECIFICATION Spec
INVARIANTS
  LinesKept
CHECK_DEADLOCK FALSE
