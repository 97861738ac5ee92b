\* One terminal, since a handler touches no other; two PCB blocks and four
\* processes in them; a heap that three typed lines overfill.
CONSTANTS
  Pcb = {p1, p2}
  Tty = {t1}
  TERMINAL_MAX_LINE = 2
  Lens = {2, 3}
  HEAP_BLOCKS = 2
  MAX_PID = 4
  MAX_TRANSMITS = 3
  MAX_LINES = 3
  NULL = NULL
SPECIFICATION FairSpec
INVARIANTS
  TypeOK
  WaitingForTransmission
PROPERTIES
  WrittenWhole
  RefusalEnds
\* Every program may have exited.
CHECK_DEADLOCK FALSE
