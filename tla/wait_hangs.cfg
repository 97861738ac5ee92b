\* A block that malloc hands out again after Wait has freed it.
CONSTANTS
  idle_process = idle
  init_process = init
  Pcb = {idle, init, p1, p2}
  NULL = NULL
  Wild = Wild
  TickMod = 3
  Delays = {2}
  ReuseFreed = TRUE
SPECIFICATION FairSpec
PROPERTIES
  WaitSearchEnds
