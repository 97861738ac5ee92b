\* idle, init and two child blocks that malloc hands out again and again;
\* the tick counter wraps every 3 ticks.
CONSTANTS
  idle_process = idle
  init_process = init
  Pcb = {idle, init, p1, p2}
  NULL = NULL
  Wild = Wild
  TickMod = 3
  Delays = {1, 2}
  ReuseFreed = TRUE
SPECIFICATION Spec
SYMMETRY Symmetry
INVARIANTS
  TypeOK
  Placement
  NoWildJump
  NoSleeperSkipped
  SavedContexts
PROPERTIES
  DeadStayDead
  SleepersWakeForAReason
  NoOvertaking
