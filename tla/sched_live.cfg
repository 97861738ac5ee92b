\* A block that is free again may be handed out again as soon as no list leads
\* to it.  No symmetry: TLC's is not sound for liveness.
CONSTANTS
  idle_process = idle
  init_process = init
  Pcb = {idle, init, p1, p2}
  NULL = NULL
  Wild = Wild
  TickMod = 2
  Delays = {1}
  ReuseFreed = TRUE
SPECIFICATION FairFamilySpec
INVARIANTS
  Family
PROPERTIES
  ReapsOwnChild
  ReadyRuns
  SleeperWakes
  TrapsReturn
  RefinesLifecycle
