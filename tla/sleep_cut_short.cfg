\* Parents in Delay and in Wait, children that go on or exit, and the clock.
CONSTANTS
  idle_process = idle
  init_process = init
  Pcb = {idle, init, p1, p2}
  NULL = NULL
  Wild = Wild
  TickMod = 8
  Delays = {2}
  ReuseFreed = FALSE
SPECIFICATION Spec
PROPERTIES
  BlocksUntilItsEvent
