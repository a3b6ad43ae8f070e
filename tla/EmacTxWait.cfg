SPECIFICATION Live
CONSTANTS
  N = 3
  Frames = 4
  Clens = {1, 2}
  Slow = FALSE
  Priority = TRUE
PROPERTIES WaitEnds
CHECK_DEADLOCK FALSE
