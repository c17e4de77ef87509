SPECIFICATION FairSpec
CONSTANTS
  t1 = t1
  t2 = t2
  t3 = t3
  q1 = q1
  q2 = q2
  Tasks = {t1, t2, t3}
  ControlTasks = {t2}
  LoopTasks = {t1, t2}
  Quitters = {q1, q2}
  LoopQuitters = {q2}
  Capacity = 1
  SlotCount = 2
  HighWaterMark = 0
  LowWaterMark = 0
  BatchLimit = 2
  RingFaults = TRUE
INVARIANT LifecycleSafe
INVARIANT AcceptedRunsOnce
PROPERTY AcceptedRuns
PROPERTY QuitStops
