CONSTANTS
  s1 = s1
  s2 = s2
  q1 = q1
  q2 = q2
  NoResize = NoResize
  SwapChains <- MCSwapChains
  Queues <- MCQueues
  MaxBuffers = 2
  MaxQueues = 2
SPECIFICATION Spec
INVARIANTS
  DirectQueuesLive
CHECK_DEADLOCK FALSE
