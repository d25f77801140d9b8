CONSTANTS
  s1 = s1
  s2 = s2
  q1 = q1
  q2 = q2
  NoResize = NoResize
  SwapChains <- MCSwapChains
  Queues <- MCQueues
  MaxBuffers = 3
  MaxQueues = 3
SPECIFICATION Spec
INVARIANTS
  BuffersMatchSwapChain
CHECK_DEADLOCK FALSE
