CONSTANTS
  b1 = b1
  b2 = b2
  b3 = b3
  Buf <- Bufs
  NUM = 7
  WRAP = 7
  Value = {0, 1}
  None = None
  Calls <- Requests
SPECIFICATION Spec
VIEW Relevant
INVARIANTS DescriptorsExact NoLostWakeup
PROPERTIES VirtioImplementsDisk
