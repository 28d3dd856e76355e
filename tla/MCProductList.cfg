CONSTANTS
  n1 = n1
  n2 = n2
  n3 = n3
  Nodes <- MCNodes
  NULL = NULL
  NoThread = NoThread
SPECIFICATION FairSpec
\* a process that has crashed takes no step
CHECK_DEADLOCK FALSE
INVARIANT TypeOK
INVARIANT NoLostWakeup
INVARIANT NodesOwnedOnce
PROPERTY ConsumerWakes
