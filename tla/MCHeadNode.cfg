CONSTANTS
  n1 = n1
  n2 = n2
  n3 = n3
  Nodes <- MCNodes
  NULL = NULL
  NoThread = NoThread
SPECIFICATION SignalledSpec
CHECK_DEADLOCK FALSE
INVARIANT HeadNodeThere
