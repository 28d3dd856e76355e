CONSTANTS
  w1 = w1
  w2 = w2
  w3 = w3
  Workers <- MCWorkers
  Main = Main
  Capacity = 2
  NumTasks = 3
  NoThread = NoThread
  NoTask = NoTask
SPECIFICATION FairSpec
\* the process stops when main returns
CHECK_DEADLOCK FALSE
PROPERTY QuitReturns
