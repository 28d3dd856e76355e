CONSTANTS
  p1 = p1
  p2 = p2
  c1 = c1
  c2 = c2
  Producers <- MCProducers
  Consumers <- MCConsumers
  Capacity = 2
  Wrap = 2
  NoItem = NoItem
  NoThread = NoThread
SPECIFICATION FairSpec
INVARIANT TypeOK
INVARIANT NoLostWakeup
PROPERTY BufferPromise
PROPERTY EveryItemServed
