CONSTANTS
  p1 = p1
  p2 = p2
  c1 = c1
  c2 = c2
  Producers <- MCProducers
  Consumers <- MCConsumers
  QueueSize = 3
  Capacity = 2
  Wrap = 2
  NoItem = NoItem
SPECIFICATION FairSpec
INVARIANT TypeOK
INVARIANT SlotAccounting
INVARIANT MutualExclusion
PROPERTY BufferPromise
PROPERTY ProducersServed
