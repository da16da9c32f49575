CONSTANTS
  Clients = {c1, c2, c3}
  ExtIds = {a, b}
  QueueSize = 1
  NoCall = NoCall
SPECIFICATION FairSpec
INVARIANTS TypeOK OneNumberOneOrder EngineOrdersNamed
PROPERTIES ImplementsAtomicBook EveryCallReturns
