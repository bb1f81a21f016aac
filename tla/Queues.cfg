SPECIFICATION FairSpec
CONSTANTS
  t1 = t1
  t2 = t2
  qa = qa
  qb = qb
  Threads = {t1, t2}
  Queues = {qa, qb}
  Items = {1, 2}
  Priorities = {1, 2}
  MaxNodes = 4
  MaxCalls = 3
  NoThread = NoThread
  NoQueue = NoQueue
  Fillings <- MCFillings
  Twice <- MCTwice
INVARIANT QueuesSound
PROPERTIES KeepsPromise CallsReturn
CHECK_DEADLOCK FALSE
