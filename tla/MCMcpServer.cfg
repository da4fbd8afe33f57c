SPECIFICATION FairSpec
CONSTANTS
  Calls = {"c1", "c2", "c3"}
  Listens = {"l1"}
  Cancels = {"k1"}
  Asking = {"c1", "c2"}
  Announcing = {"c3"}
  Target <- MCTarget
  IdOf <- MCOwnIds
  Transports = {"stdio", "http"}
  Slots = 2
  MaxNano = 2
  NoCall = NoCall
  NoStream = NoStream
INVARIANTS TypeOK UpdatesFollowAck AnswersRouted FlushedAtReturn
PROPERTIES EveryoneServed CancelHonoured
CHECK_DEADLOCK FALSE
