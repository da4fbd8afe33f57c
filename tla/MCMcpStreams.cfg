SPECIFICATION Spec
CONSTANTS
  Calls = {"c1"}
  Listens = {"l1", "l2"}
  Cancels = {"k1"}
  Asking = {}
  Announcing = {"c1"}
  Target <- MCTarget
  IdOf <- MCOneId
  Transports = {"http"}
  Slots = 1
  MaxNano = 2
  NoCall = NoCall
  NoStream = NoStream
PROPERTY StreamsCloseThemselves
CHECK_DEADLOCK FALSE
