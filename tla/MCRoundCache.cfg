SPECIFICATION FairRound
CONSTANTS
  Watches = {"w1", "w2", "w4", "w5"}
  PollKeys = {"lon", "rom"}
  KeyOf <- MCKeyOf
  Slots = 2
  Prices = {0, 80}
  NoWatch = NoWatch
  Rooms = {"w5"}
INVARIANTS OneCallPerTarget PricesAgree NothingLost
PROPERTY RoundReturns
