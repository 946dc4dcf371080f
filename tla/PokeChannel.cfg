SPECIFICATION FairSpec
CONSTANTS
  h1 = h1 h2 = h2 h3 = h3
  Caller = {h1, h2}
  PokeRoom = 2
  ReplyRoom = 2
  MaxDeaths = 2
CHECK_DEADLOCK FALSE
INVARIANTS TypeOK NoPokeLost
PROPERTIES PokeReturns Reconnects
