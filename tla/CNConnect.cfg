\* Three connection attempts of one configured bot and one new one, with the session of the other bot on disk.
CONSTANTS
  Bots = {b1, b2}
  NoBot = NoBot
  Unreadable = Unreadable
  MaxGen = 3
  Configured = {b1}
  Stored = {b2}
  MaxTimers = 1
SPECIFICATION FairSpec
INVARIANTS
  ConnTypeOK
  OneClient
  SessionIsClients
  NoRequestOutlives
  GatewayUsable
  ConnectedIsTrue
  NewestConfigWins
  NotStranded
PROPERTIES
  
  ClosingEnds
