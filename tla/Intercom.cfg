SPECIFICATION FairSpec
CONSTANTS
  MaxChannel = 1
  Relay = Relay
  Lobby = Lobby
  Request = {p1, p2}
  Ip = {i1}
  None = None
  SendAuth = {"callback"}
  FailLimit = 2
  Scrypts = 1
  Watched = {0}
  MaxGen = 2
  MaxHash = 1
INVARIANTS
  ChecksStayTrue
  GuessesLimited
  RowsAreCurrent
PROPERTIES
  RequestsFinish
