SPECIFICATION FairSpec
CONSTANTS
  Calls = {write, read}
  Reads = {read}
  Handlers = {h1, h2}
  MaxRequests = 3
  NoCall = NoCall
CHECK_DEADLOCK FALSE
PROPERTY TerminalStatesAreFinal
