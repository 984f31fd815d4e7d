SPECIFICATION Spec
CONSTANTS
  Client = client
  Server = server
  SEQ = 16
  ClientIss = 14
  ServerIss = 15
  MSS = 2
  RECEIVE_BUFFER = 2
  SEND_BUFFER = 2
  MAX_RETRIES = 1
  ClientBytes = 3
  ServerBytes = 0
  MaxFaults = 1
INVARIANT TypeOK
INVARIANT StreamIntact
INVARIANT AckedIsReceived
 
 
CHECK_DEADLOCK FALSE
PROPERTY ImplementsStreams
