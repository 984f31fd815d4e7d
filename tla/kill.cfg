SPECIFICATION FairSpec
CONSTANTS
  MAX_TASKS = 2
  MaxId = 3
  Processes <- MCProcesses
  MainCalls <- MCMainCalls
  ThreadCalls <- MCThreadCalls
  MaxKills = 1
  MaxExecs = 1
INVARIANT TypeOK
INVARIANT SpaceOutlivesUsers
PROPERTY OrphansEnd
 
CHECK_DEADLOCK FALSE
