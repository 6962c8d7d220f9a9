SPECIFICATION MCSpec
CONSTANTS
  d1 = d1  d2 = d2  u1 = u1  u2 = u2  c1 = c1
  Jobs <- MCJobs
  Updates <- MCUpdates
  Deployers <- MCDeployers
  Unattended <- MCUnattended
  Chats <- MCChats
  Settings <- MCSettings
INVARIANT JobsTellTheTruth
PROPERTIES EndsAreTrue UpdateEnds
CHECK_DEADLOCK FALSE
