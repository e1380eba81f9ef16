SPECIFICATION LiveSpec
CONSTANTS
  Users = {u1}
  Tab = tab
  MaxRuns = 2
  MaxWrites = 2
  MaxDeaths = 2
PROPERTIES StopSettles ZombiesEnd
CHECK_DEADLOCK FALSE
