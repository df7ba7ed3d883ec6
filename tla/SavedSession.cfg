CONSTANTS
  Terminals = {a, b}
  MaxGen = 2
  Scenarios = {{"restart", "stop", "reboot"}, {"restart", "restart fails", "spawn fails"}, {"sleep", "stop"}, {"sleep", "spawn fails"}}
SPECIFICATION FairSpec
INVARIANTS TypeOK DurableStays NoTwins ParkedIsOffered
PROPERTIES LiveIsSaved NoHiddenShell
