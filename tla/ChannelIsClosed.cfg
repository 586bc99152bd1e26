SPECIFICATION Spec
CONSTANTS
  Applications = {"a1", "a2"}
  Scenarios <- MCScenarios
  MaxChannels = 7
  MaxFaults = 1
  MaxRestarts = 1
INVARIANT ChannelIsClosed
CHECK_DEADLOCK FALSE
