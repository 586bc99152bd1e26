SPECIFICATION DeliverySpec
CONSTANTS
  Requests = {r1, r2}
  None = None
  Prefetch = 2
  MaxEvents = 2
  MaxFaults = 1
  MaxRestarts = 1
  Queues = {q1, q2}
  Events = {e1}
  BusRetries = 2
  ErrorThreshold = 50
  VolumeThreshold = 2
  BreakerRetries = 1
  MaxTotal = 6
INVARIANTS ProfilesFollow NothingForgotten
PROPERTIES EveryoneIsServed BusSettles FailedProbeReopens
CHECK_DEADLOCK FALSE
