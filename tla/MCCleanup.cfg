SPECIFICATION FairSpec
CONSTANTS
  Service = {"neutron", "cinder", "glance", "nova", "octavia", "keystone", "barbican"}
  Resource <- MCResource
  KindOf <- MCKindOf
  ServiceOf <- MCServiceOf
  Foreign <- MCForeign
  Refs <- MCRefs
  Script <- MCScript
  Guarded <- MCGuarded
  ByMark <- MCByMark
  ByRecord <- MCByRecord
  Through <- MCThrough
  Unmarkable <- NoIdentity
  MarkedLater <- TaggedAfterCreate
  Pins <- MCPins
  Cascades <- MCCascades
  Slow <- MCSlow
  DeviceOwned <- MCDeviceOwned
  Late <- MCLate
  Concurrency = 2
  MaxFaults = 2
CHECK_DEADLOCK FALSE
INVARIANTS
  CleanupComplete
  DeletesAreRight
  NoHandleLost
PROPERTIES
  EventuallyClean
