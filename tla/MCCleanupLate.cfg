SPECIFICATION Spec
CONSTANTS
  Service = {"barbican"}
  Resource <- MCResource
  KindOf <- MCKindOf
  ServiceOf <- MCServiceOf
  Foreign <- MCForeign
  Refs <- MCRefs
  Script <- MCScript
  Guarded <- MCGuarded
  ByMark <- MCByMark
  ByRecord <- MCByRecord
  Through <- MCThrough
  Unmarkable <- NoIdentity
  MarkedLater <- TaggedAfterCreate
  Pins <- MCPins
  Cascades <- MCCascades
  Slow <- MCSlow
  DeviceOwned <- MCDeviceOwned
  Late <- MCLateSecret
  Concurrency = 2
  MaxFaults = 0
CHECK_DEADLOCK FALSE
INVARIANT
  NoHandleLost
