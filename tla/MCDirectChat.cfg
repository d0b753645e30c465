SPECIFICATION Spec
CONSTANTS
  Devices = {cli, phone}
  Holders = {cli}
  NoDevice = NoDevice
  MaxInbound = 1
  MaxAttempts = 2
  MaxStops = 1
INVARIANTS OneDevicePerDelivery ShownOnce
PROPERTY StreamsEnd
CHECK_DEADLOCK FALSE
