SPECIFICATION Spec
CONSTANTS
  Producers = {p1, p2}
  p1 = p1
  p2 = p2
  MaxEvents = 2
  QueueSize = 1
  Cap = 2
  DeliverBurst = 1
  IdleBurst = 2
  MaxFaults = 2
  MaxCrashes = 1
  Nobody = Nobody
  NoEvent = NoEvent
INVARIANTS SpooledSurvives DeliveredInOrder FileBounded
SYMMETRY Processes
