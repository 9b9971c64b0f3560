CONSTANTS
  Window = 2
  SeqMax = 4
  MaxAttempts = 3
  BatchMax = 2
  Stream <- Response
  OutputKinds <- ControlOnly
  MaxEvents = 1
SPECIFICATION Spec
CHECK_DEADLOCK FALSE
PROPERTIES
    DeliveredInTheEnd
    LinkRecovers
