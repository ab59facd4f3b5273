CONSTANTS
  e1 = e1
  e2 = e2
  pay = pay
  NoEventId = NoEventId
  None = None
  Webhooks <- MCAnonymous
  Tools = {"link"}
  DrainLimit = 2
  MaxIterations = 1
  MaxDeliveries = 2
  MaxCrashes = 1
SPECIFICATION Spec
PROPERTY EveryFailureLedgered
