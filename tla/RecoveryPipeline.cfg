CONSTANTS
  e1 = e1
  e2 = e2
  pay = pay
  NoEventId = NoEventId
  None = None
  Webhooks <- MCWebhooks
  Tools = {"link", "refund"}
  DrainLimit = 3
  MaxIterations = 1
  MaxDeliveries = 3
  MaxCrashes = 1
SPECIFICATION Spec
INVARIANTS TypeOK RoutedOncePerEventId AtMostOnce
PROPERTY RedeliveryNeverActs
