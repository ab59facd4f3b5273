CONSTANTS
  r1 = r1
  c1 = c1
  c2 = c2
  s1 = s1
  k1 = k1
  k2 = k2
  k3 = k3
  None = None
  Runs = {r1}
  Callers = {c1, c2}
  Subjects = {s1}
  Keys = {k1, k2, k3}
  Names = {"refund", "send_payment_link", "charge_card"}
  Registered = {"refund", "send_payment_link"}
  Actions <- MCUnknown
  ApprovalThreshold = 2
  ActionBudget = 2
  SpendCap = 4
  Serialised = TRUE
  MaxCalls = 5
  MaxCrashes = 1
SYMMETRY Symmetry
SPECIFICATION Spec
INVARIANTS TypeOK SpendWithinCap BudgetRespected AtMostOnce OutlayWithinCap IInv ReplayMatchesStore
PROPERTIES GateHolds HaltIsFinal ImplementsContract
