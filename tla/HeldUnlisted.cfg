CONSTANTS
  r1 = r1
  r2 = r2
  c1 = c1
  s1 = s1
  kLink = kLink
  kRefund = kRefund
  kEscalate = kEscalate
  None = None
  Runs = {r1, r2}
  Callers = {c1}
  Subjects = {s1}
  Keys = {kLink, kRefund, kEscalate}
  Names = {"refund", "send_payment_link", "escalate_to_human"}
  Registered = {"refund", "send_payment_link", "escalate_to_human"}
  Actions <- MCActions
  Offers <- MCOffers
  ApprovalThreshold = 2
  SpendCap = 1
  Serialised = TRUE
  ActionBudget = 2
  MaxIterations = 2
  MaxRuns = 1
  MaxCalls = 2
  MaxCrashes = 0
SPECIFICATION AgentSpec
INVARIANT HeldActionsListed
