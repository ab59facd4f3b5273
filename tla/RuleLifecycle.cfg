CONSTANTS
  Amounts = {5, 9}
  Band <- MCBand
  ActionNames = {"refund"}
  Proposals <- MCRefunds
  ApprovalThreshold = 5
  Cadence = 2
  MinClusterSupport = 1
  MinClusterAgreement <- Rate80
  ReasonRecoveryHint <- Rate60
  MinSupport = 2
  MinAgreement <- Rate90
  MinAgreementLB <- Rate80
  MinRecoveryLB <- Quarter
  MinRecent = 1
  RecoveryUBFloor <- Quarter
  ZSquared <- Quarter
  MaxCases = 8
  None = None
SPECIFICATION Spec
INVARIANTS TypeOK NoHeldAmountRefunded
PROPERTIES DemotedStaysOut DemotedOnItsRecord
