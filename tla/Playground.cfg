SPECIFICATION Spec
CONSTANTS
  r1 = r1
  r2 = r2
  p1 = p1
  None = None
  Absent = Absent
  Torn = Torn
  NoWrite = NoWrite
  Requests <- MCRequests
  Payments <- MCPayments
  Amounts <- MCAmounts
  Answers <- MCAnswers
  Prompts <- MCPrompts
  MaxRuns = 1
  Window = 1
  MaxTime = 2
  Threshold = 2
  MaxAsks = 2
  MaxEvents = 2
  MaxCrashes = 1
INVARIANTS
  TypeOK
  WithinLimit
  AnswersStand
  NoHeldAmountMoves
  ShownCoversOwn
  HalvesAgree
SYMMETRY Symmetry
CHECK_DEADLOCK FALSE
