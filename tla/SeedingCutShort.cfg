CONSTANTS
  Fields <- MCFields
  Actions <- MCActions
  MaxPredicates = 2
  MaxInList = 2
  NotAnObject = NotAnObject
  Garbled = Garbled
  Seeds <- TwoSeeds
  DistilledKeys = {"distilled"}
  Priorities = {50}
  Proposals <- FewProposals
  Edits <- MCEdits
  Contexts <- MCContexts
  MaxRows = 3
  MaxDemotions = 1
  MaxTampered = 1
  MaxCases = 1
SPECIFICATION Spec
INVARIANT SeedsComplete
