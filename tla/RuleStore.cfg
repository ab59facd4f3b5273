CONSTANTS
  Fields <- MCFields
  Actions <- MCActions
  MaxPredicates = 2
  MaxInList = 2
  NotAnObject = NotAnObject
  Garbled = Garbled
  Seeds <- MCSeeds
  DistilledKeys = {"distilled"}
  Priorities = {50}
  Proposals <- MCProposals
  Edits <- MCEdits
  Contexts <- MCContexts
  MaxRows = 3
  MaxDemotions = 1
  MaxTampered = 1
  MaxCases = 1
SPECIFICATION Spec
INVARIANTS TypeOK LoadedRulesAnswerable DecisionsTraceable SeedNotRevived
PROPERTY SeedDecidesFirst
