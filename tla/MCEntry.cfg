CONSTANT MaxChains = 2
SPECIFICATION FairSpec
INVARIANTS EntryTypeOK DrogueCommandedOnce NoDrogueUnannounced
PROPERTIES GuidanceLostOnlyBy DrogueFollows RollFollows
