SPECIFICATION Spec
CONSTANTS
  c1 = c1 c2 = c2 c3 = c3 g1 = g1 g2 = g2 me = me n1 = n1 n2 = n2
  acc1 = acc1 acc2 = acc2 aff1 = aff1 aff2 = aff2 b1 = b1 b2 = b2
  Zero = zero
  Self = me
  Contact <- MCContact
  Single <- MCSingle
  ColumnLimit = 1
  MayFail = FALSE
  RemovalLists <- MCRemovalLists
  MergeMaps <- MCMergeMaps
  Mfe = {"mfe1", "mfe2"}
  SyncTarget <- MCSyncTarget
  Account = {acc1, acc2}
  Unmerges <- MCUnmerges
  NewContact <- MCNewContact
  NewAffiliation <- MCNewAffiliation
  RelationLists <- MCRelationLists
  Participants <- MCParticipants
  Calls <- MCCalls
  Scenarios <- SharedScenarios
PROPERTIES UnmergeKeepsAccounts
CHECK_DEADLOCK FALSE
