SPECIFICATION Spec
CONSTANTS
  c1 = c1 c2 = c2
  Zero = zero
  Contact <- MCContact
  Single <- MCSingle
  MayFail = FALSE
  LocalNumber <- MCLocalNumber
  SameText <- MCSameText
  EngineTarget = "addressbook"
  WeakTargets = {"telepathy"}
  Schema <- MCSchema
  Profiles <- MCProfiles
  Edits <- MCEdits
  Others <- MCOthers
  Clock <- MCClock
  Guids <- MCGuids
  Filters <- MCFilters
  Matching <- MCMatching
  NotAfter <- MCNotAfter
  LongNumber <- MCLongNumber
INVARIANT FiltersAgree
PROPERTIES SavedIsRead NothingLeft OthersAreKept ForeignIsKept IdentityIsKept
CHECK_DEADLOCK FALSE
