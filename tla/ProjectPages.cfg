SPECIFICATION GallerySpec
CONSTANTS
  Geometries <- MCGeometries
  MaxZoom = 12
  MaxTasks = 4
  MaxCalls = 1
  MaxDraws = 2
  MaxMoves = 4
  CloneFrom = {"none", "found", "missing"}
  TeamIds = {"T1", "T2"}
  Locales = {"en"}
  Organisations = {"org1", "org2"}
  People = {"me", "boss", "aide"}
  Managers <- MCManagers
  Crews <- MCCrews
  Areas = {"P"}
  MaxEdits = 4
  MaxSaves = 2
  Users <- MCUsers
  Projects <- MCProjects
  LaterUsers <- MCLaterUsers
  LaterProjects <- MCLaterProjects
  Tasks = {1, 2, 3, 4}
  Histories <- MCHistories
  Expiry = 2
  Warning = 1
  MaxTime = 2
  MaxVisits = 1
  MaxForms = 1
  MaxLosses = 1
  MaxExtends = 2
INVARIANTS
  OneOutcome
  ExpiryWatched
  CreatedAsShown
  CreatedOnce
  SomebodyMayWork
  SuccessIsOfTheShown
  TransferIsGranted
  VerdictsSound
PROPERTY OffersAreGranted
CHECK_DEADLOCK FALSE
