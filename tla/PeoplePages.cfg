SPECIFICATION GallerySpec
CONSTANTS
  Users = {"boss", "me", "ann"}
  Boss = "boss"
  Me = "me"
  OrgManagers = {"boss"}
  JoinMethods = {"ANY", "BY_REQUEST"}
  Chosen <- MCChosen
  MaxSaves = 2
  MaxPresses = 4
  Kinds = {"organisations", "campaigns", "interests", "licenses"}
  Names = {n1, n2, n3}
  MaxEntries = 3
  MaxSteps = 5
  PageSize = 1
  MaxMessages = 2
  MaxClicks = 4
  Views = {"explore", "mine", "tasks", "stats"}
  ResultPages <- MCResultPages
  MaxChanges = 3
  Accounts = {"u1", "u2"}
  MaxActs = 7
  UserIds = {1, 2, 3}
  Roles = {"MAPPER", "ADMIN"}
  Levels = {"BEGINNER", "ADVANCED"}
  PerPage = 2
  MaxQueries = 3
  MaxUntold = 1
INVARIANTS
  MembershipIsAgreed
  OneVisitOneEntry
  DeletesWhatIsShown
  ShownIsAsked
  PageWithinResults
  LoaderHasRequest
  SwitchIsSaved
  ListFollowsChanges
PROPERTY ProjectKeepsOrganisation
CHECK_DEADLOCK FALSE
