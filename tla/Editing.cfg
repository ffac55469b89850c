SPECIFICATION MCSpec
CONSTANTS
  Expiry = 2
  Warning = 1
  MaxTime = 3
  MaxVisits = 1
  MaxForms = 0
  MaxLosses = 1
  MaxExtends = 1
  MaxRows = 3
  MaxCalls = 1
PROPERTIES ButtonsComeBack ExpiryTold HistoryConverges
CHECK_DEADLOCK FALSE
