CONSTANTS
  Values = {"a", "b", "c", "d"}
  Masters = {1, 2}
  Cartridges = {"x", "y"}
  Rosters <- SomeRosters
  Requests <- SomeRequests
  Preferences <- SomePreferences
  MaxChanges = 1
SPECIFICATION Spec
INVARIANTS AnswerIsRelation RouteIsNearest RoutedIsHandled ExecAnswersAsDefined
CHECK_DEADLOCK FALSE
