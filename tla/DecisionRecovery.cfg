CONSTANTS
  s1 = s1
  s2 = s2
  DecisionServers = {s1, s2}
  MaxLives = 2
  MaxPushes = 2
  MaxAnswers = 2
  MaxClaims = 2
  Reconcilers = {s1, s2}
  MaxLines = 2
  MaxObserved = 3
  MaxRewrites = 1
  MaxChanges = 5
  PageSize = 1
  MaxResponses = 2
SPECIFICATION MCSpec
SYMMETRY Reordering
INVARIANT RecoveredOutcomeIsTrue
CHECK_DEADLOCK FALSE
