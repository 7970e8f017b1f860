CONSTANTS
  m1 = m1
  m2 = m2
  m3 = m3
  r1 = r1
  g1 = g1
  g2 = g2
  t1 = t1
  t2 = t2
  Messages = {m1, m2, m3}
  Remembering = {m2}
  Reports = {r1}
  Executing = {m1}
  Unconfirmed = {m3}
  Gateways = {g1, g2}
  MaxAttempts = 2
  MaxWakes = 3
  MaxCrashes = 1
  PiTurns = {t1, t2}
  Sessions <- MCSessions
SPECIFICATION MCSpec
INVARIANTS ChatRecordsAgree AnswersDoNotCross
PROPERTIES TurnsOnlyAdvance ReportsAreDelivered TurnsSettle
CHECK_DEADLOCK FALSE
