SPECIFICATION Spec
CONSTANTS
  w1 = w1
  w2 = w2
  a1 = a1
  c1 = c1
  Workers = {w1, w2}
  Agents = {a1}
  NoRow = NoRow
  NoBody = NoBody
  NoCall = NoCall
  MaxTime = 3
  MaxRows = 2
  Judgements <- SafeOrCaution
  TTL = 1
  MaxKeys = 2
  Callers = {c1}
  Amounts = {1}
  ASK_TIMEOUT = 1
INVARIANT TypeOK
INVARIANT PaidOnRecentRecord
INVARIANT AnswersRecompute
INVARIANT AnswersTellHistory
SYMMETRY Symmetry
CHECK_DEADLOCK FALSE
