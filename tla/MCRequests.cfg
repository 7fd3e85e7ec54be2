SPECIFICATION MCSpec
CONSTANTS
  Requests = {r1, r2}
  Writers = {w1, w2}
  Patient = {r1}
  MaxSlots = 1
  MaxWrites = 2
SYMMETRY WriterSymmetry
INVARIANTS
  ViewIsCurrent
  AnswerIsWhole
  ErrorsKeepTheirMeaning
  ConversationKept
  CacheIsTrue
  RowsChargedOnce
  EngineIsAsSaid
