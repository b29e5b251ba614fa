SPECIFICATION FairSpec
CONSTANTS
  Queries = {q1}
  Schemas = {g1}
  Registry <- OneOfEach
  Tables = {t1, t2, t3}
  SystemIndices = {t3}
  MaxReply = 4
  MaxAlters = 2
  DEFAULT_ROWS = 1
  MAX_KEYS = 3
INVARIANTS AnswersAreTrue NoConnectionLeft SchemaMissesNothing
PROPERTY QueryIsAnswered
CHECK_DEADLOCK FALSE
