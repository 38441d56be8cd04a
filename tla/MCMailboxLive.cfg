SPECIFICATION MailboxFairSpec
CONSTANTS
  t1 = t1
  t2 = t2
  t3 = t3
  NULL = NULL
  NumSlot = 2
  Task = {t1, t2}
  Kinds = {"CALL"}
  MaxCalls = 2
PROPERTY CallReturns
