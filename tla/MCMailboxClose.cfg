SPECIFICATION MailboxFairSpec
CONSTANTS
  t1 = t1
  t2 = t2
  t3 = t3
  NULL = NULL
  NumSlot = 1
  Task = {t1}
  MaxCalls = 1
  Kinds = {"CLOSE_NULL"}
PROPERTY CallReturns
