SPECIFICATION Spec
CONSTANTS
  None = None
  c1 = c1
  f1 = f1
  t1 = t1
  t2 = t2
  Conns = {c1}
  Flows = {f1}
  Senders = {t1, t2}
  MaxCount = 0
  MaxJiffies = 0
  JiffiesRange = 2
  MaxAsked = 2
  MaxClients = 2
INVARIANTS AnswersInOrder RuleIsKnown NothingOutlives
PROPERTY AnswersArrive
CHECK_DEADLOCK FALSE
