SPECIFICATION FairSpec
CONSTANTS
  Invokers = {t1, t2, t3}
  PoolSize = 3
  NBits = 5
  Garbage <- AnyGarbage
  None = None
INVARIANTS TakenIsOpen KeysMatch NoSessionLeft
PROPERTIES WaitersServed
CHECK_DEADLOCK FALSE
