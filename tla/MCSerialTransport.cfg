SPECIFICATION FairSpec
CONSTANTS
  Budgets <- MCBudgets
  MaxWant = 2
  MaxBytes = 3
  MaxLag = 1
  MinTimeout = 2
  INITIAL_TIMEOUT = 4
INVARIANTS
  TypeOK
  NeverEarly
  NotLate
PROPERTIES
  ImplementsTrait
  EveryReadReturns
