SPECIFICATION Spec
CONSTANTS
  Kinds = {"replay", "mock"}
  MaxWant = 3
  MaxSize = 5
  MaxOther = 2
INVARIANTS
  TypeOK
  DeliveredInOrder
PROPERTIES
  ImplementsTrait
