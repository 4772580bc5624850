SPECIFICATION Spec
CONSTANTS
  Names = {"Foo", "Bar"}
  Foo = "Foo"
  MaxLength = 5
INVARIANTS
  VisitsInOrder
PROPERTIES
  VisitsAll
CHECK_DEADLOCK FALSE
