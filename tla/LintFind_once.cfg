SPECIFICATION Spec
CONSTANTS
  Names = {"Foo", "Bar"}
  Foo = "Foo"
  MaxLength = 3
INVARIANTS
  VisitsOnce
CHECK_DEADLOCK FALSE
