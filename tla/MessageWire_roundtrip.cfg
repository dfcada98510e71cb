\* Every class statement of up to two classes, names reused and bodies rejected.
CONSTANTS
  Base = 2
  Utf8 <- MCUtf8
  StructNames <- MCNames
  Values <- WireValues
  Samples <- MCSamples
  MaxItems = 1
  MaxDepth = 4
  Qualnames = {"Waypoint"}
  SchemaNames = {"shared"}
  Scalars <- MCScalars
  FieldNames = {"x", "y"}
  MaxFields = 1
  MaxClasses = 2
  MaxDefs = 2
SPECIFICATION Spec
CHECK_DEADLOCK FALSE
INVARIANTS RoundTrip AutoNamedOwnSchema
PROPERTIES OrphansStayUnused
