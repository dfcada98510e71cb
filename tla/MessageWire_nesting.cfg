\* Three classes, each with a schema of its own.
CONSTANTS
  Base = 2
  Utf8 <- MCUtf8
  StructNames <- MCNames
  Values <- MCNestedValues
  Samples <- MCSamples
  MaxItems = 1
  MaxDepth = 4
  Qualnames = {"Waypoint"}
  SchemaNames = {}
  Scalars <- MCScalars
  FieldNames = {"x"}
  MaxFields = 1
  MaxClasses = 3
  MaxDefs = 3
SPECIFICATION Spec
CHECK_DEADLOCK FALSE
INVARIANTS NestingWorks
