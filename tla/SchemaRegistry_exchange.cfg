\* Two processes with their own registries; one payload in flight.
CONSTANTS
  sender = sender  receiver = receiver
  Procs = {sender, receiver}
  Base = 2
  Utf8 <- MCUtf8
  StructNames <- MCNames
  Values <- MCValues
  MaxDepth = 4
  SchemaChoices <- MCSchemas
  ValueChoices <- MCDicts
  MaxPayloads = 1
SPECIFICATION Spec
INVARIANTS RegistryTypeOK SelfDescribing Exchange TruncationDetected
