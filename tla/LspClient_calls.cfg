\* Two callers at work on one document, and whatever the server says.
SPECIFICATION Spec
CONSTANTS
  Callers = {c1, c2}
  Documents = {d1}
  NoDocument = NoDocument
  MaxEvents = 3
INVARIANTS
  ClientIsInStep
PROPERTIES
  RequestsEnd
CHECK_DEADLOCK FALSE
