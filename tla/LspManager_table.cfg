\* Two callers, two servers, three processes: calls, starts, failures,
\* shutdowns and callers that go away.
SPECIFICATION Spec
CONSTANTS
  Callers = {c1, c2}
  Servers = {s1, s2}
  MaxStarted = 3
  MaxCalls = 4
INVARIANTS
  TableIsFresh
  ProcessesAreAccounted
PROPERTIES
  NeverReplaced
  CallersGetOn
CHECK_DEADLOCK FALSE
