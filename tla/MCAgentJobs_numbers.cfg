\* One call of a tool on a file: a number is a value a setting may have.
SPECIFICATION TheSpec
CONSTANTS
  Agents = {a1}
  NoAgent = NoAgent
  Callers = {c1}
  Calls <- TheCalls
  Starts <- TheStarts
  MaxCalls = 1
  MaxMarks = 1
  MaxBeats = 1
  Paths <- ThePaths
  Texts <- TheTexts
  Questions <- TheQuestions
  MaxNewest = 1
  Default = 4
  MaxChanges = 1
INVARIANT ConfiguredStarts
CHECK_DEADLOCK FALSE
