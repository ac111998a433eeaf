\* Two sub-agents whose launches, threads and write failures interleave, two
\* callers of tools on one file, the two threads of a run of /ultraplan, and
\* answers in parts of at most 1, 3 or any number of entries.
SPECIFICATION TheSpec
CONSTANTS
  Agents = {a1, a2}
  NoAgent = NoAgent
  Callers = {c1, c2}
  Calls <- TheCalls
  Starts <- TheStarts
  MaxCalls = 3
  MaxMarks = 4
  MaxBeats = 3
  Paths <- ThePaths
  Texts <- TheTexts
  Questions <- TheQuestions
  MaxNewest = 1
  Default = 4
  MaxChanges = 1
INVARIANTS
  ManifestAfterOutput
  RunningIsTrue
  ChangesSurvive
  PagesCover
  ReportsInOrder
PROPERTIES
  TerminalIsFinal
  WorkEnds
CHECK_DEADLOCK FALSE
