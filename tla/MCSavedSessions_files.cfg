\* Two programs and two turns, with any end; two runners with two commands
\* on five repositories and two changes; two programs that set up a project,
\* and one file of the user's; five messages and any compactions; the text of
\* two messages, cut off at any place, written over another one or with one
\* character changed.
SPECIFICATION TheSpec
CONSTANTS
  Programs = {p1, p2}
  NoProgram = NoProgram
  Preserve = 3
  TurnShapes <- Shapes
  MaxTurns = 2
  MaxTime = 2
  Runners = {"one", "two"}
  Changes = {"x", "y"}
  Repositories <- MCRepositories
  Slug = "topic"
  MaxCommands = 2
  Starters = {"one", "two"}
  MarkerSets <- MCMarkerSets
  Drafts <- MCDrafts
  MaxInits = 2
  MaxDrafts = 1
  Recent = 1
  Utterances <- MCUtterances
  MaxSpoken = 5
  Sentences <- TheSentences
  Odd <- TheOdd
  WordMax = 99
  LongMax = 999
  MaxSentences = 2
  MaxFaults = 1
SYMMETRY Symmetry
INVARIANTS SavedIsCurrent WorkArrives TextsAreKept
PROPERTY OwnTurnsSurvive
CHECK_DEADLOCK FALSE
