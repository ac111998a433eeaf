\* Starts with any three arguments or any settings files, seven keys at the
\* prompt, two lines with slash commands, two programs that log in, log out
\* and start, two whose logins await the browser at once, up to two agents or
\* skills, and four instruction files.
SPECIFICATION TheSpec
CONSTANTS
  ArgLists <- TheArgLists
  Inline <- TheInline
  Spelling <- TheSpelling
  Tokens <- TheTokens
  FileSets <- TheFileSets
  PluginTools <- ThePluginTools
  Lines <- TheLines
  MaxLines = 2
  Sorted <- TheSorted
  SmallWords <- TheSmallWords
  Typed = {"a", "wide", "/"}
  Completions <- TheCompletions
  Histories <- TheHistories
  MaxBytes = 7
  MaxPresses = 7
  Programs = {p1, p2}
  Logins = {"one", "two"}
  Bases <- TheBases
  MaxTokens = 3
  MaxCommands = 4
  Ancestors <- TheAncestors
  Homes <- TheHomes
  CodexHomes <- TheCodexHomes
  Layouts <- TheLayouts
  Ranked <- TheRanked
  Lower <- TheLower
  Projects <- TheProjects
  PerFile = 6
  Total = 14
  Mark = 2
INVARIANTS
  AskedIsDone
  CredentialsAreWhole
  LoginIsKept
  DefinitionsResolve
  InstructionsFit
PROPERTIES
  KeysKeepTheText
SYMMETRY Symmetry
CHECK_DEADLOCK FALSE
