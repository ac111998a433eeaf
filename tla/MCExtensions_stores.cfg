\* Discoveries, calls, shutdowns and dropped methods with two MCP servers;
\* one plugin that is installed and one that is bundled, two versions,
\* commands that may fail at every step; two plugin directories, one of
\* them with a manifest that is wrong in one place.
SPECIFICATION TheSpec
CONSTANTS
  Order <- TwoServers
  Tools = {"echo", "add"}
  Names = {"alpha", "shared"}
  NameOf <- MCNameOf
  MaxId = 9
  Budgets <- MCBudgets
  External = {"external"}
  Bundled = {"bundled"}
  MaxVersion = 2
  MaxChanges = 3
  Folders <- TheFolders
  FlagSets <- TheFlags
  IdOrder <- TheOrder
INVARIANTS
  CallersAreTold
  PluginsAreSound
PROPERTIES
  MethodsEnd
CHECK_DEADLOCK FALSE
