\* Two turns of up to two requests and two calls in all, or with one call
\* more in every reply, with a hook command before and one after a call; any bash command on two machines;
\* any process of up to three steps.
SPECIFICATION TheSpec
CONSTANTS
  Tools <- TwoTools
  Requirements <- TwoRequirements
  MaxIterations = 2
  PreHooks = 1
  PostHooks = 1
  UsageValues = {2}
  NoUsage = NoUsage
  MaxTurns = 2
  MaxCalls = 2
  Persistent <- OnePersistent
  CallWishes <- MCWishes
  SettingsWishes <- MCSettings
  Machines <- MCMachines
  Invocations <- MCInvocations
  Programs <- MCPrograms
  Capacity = 1
  EnvLimit = 2
INVARIANTS
  SessionIsComplete
  SessionTellsAll
  IsolationIsTold
  AnswersAreTrue
PROPERTIES
  CallsComeBack
  TurnTerminates
  ImplementsTranscript
CHECK_DEADLOCK FALSE
