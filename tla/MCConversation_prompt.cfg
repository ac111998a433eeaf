\* The Prompt mode and what the report says of it.
SPECIFICATION TheSpec
CONSTANTS
  Tools <- TwoTools
  Requirements <- TwoRequirements
  MaxIterations = 2
  PreHooks = 0
  PostHooks = 0
  UsageValues = {1}
  NoUsage = NoUsage
  MaxTurns = 1
  MaxCalls = 1
  Persistent = {}
  CallWishes <- MCWishes
  SettingsWishes <- MCSettings
  Machines <- MCMachines
  Invocations <- MCInvocations
  Programs <- MCPrograms
  Capacity = 1
  EnvLimit = 2
INVARIANT
  PromptModeAsksEveryTime
CHECK_DEADLOCK FALSE
